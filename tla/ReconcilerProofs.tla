-------------------------- MODULE ReconcilerProofs --------------------------
(***************************************************************************)
(* The properties of Reconciler, for any names, sleeves, floors and cap,   *)
(* any source weights and equities, and any number of rebalances.          *)
(***************************************************************************)
EXTENDS Reconciler, Sums

-----------------------------------------------------------------------------
(***************************************************************************)
(* Common divisors.                                                        *)
(***************************************************************************)

Divides(d, n) == \E k \in Nat : n = d * k

\* Whatever divides a divisor also divides what that divides.
LEMMA DividesTransitive ==
    ASSUME NEW d \in Nat, NEW m \in Nat, NEW n \in Nat, Divides(d, m), Divides(m, n)
    PROVE  Divides(d, n)
<1>1. PICK k \in Nat : m = d * k
    BY DEF Divides
<1>2. PICK j \in Nat : n = m * j
    BY DEF Divides
<1>3. n = d * (k * j) /\ k * j \in Nat
    BY <1>1, <1>2
<1> QED
    BY <1>3 DEF Divides

\* A divisor of a number other than 0 is not 0, and not above it.
LEMMA DivisorBounds ==
    ASSUME NEW d \in Nat, NEW n \in Nat \ {0}, Divides(d, n)
    PROVE  d \in 1 .. n
<1>1. PICK k \in Nat : n = d * k
    BY DEF Divides
<1>2. k >= 1 /\ d >= 1
    BY <1>1
<1>3. d * k >= d
    BY <1>2
<1> QED
    BY <1>1, <1>2, <1>3

\* One step of Euclid's algorithm keeps the common divisors.
LEMMA EuclidStep ==
    ASSUME NEW d \in Nat, NEW m \in Nat, NEW n \in Nat \ {0}, Divides(d, n)
    PROVE  Divides(d, m) <=> Divides(d, m % n)
<1>1. PICK k \in Nat : n = d * k
    BY DEF Divides
<1>2. m = n * (m \div n) + (m % n) /\ m \div n \in Nat /\ m % n \in 0 .. n - 1
    OBVIOUS
<1>3. PICK q \in Nat, r \in 0 .. n - 1 : m = n * q + r /\ r = m % n
    BY <1>2
<1>4. ASSUME Divides(d, r) PROVE Divides(d, m)
    <2>1. PICK j \in Nat : r = d * j
        BY <1>4 DEF Divides
    <2>2. PICK i \in Nat : i = k * q + j
        BY <1>3, <2>1
    <2>3. n * q = d * (k * q) /\ d * i = d * (k * q) + d * j
        BY <1>1, <1>3, <2>2
    <2>4. PICK x \in Int, y \in Int : x = n * q /\ y = d * (k * q)
        BY <1>1, <1>3
    <2>5. m = d * i
        BY <1>3, <2>1, <2>3, <2>4
    <2> QED
        BY <2>2, <2>5 DEF Divides
<1>5. ASSUME Divides(d, m) PROVE Divides(d, r)
    <2>1. PICK j \in Nat : m = d * j
        BY <1>5 DEF Divides
    <2>2. PICK i \in Int : i = j - k * q
        BY <1>3, <2>1
    <2>3. d * j = d * (k * q) + r
        BY <1>1, <1>3, <2>1
    <2>4. d * i = d * j - d * (k * q)
        BY <2>2
    <2>5. r = d * i
        <3>1. PICK x \in Int, y \in Int, z \in Int : x = d * (k * q) /\ y = d * j /\ z = d * i
            BY <1>3, <2>1
        <3>2. y = x + r /\ z = y - x
            BY <2>3, <2>4, <3>1
        <3>3. z = r
            BY <3>1, <3>2, <1>3
        <3> QED
            BY <3>1, <3>3
    <2>6. d > 0 /\ r >= 0
        BY <1>1, <1>3
    <2>7. i >= 0
        <3>1. i < 0 => d * i < 0
            BY <2>6
        <3> QED
            BY <2>5, <2>6, <3>1
    <2> QED
        BY <2>5, <2>7 DEF Divides
<1> QED
    BY <1>3, <1>4, <1>5

Euclid(g) == [p \in Nat \X Nat |-> IF p[2] = 0 THEN p[1] ELSE g[<<p[2], p[1] % p[2]>>]]

Common(m, n) == {d \in Nat \ {0} : Divides(d, m) /\ Divides(d, n)}

Greatest(T) == CHOOSE d \in T : \A e \in T : e <= d

\* A bounded set of numbers has a greatest.
LEMMA GreatestNumber ==
    ASSUME NEW b \in Nat, NEW T, T \subseteq 0 .. b, T # {}
    PROVE  Greatest(T) \in T /\ \A e \in T : e <= Greatest(T)
<1> DEFINE Gaps == {n \in Nat : \E e \in T : n = b - e}
<1>1. Gaps \subseteq Nat /\ Gaps # {}
    <2>1. PICK e \in T : TRUE
        OBVIOUS
    <2>2. b - e \in Gaps
        BY <2>1
    <2> QED
        BY <2>2
<1>2. PICK n \in Gaps : \A m \in Gaps : n <= m
    <2> HIDE DEF Gaps
    <2> QED
        BY <1>1, LeastNumber
<1>3. PICK d \in T : n = b - d
    BY <1>2
<1>4. ASSUME NEW e \in T PROVE e <= d
    <2>1. b - e \in Gaps
        OBVIOUS
    <2> QED
        BY <1>2, <1>3, <2>1
<1> QED
    BY <1>3, <1>4 DEF Greatest

\* Euclid's recursion has a solution: the greatest common divisor.
LEMMA EuclidHasSolution == Gcd = Euclid(Gcd)
<1> DEFINE g == [p \in Nat \X Nat |->
                    IF p[1] = 0 /\ p[2] = 0 THEN 0 ELSE Greatest(Common(p[1], p[2]))]
<1>1. ASSUME NEW m \in Nat PROVE g[<<m, 0>>] = m
    <2>1. CASE m = 0
        BY <2>1
    <2>2. CASE m # 0
        <3>1. m = m * 1 /\ 0 = m * 0
            OBVIOUS
        <3>2. Divides(m, m) /\ Divides(m, 0)
            BY <3>1 DEF Divides
        <3>3. m \in Common(m, 0)
            BY <2>2, <3>2 DEF Common
        <3>4. \A d \in Common(m, 0) : d \in 1 .. m
            BY <2>2, DivisorBounds DEF Common
        <3>5. Greatest(Common(m, 0)) \in 1 .. m /\ m <= Greatest(Common(m, 0))
            BY <3>3, <3>4, GreatestNumber
        <3>6. g[<<m, 0>>] = Greatest(Common(m, 0))
            BY <2>2
        <3> HIDE DEF g
        <3> QED
            BY <3>5, <3>6
    <2> QED
        BY <2>1, <2>2
<1>2. ASSUME NEW m \in Nat, NEW n \in Nat \ {0} PROVE g[<<m, n>>] = g[<<n, m % n>>]
    <2>1. Common(m, n) = Common(n, m % n)
        BY EuclidStep DEF Common
    <2>2. m % n \in Nat
        OBVIOUS
    <2> QED
        BY <2>1, <2>2
<1>3. g = Euclid(g)
    <2>1. ASSUME NEW p \in Nat \X Nat
          PROVE  g[p] = IF p[2] = 0 THEN p[1] ELSE g[<<p[2], p[1] % p[2]>>]
        <3>1. PICK m \in Nat, n \in Nat : p = <<m, n>>
            OBVIOUS
        <3> HIDE DEF g
        <3> QED
            BY <1>1, <1>2, <3>1
    <2>2. g = [p \in Nat \X Nat |-> g[p]]
        OBVIOUS
    <2> HIDE DEF g
    <2> QED
        BY <2>1, <2>2 DEF Euclid
<1>4. Gcd = CHOOSE f : f = Euclid(f)
    BY DEF Gcd, Euclid
<1> HIDE DEF g
<1> QED
    BY <1>3, <1>4

\* What it computes divides both numbers.
LEMMA GcdDivides ==
    ASSUME NEW m \in Nat, NEW n \in Nat
    PROVE  /\ Gcd[<<m, n>>] \in Nat
           /\ Divides(Gcd[<<m, n>>], m) /\ Divides(Gcd[<<m, n>>], n)
<1> DEFINE Right(k, j) ==
               /\ Gcd[<<k, j>>] \in Nat
               /\ Divides(Gcd[<<k, j>>], k) /\ Divides(Gcd[<<k, j>>], j)
           Wrong == {j \in Nat : \E k \in Nat : ~ Right(k, j)}
<1> SUFFICES ASSUME Wrong # {} PROVE FALSE
    OBVIOUS
<1>1. PICK j \in Wrong : \A i \in Wrong : j <= i
    <2> HIDE DEF Right
    <2> QED
        BY LeastNumber
<1>2. PICK k \in Nat : ~ Right(k, j)
    BY <1>1
<1>3. CASE j = 0
    <2>1. Gcd[<<k, 0>>] = k
        BY EuclidHasSolution DEF Euclid
    <2>2. k = k * 1 /\ 0 = k * 0
        OBVIOUS
    <2>3. Divides(k, k) /\ Divides(k, 0)
        BY <2>2 DEF Divides
    <2> QED
        BY <1>2, <1>3, <2>1, <2>3
<1>4. CASE j # 0
    <2>1. j \in Nat \ {0} /\ k % j \in 0 .. j - 1
        BY <1>1, <1>4
    <2>2. Gcd[<<k, j>>] = Gcd[<<j, k % j>>]
        BY <2>1, EuclidHasSolution DEF Euclid
    <2>3. k % j \notin Wrong /\ k % j \in Nat
        <3> HIDE DEF Wrong
        <3> QED
            BY <1>1, <2>1
    <2>4. Right(j, k % j)
        BY <2>1, <2>3
    <2>5. Divides(Gcd[<<k, j>>], k)
        BY <2>1, <2>2, <2>4, EuclidStep
    <2> QED
        BY <1>2, <2>2, <2>4, <2>5
<1> QED
    BY <1>3, <1>4

-----------------------------------------------------------------------------
(***************************************************************************)
(* Weights: naturals over a common denominator.                            *)
(***************************************************************************)

\* A factor other than 0 keeps and reflects the order.
LEMMA Cancels ==
    ASSUME NEW g \in Nat \ {0}, NEW a \in Int, NEW b \in Int
    PROVE  (g * a <= g * b <=> a <= b) /\ (g * a = g * b <=> a = b)
<1>1. ASSUME NEW x \in Int, NEW y \in Int, x < y PROVE g * x < g * y
    <2>1. PICK d \in Nat \ {0} : d = y - x
        BY <1>1
    <2>2. g * y = g * x + g * d
        <3>1. y = x + d
            BY <2>1
        <3> QED
            BY <3>1
    <2>3. g * d > 0
        BY <2>1
    <2>4. PICK u \in Int, v \in Int, z \in Int : u = g * x /\ v = g * y /\ z = g * d
        OBVIOUS
    <2> QED
        BY <2>2, <2>3, <2>4
<1>2. PICK u \in Int, v \in Int : u = g * a /\ v = g * b
    OBVIOUS
<1>3. (a < b => u < v) /\ (b < a => v < u)
    BY <1>1, <1>2
<1> QED
    BY <1>2, <1>3

\* The fold of a vector's names: a common divisor of its numbers.
LEMMA FoldDivides ==
    ASSUME IsFiniteSet(Ticker), NEW num \in [Ticker -> Nat], NEW den \in Nat
    PROVE  LET g == FoldFunction(LAMBDA m, n : Gcd[<<m, n>>], den, num)
           IN  /\ g \in Nat /\ Divides(g, den)
               /\ \A t \in Ticker : Divides(g, num[t])
<1> DEFINE op == [p \in Ticker \X Nat |-> Gcd[<<num[p[1]], p[2]>>]]
           Step(g, s) == IF s = {} THEN den ELSE Gcd[<<num[Pick(s)], g[s \ {Pick(s)}]>>]
           Fold == CHOOSE g : g = [s \in SUBSET Ticker |-> Step(g, s)]
           Right(g, T) == g[T] \in Nat /\ Divides(g[T], den) /\ \A t \in T : Divides(g[T], num[t])
           Whole == FoldFunction(LAMBDA m, n : Gcd[<<m, n>>], den, num)
<1>1. Whole = Fold[Ticker]
    <2>1. DOMAIN num = Ticker
        OBVIOUS
    <2>2. Whole = FoldFunctionOnSet(LAMBDA m, n : Gcd[<<m, n>>], den, num, Ticker)
        BY <2>1 DEF FoldFunction
    <2>3. FoldFunctionOnSet(LAMBDA m, n : Gcd[<<m, n>>], den, num, Ticker) = Fold[Ticker]
        BY DEF FoldFunctionOnSet, MapThenFoldSet, Pick
    <2> QED
        BY <2>2, <2>3
<1>2. \E g : g = Unfolded(op, den, g, Ticker)
    BY FoldExists
<1>3. PICK g : g = Unfolded(op, den, g, Ticker)
    BY <1>2
<1>4. ASSUME NEW h, NEW T \in SUBSET Ticker, T # {}, Right(h, T \ {Pick(T)}),
             h[T] = Gcd[<<num[Pick(T)], h[T \ {Pick(T)}]>>]
      PROVE  Right(h, T)
    <2>1. Pick(T) \in T /\ Pick(T) \in Ticker
        BY <1>4 DEF Pick
    <2>2. PICK m \in Nat, n \in Nat : m = num[Pick(T)] /\ n = h[T \ {Pick(T)}]
        BY <1>4, <2>1
    <2>3. h[T] \in Nat /\ Divides(h[T], m) /\ Divides(h[T], n)
        BY <1>4, <2>2, GcdDivides
    <2>4. Divides(h[T], den)
        BY <1>4, <2>2, <2>3, DividesTransitive
    <2>5. ASSUME NEW t \in T PROVE Divides(h[T], num[t])
        <3>1. CASE t = Pick(T)
            BY <2>2, <2>3, <3>1
        <3>2. CASE t # Pick(T)
            <4>1. Divides(n, num[t]) /\ num[t] \in Nat
                BY <1>4, <2>2, <3>2
            <4> QED
                BY <2>2, <2>3, <4>1, DividesTransitive
        <3> QED
            BY <3>1, <3>2
    <2> QED
        BY <2>3, <2>4, <2>5
<1>5. ASSUME NEW h, h[{}] = den PROVE Right(h, {})
    <2>1. den = den * 1
        OBVIOUS
    <2>2. Divides(den, den)
        BY <2>1 DEF Divides
    <2> QED
        BY <1>5, <2>2
<1>6. g = [s \in SUBSET Ticker |-> Step(g, s)]
    <2> DEFINE Good == {T \in SUBSET Ticker : Right(g, T)}
    <2>1. {} \in Good
        <3>1. g[{}] = den
            BY <1>3 DEF Unfolded
        <3> HIDE DEF Right
        <3> QED
            BY <1>5, <3>1
    <2>2. ASSUME NEW T \in SUBSET Ticker, T # {}, \A x \in T : T \ {x} \in Good
          PROVE  T \in Good /\ op[<<Pick(T), g[T \ {Pick(T)}]>>] = Step(g, T)
        <3>1. Pick(T) \in T /\ Right(g, T \ {Pick(T)})
            BY <2>2 DEF Pick
        <3>2. op[<<Pick(T), g[T \ {Pick(T)}]>>] = Step(g, T)
            BY <2>2, <3>1
        <3>3. g[T] = op[<<Pick(T), g[T \ {Pick(T)}]>>]
            BY <1>3, <2>2 DEF Unfolded
        <3>4. g[T] = Gcd[<<num[Pick(T)], g[T \ {Pick(T)}]>>]
            BY <2>2, <3>2, <3>3
        <3> HIDE DEF Right
        <3> QED
            BY <1>4, <2>2, <3>1, <3>2, <3>4
    <2>3. SUBSET Ticker \subseteq Good
        <3> HIDE DEF Good, op
        <3> QED
            BY <2>1, <2>2, SubsetInduction
    <2>4. ASSUME NEW T \in SUBSET Ticker, T # {}
          PROVE  op[<<Pick(T), g[T \ {Pick(T)}]>>] = Step(g, T)
        <3> HIDE DEF Good, op
        <3> QED
            BY <2>2, <2>3, <2>4
    <2> HIDE DEF op
    <2> QED
        BY <1>3, <2>4 DEF Unfolded
<1>7. Fold = [s \in SUBSET Ticker |-> Step(Fold, s)]
    BY <1>6
<1> HIDE DEF Fold
<1> DEFINE Good == {T \in SUBSET Ticker : Right(Fold, T)}
<1>8. SUBSET Ticker \subseteq Good
    <2>1. {} \in Good
        <3>1. Fold[{}] = den
            BY <1>7
        <3> HIDE DEF Right
        <3> QED
            BY <1>5, <3>1
    <2>2. ASSUME NEW T \in SUBSET Ticker, T # {}, \A x \in T : T \ {x} \in Good
          PROVE  T \in Good
        <3>1. Pick(T) \in T
            BY <2>2 DEF Pick
        <3>2. Right(Fold, T \ {Pick(T)})
            BY <2>2, <3>1
        <3>3. Fold[T] = Gcd[<<num[Pick(T)], Fold[T \ {Pick(T)}]>>]
            BY <1>7, <2>2
        <3> HIDE DEF Right
        <3> QED
            BY <1>4, <2>2, <3>2, <3>3
    <2> HIDE DEF Good
    <2> QED
        BY <2>1, <2>2, SubsetInduction
<1>9. Whole \in Nat /\ Divides(Whole, den) /\ \A t \in Ticker : Divides(Whole, num[t])
    <2> HIDE DEF Whole
    <2> QED
        BY <1>1, <1>8
<1> QED
    BY <1>9

Weights(w) == w.num \in [Ticker -> Nat] /\ w.den \in Nat \ {0}

\* v is w with its numbers divided by g.
Scaled(g, num, den, v) ==
    g \in Nat \ {0} /\ den = g * v.den /\ \A t \in Ticker : num[t] = g * v.num[t]

\* Lowest terms are the same weights, over a smaller denominator.
LEMMA VectorFact ==
    ASSUME IsFiniteSet(Ticker), NEW num \in [Ticker -> Nat], NEW den \in Nat \ {0}
    PROVE  Weights(Vector(num, den)) /\ \E g : Scaled(g, num, den, Vector(num, den))
<1> DEFINE h == FoldFunction(LAMBDA m, n : Gcd[<<m, n>>], den, num)
<1>1. /\ h \in Nat /\ Divides(h, den)
      /\ \A t \in Ticker : Divides(h, num[t])
    BY FoldDivides
<1> HIDE DEF h
<1>2. h \in Nat \ {0}
    BY <1>1, DivisorBounds
<1>3. PICK g \in Nat \ {0} : g = h
    BY <1>2
<1>4. ASSUME NEW n \in Nat, Divides(g, n) PROVE n \div g \in Nat /\ n = g * (n \div g)
    <2>1. PICK k \in Nat : n = g * k
        BY <1>4 DEF Divides
    <2>2. n \div g \in Nat /\ n = g * (n \div g) + (n % g) /\ n % g \in 0 .. g - 1
        OBVIOUS
    <2>3. PICK q \in Nat, r \in 0 .. g - 1 : q = n \div g /\ r = n % g /\ g * k = g * q + r
        BY <2>1, <2>2
    <2>4. k = q
        <3>1. PICK d \in Int : d = k - q
            OBVIOUS
        <3>2. g * d = r
            <4>1. g * d = g * k - g * q
                BY <3>1
            <4>2. PICK x \in Int, y \in Int, z \in Int : x = g * k /\ y = g * q /\ z = g * d
                OBVIOUS
            <4> QED
                BY <2>3, <4>1, <4>2
        <3>3. d >= 1 => g * d >= g
            OBVIOUS
        <3>4. d <= -1 => g * d < 0
            OBVIOUS
        <3>5. d = 0
            BY <2>3, <3>2, <3>3, <3>4
        <3> QED
            BY <3>1, <3>5
    <2> QED
        BY <2>1, <2>3, <2>4
<1>5. den \div g \in Nat /\ den = g * (den \div g)
    BY <1>1, <1>3, <1>4
<1>6. \A t \in Ticker : num[t] \div g \in Nat /\ num[t] = g * (num[t] \div g)
    BY <1>1, <1>3, <1>4
<1>7. den \div g # 0
    BY <1>5
<1> DEFINE n == [t \in Ticker |-> num[t] \div g]
           d == den \div g
<1>8. Vector(num, den) = [num |-> n, den |-> d]
    BY <1>3 DEF Vector, h
<1>9. n \in [Ticker -> Nat] /\ \A t \in Ticker : num[t] = g * n[t]
    BY <1>6
<1>10. d \in Nat \ {0} /\ den = g * d
    BY <1>5, <1>7
<1> HIDE DEF n, d
<1>11. Vector(num, den).num = n /\ Vector(num, den).den = d
    BY <1>8
<1>12. Weights(Vector(num, den))
    BY <1>9, <1>10, <1>11 DEF Weights
<1>13. Scaled(g, num, den, Vector(num, den))
    BY <1>9, <1>10, <1>11 DEF Scaled
<1> QED
    BY <1>12, <1>13

\* A comparison of weights does not change in lowest terms.
LEMMA Homogeneous ==
    ASSUME NEW g \in Nat \ {0}, NEW x \in Int, NEW y \in Int, NEW p \in Int, NEW q \in Int,
           x = g * p, y = g * q, NEW a \in Int, NEW b \in Int
    PROVE  (a * x <= b * y <=> a * p <= b * q) /\ (a * x = b * y <=> a * p = b * q)
<1>1. PICK u \in Int, v \in Int : u = a * p /\ v = b * q
    OBVIOUS
<1>2. a * x = g * u /\ b * y = g * v
    BY <1>1
<1>3. (g * u <= g * v <=> u <= v) /\ (g * u = g * v <=> u = v)
    BY Cancels
<1> QED
    BY <1>1, <1>2, <1>3

\* One name's weight in lowest terms is the same weight.
LEMMA FractionFact ==
    ASSUME NEW n \in Nat, NEW d \in Nat \ {0}, n <= d
    PROVE  LET f == Fraction(n, d)
           IN  /\ f.num \in Nat /\ f.den \in Nat \ {0} /\ f.num <= f.den
               /\ f.num * d = n * f.den
               /\ f.num = 0 <=> n = 0
<1>1. PICK g \in Nat : g = Gcd[<<d, n>>]
    BY GcdDivides
<1>2. Divides(g, d) /\ Divides(g, n)
    BY <1>1, GcdDivides
<1>3. g # 0
    BY <1>2, DivisorBounds
<1>4. PICK i \in Nat, j \in Nat : d = g * i /\ n = g * j
    BY <1>2 DEF Divides
<1>5. ASSUME NEW m \in Nat, NEW k \in Nat, m = g * k PROVE m \div g = k
    <2>1. PICK q \in Nat, r \in 0 .. g - 1 : q = m \div g /\ m = g * q + r
        <3>1. m \div g \in Nat /\ m % g \in 0 .. g - 1 /\ m = g * (m \div g) + (m % g)
            BY <1>3
        <3> QED
            BY <3>1
    <2>2. ~ (k > q)
        <3>1. SUFFICES ASSUME k >= q + 1 PROVE FALSE
            OBVIOUS
        <3>2. g * (q + 1) <= g * k
            BY <1>3, <3>1, Cancels
        <3>3. g * (q + 1) = g * q + g
            OBVIOUS
        <3>4. PICK x \in Int, y \in Int, z \in Int : x = g * q /\ y = g * k /\ z = g * (q + 1)
            OBVIOUS
        <3> QED
            BY <1>5, <2>1, <3>2, <3>3, <3>4
    <2>3. ~ (k < q)
        <3>1. SUFFICES ASSUME k < q PROVE FALSE
            OBVIOUS
        <3>2. g * k < g * q
            BY <1>3, <3>1, Cancels
        <3>3. PICK x \in Int, y \in Int : x = g * q /\ y = g * k
            OBVIOUS
        <3> QED
            BY <1>5, <2>1, <3>2, <3>3
    <2> QED
        BY <2>1, <2>2, <2>3
<1>6. Fraction(n, d) = [num |-> j, den |-> i]
    BY <1>1, <1>4, <1>5 DEF Fraction
<1>7. j <= i
    BY <1>3, <1>4, Cancels
<1>8. i # 0 /\ (j = 0 <=> n = 0)
    BY <1>3, <1>4
<1>9. j * d = n * i
    BY <1>4
<1> QED
    BY <1>6, <1>7, <1>8, <1>9

\* What the sum of a vector's numbers is.
LEMMA TotalFact ==
    ASSUME IsFiniteSet(Ticker), NEW num \in [Ticker -> Nat]
    PROVE  /\ Total(num) \in Nat /\ Total(num) = SumOver(num, Ticker)
           /\ \A t \in Ticker : num[t] <= Total(num)
           /\ (\A t \in Ticker : num[t] = 0) => Total(num) = 0
<1>1. Total(num) = SumOver(num, Ticker)
    BY SumIsFold DEF Total
<1>2. SumOver(num, Ticker) \in Nat /\ \A t \in Ticker : num[t] <= SumOver(num, Ticker)
    BY SumOfNaturals
<1>3. ASSUME \A t \in Ticker : num[t] = 0 PROVE SumOver(num, Ticker) = 0
    <2>1. SumOver(num, Ticker) = 0 * SumOver(num, Ticker) + 0 * SumOver(num, Ticker)
        BY <1>3, SumCombines
    <2> QED
        BY <1>2, <2>1
<1> QED
    BY <1>1, <1>2, <1>3

\* The sum over some names is that of a vector with nothing for the others.
LEMMA PartTotal ==
    ASSUME IsFiniteSet(Ticker), NEW f \in [Ticker -> Nat], NEW T \in SUBSET Ticker
    PROVE  LET g == [t \in Ticker |-> IF t \in T THEN f[t] ELSE 0]
           IN  g \in [Ticker -> Nat] /\ Total([t \in T |-> f[t]]) = Total(g)
<1> DEFINE g == [t \in Ticker |-> IF t \in T THEN f[t] ELSE 0]
           h == [t \in T |-> f[t]]
<1>1. g \in [Ticker -> Nat]
    OBVIOUS
<1>2. DOMAIN h = T /\ \A t \in T : h[t] = f[t] /\ h[t] \in Int
    OBVIOUS
<1>3. \A t \in Ticker : g[t] = IF t \in T THEN h[t] ELSE 0
    OBVIOUS
<1> HIDE DEF g, h
<1>4. Total(h) = SumOver(h, T)
    BY <1>2, SumIsFold DEF Total
<1>5. SumOver(h, T) = SumOver(g, Ticker)
    BY <1>2, <1>3, SumOfPart
<1>6. Total(g) = SumOver(g, Ticker)
    BY <1>1, TotalFact
<1>7. g \in [Ticker -> Nat] /\ Total(h) = Total(g)
    BY <1>1, <1>4, <1>5, <1>6
<1> QED
    BY <1>7 DEF g, h

Combination(a, f, b, g, h) == \A t \in Ticker : h[t] = a * f[t] + b * g[t]

\* A combination of two vectors has that combination of their sums.
LEMMA TotalCombines ==
    ASSUME IsFiniteSet(Ticker), NEW a \in Nat, NEW b \in Nat, NEW f \in [Ticker -> Nat],
           NEW g \in [Ticker -> Nat], NEW h \in [Ticker -> Nat],
           Combination(a, f, b, g, h)
    PROVE  Total(h) = a * Total(f) + b * Total(g)
<1>1. SumOver(h, Ticker) = a * SumOver(f, Ticker) + b * SumOver(g, Ticker)
    BY SumCombines DEF Combination
<1> QED
    BY <1>1, TotalFact

\* Lowest terms have the same sum, and the same names.
LEMMA ScaledTotal ==
    ASSUME IsFiniteSet(Ticker), NEW num \in [Ticker -> Nat], NEW den \in Nat, NEW v, Weights(v),
           NEW g, Scaled(g, num, den, v)
    PROVE  /\ Total(num) = g * Total(v.num)
           /\ \A t \in Ticker : num[t] = 0 <=> v.num[t] = 0
<1>1. v.num \in [Ticker -> Nat] /\ g \in Nat \ {0}
    BY DEF Weights, Scaled
<1>2. PICK f \in [Ticker -> Nat] : f = v.num
    BY <1>1
<1>3. Combination(g, f, 0, f, num)
    BY <1>1, <1>2 DEF Scaled, Combination
<1>4. Total(num) = g * Total(f) + 0 * Total(f)
    BY <1>1, <1>3, TotalCombines
<1>5. Total(f) \in Nat
    BY TotalFact
<1>6. Total(num) = g * Total(f)
    BY <1>1, <1>4, <1>5
<1>7. \A t \in Ticker : num[t] = 0 <=> f[t] = 0
    BY <1>1, <1>2 DEF Scaled
<1> QED
    BY <1>2, <1>6, <1>7

-----------------------------------------------------------------------------
(***************************************************************************)
(* What the sleeves and the floor give.                                    *)
(***************************************************************************)

Leads(raw, P, s) == \A t \in s, u \in P \ s : raw[t] >= raw[u]

\* Of any number of names there are some that lead the others.
LEMMA LeadersExist ==
    ASSUME NEW P, IsFiniteSet(P), NEW raw \in [P -> Nat], NEW k \in Nat, k <= Cardinality(P)
    PROVE  \E s \in SUBSET P : Cardinality(s) = k /\ Leads(raw, P, s)
<1> DEFINE Found(n) == \E s \in SUBSET P : Cardinality(s) = n /\ Leads(raw, P, s)
           Good == {n \in Nat : n <= Cardinality(P) => Found(n)}
<1>1. 0 \in Good
    <2>1. Cardinality({}) = 0 /\ Leads(raw, P, {})
        BY FS_EmptySet DEF Leads
    <2> QED
        BY <2>1
<1>2. ASSUME NEW n \in Nat, n \in Good PROVE n + 1 \in Good
    <2>1. SUFFICES ASSUME n + 1 <= Cardinality(P) PROVE Found(n + 1)
        OBVIOUS
    <2>2. Cardinality(P) \in Nat
        BY FS_CardinalityType
    <2>3. PICK s \in SUBSET P : Cardinality(s) = n /\ Leads(raw, P, s)
        BY <1>2, <2>1, <2>2
    <2>4. s # P /\ IsFiniteSet(s)
        BY <2>1, <2>3, FS_Subset
    <2> DEFINE Rest == P \ s
               Values == {raw[t] : t \in Rest}
    <2>5. PICK y \in Rest : TRUE
        BY <2>3, <2>4
    <2>6. Values \subseteq Nat /\ Values # {}
        BY <2>5
    <2>7. \A t \in P : raw[t] <= SumOver(raw, P)
        BY SumOfNaturals
    <2>8. SumOver(raw, P) \in Nat
        BY SumOfNaturals
    <2>9. Values \subseteq 0 .. SumOver(raw, P)
        BY <2>7, <2>8
    <2>10. \E m \in Values : \A v \in Values : v <= m
        <3> HIDE DEF Values
        <3> QED
            BY <2>6, <2>8, <2>9, GreatestNumber
    <2>11. PICK x \in Rest : \A u \in Rest : raw[u] <= raw[x]
        BY <2>10
    <2>12. Cardinality(s \cup {x}) = n + 1
        BY <2>3, <2>4, FS_AddElement
    <2>13. ASSUME NEW t \in s \cup {x}, NEW u \in P \ (s \cup {x}) PROVE raw[t] >= raw[u]
        BY <2>3, <2>11 DEF Leads
    <2>14. Leads(raw, P, s \cup {x}) /\ s \cup {x} \in SUBSET P
        BY <2>13 DEF Leads
    <2> QED
        BY <2>12, <2>14
<1>3. Nat \subseteq Good
    <2> HIDE DEF Good
    <2> QED
        BY <1>1, <1>2, NumberInduction
<1> QED
    BY <1>3

\* A sleeve's names are names the source holds.
LEMMA TopFact ==
    ASSUME ReconcilerAssumption, NEW raw \in [Ticker -> Nat]
    PROVE  Top(raw) \subseteq {t \in Ticker : raw[t] > 0}
<1> DEFINE P == {t \in Ticker : raw[t] > 0}
           k == IF Cardinality(P) < TopN THEN Cardinality(P) ELSE TopN
           r == [t \in P |-> raw[t]]
<1>1. IsFiniteSet(P)
    BY FS_Subset DEF ReconcilerAssumption
<1>2. Cardinality(P) \in Nat
    BY <1>1, FS_CardinalityType
<1>3. k \in Nat /\ k <= Cardinality(P)
    BY <1>2 DEF ReconcilerAssumption
<1>4. r \in [P -> Nat] /\ \A t \in P : r[t] = raw[t]
    OBVIOUS
<1>5. Top(raw) = CHOOSE s \in SUBSET P :
                     Cardinality(s) = k /\ \A t \in s, u \in P \ s : raw[t] >= raw[u]
    BY DEF Top
<1> HIDE DEF k, r
<1>6. PICK s \in SUBSET P : Cardinality(s) = k /\ Leads(r, P, s)
    <2> HIDE DEF P
    <2> QED
        BY <1>1, <1>3, <1>4, LeadersExist
<1>7. \A t \in s, u \in P \ s : raw[t] >= raw[u]
    <2> HIDE DEF P
    <2> QED
        BY <1>4, <1>6 DEF Leads
<1>8. Top(raw) \in SUBSET P
    <2> HIDE DEF P
    <2> QED
        BY <1>5, <1>6, <1>7
<1> QED
    BY <1>8

\* A sleeve has no more than its share of the book.
LEMMA SleeveFact ==
    ASSUME ReconcilerAssumption, NEW raw \in [Ticker -> Nat], NEW alloc \in Nat
    PROVE  LET v == Sleeve(raw, alloc)
           IN  Weights(v) /\ Total(v.num) * Unit <= alloc * v.den
<1> DEFINE T == Top(raw)
           total == Total([t \in T |-> raw[t]])
           g == [t \in Ticker |-> IF t \in T THEN raw[t] ELSE 0]
           n == [t \in Ticker |-> IF t \in T THEN alloc * raw[t] ELSE 0]
           d == Unit * (IF total = 0 THEN 1 ELSE total)
<1>1. T \in SUBSET Ticker /\ IsFiniteSet(Ticker) /\ Unit \in Nat \ {0}
    BY TopFact DEF ReconcilerAssumption
<1>2. Sleeve(raw, alloc) = [num |-> n, den |-> d]
    BY DEF Sleeve
<1> HIDE DEF T
<1>3. g \in [Ticker -> Nat] /\ total = Total(g)
    BY <1>1, PartTotal
<1>4. n \in [Ticker -> Nat] /\ Combination(alloc, g, 0, g, n)
    BY DEF Combination
<1>5. d = Unit * (IF total = 0 THEN 1 ELSE total)
    OBVIOUS
<1> HIDE DEF g, n, d, total
<1>6. PICK s \in Nat : s = total
    BY <1>1, <1>3, TotalFact
<1>7. Total(n) = alloc * s + 0 * s
    BY <1>1, <1>3, <1>4, <1>6, TotalCombines
<1>8. PICK z \in Nat \ {0} : z = (IF total = 0 THEN 1 ELSE total) /\ s <= z
    BY <1>6
<1>9. d = Unit * z /\ d \in Nat \ {0}
    BY <1>1, <1>5, <1>8
<1>10. Total(n) * Unit <= alloc * d
    <2>1. PICK c \in Nat : c = alloc * Unit
        BY <1>1
    <2>2. c * s <= c * z
        BY <1>8
    <2>3. alloc * d = c * z
        BY <1>1, <1>9, <2>1
    <2>4. Total(n) * Unit = c * s
        BY <1>1, <1>7, <2>1
    <2> QED
        BY <2>2, <2>3, <2>4
<1> QED
    BY <1>2, <1>4, <1>9, <1>10 DEF Weights

\* The sleeves together have no more than the book.
LEMMA MergeFact ==
    ASSUME IsFiniteSet(Ticker), NEW v, NEW w, Weights(v), Weights(w), Unit \in Nat \ {0},
           NEW a \in Nat, NEW b \in Nat, a + b = Unit,
           Total(v.num) * Unit <= a * v.den, Total(w.num) * Unit <= b * w.den
    PROVE  LET m == Merge(v, w) IN Weights(m) /\ Total(m.num) <= m.den
<1> DEFINE n == [t \in Ticker |-> v.num[t] * w.den + w.num[t] * v.den]
<1>1. PICK f \in [Ticker -> Nat], h \in [Ticker -> Nat], c \in Nat \ {0}, e \in Nat \ {0} :
          f = v.num /\ h = w.num /\ c = v.den /\ e = w.den
    BY DEF Weights
<1>2. n \in [Ticker -> Nat] /\ Combination(e, f, c, h, n)
    BY <1>1 DEF Combination
<1>3. Merge(v, w) = Vector(n, c * e)
    BY <1>1 DEF Merge
<1> HIDE DEF n
<1>4. PICK d \in Nat \ {0} : d = c * e
    OBVIOUS
<1>5. PICK m : m = Vector(n, d)
    OBVIOUS
<1>6. Weights(m) /\ \E g : Scaled(g, n, d, m)
    BY <1>2, <1>5, VectorFact
<1>7. PICK g : Scaled(g, n, d, m)
    BY <1>6
<1>8. PICK x \in Nat, y \in Nat, z \in Nat, k \in Nat \ {0} :
          x = Total(f) /\ y = Total(h) /\ z = Total(m.num) /\ k = m.den
    BY <1>6, TotalFact DEF Weights
<1>9. g * z = e * x + c * y
    <2>1. Total(n) = e * Total(f) + c * Total(h)
        BY <1>1, <1>2, TotalCombines
    <2>2. Total(n) = g * Total(m.num)
        BY <1>2, <1>4, <1>6, <1>7, ScaledTotal
    <2> QED
        BY <1>8, <2>1, <2>2
<1>10. g * k = c * e /\ g \in Nat \ {0}
    BY <1>4, <1>7, <1>8 DEF Scaled
<1>11. x * Unit <= a * c /\ y * Unit <= b * e
    BY <1>1, <1>8
<1>12. Unit * (e * x + c * y) <= Unit * (c * e)
    <2>1. PICK p \in Nat, q \in Nat, i \in Nat, j \in Nat :
              p = x * Unit /\ q = y * Unit /\ i = a * c /\ j = b * e
        OBVIOUS
    <2>2. e * p <= e * i /\ c * q <= c * j
        BY <1>11, <2>1, Cancels
    <2>3. Unit * (e * x + c * y) = e * p + c * q
        BY <2>1
    <2>4. e * i + c * j = Unit * (c * e)
        <3>1. e * i + c * j = (a + b) * (c * e)
            BY <2>1
        <3> QED
            BY <3>1
    <2>5. PICK s \in Int, u \in Int, r \in Int, o \in Int :
              s = e * p /\ u = c * q /\ r = e * i /\ o = c * j
        OBVIOUS
    <2> QED
        BY <2>2, <2>3, <2>4, <2>5
<1>13. e * x + c * y <= c * e
    BY <1>12, Cancels
<1>14. z <= k
    BY <1>9, <1>10, <1>13, Cancels
<1> QED
    BY <1>3, <1>4, <1>5, <1>6, <1>8, <1>14

Floors(w, t) ==
    w.num[t] * Unit >= FloorPct * w.den /\ w.num[t] * equity >= FloorUsd * w.den

\* What the floor leaves adds up to no more than the book, and every name of it
\* is above both floors.
LEMMA FloorFact ==
    ASSUME ReconcilerAssumption, equity \in Nat, NEW w, Weights(w), Total(w.num) <= w.den
    PROVE  LET f == Floored(w)
           IN  /\ Weights(f) /\ Total(f.num) <= f.den
               /\ \A t \in Targets(f) : Floors(f, t)
<1> USE DEF ReconcilerAssumption
<1> DEFINE kept == {t \in Targets(w) : AboveFloor(w, t)}
           left == Total([t \in kept |-> w.num[t]])
           g == [t \in Ticker |-> IF t \in kept THEN w.num[t] ELSE 0]
           n == [t \in Ticker |-> IF t \in kept THEN w.num[t] * Total(w.num) ELSE 0]
           d == w.den * left
<1>1. PICK f \in [Ticker -> Nat], D \in Nat \ {0}, T \in Nat :
          f = w.num /\ D = w.den /\ T = Total(w.num) /\ T <= D
    BY TotalFact DEF Weights
<1>2. Floored(w) = IF left = 0 THEN Nothing ELSE Vector(n, d)
    BY DEF Floored
<1>3. kept \in SUBSET Ticker
    BY DEF Targets
<1>4. \A t \in kept : AboveFloor(w, t)
    OBVIOUS
<1> HIDE DEF kept
<1>5. g \in [Ticker -> Nat] /\ left = Total(g)
    BY <1>1, <1>3, PartTotal
<1>6. PICK L \in Nat : L = left
    BY <1>5, TotalFact
<1>7. n \in [Ticker -> Nat] /\ Combination(T, g, 0, g, n)
    BY <1>1 DEF Combination
<1>8. \A t \in Ticker : (t \in kept => n[t] = f[t] * T) /\ (t \notin kept => n[t] = 0)
    BY <1>1
<1>9. \A t \in Ticker : f[t] = 0 => g[t] = 0
    BY <1>1
<1>10. \A t \in Ticker : g[t] <= f[t]
    BY <1>1
<1>11. d = D * L
    BY <1>1, <1>6
<1> HIDE DEF g, n, left, d
<1>12. L <= T
    <2>1. SumOver(g, Ticker) <= SumOver(f, Ticker)
        BY <1>5, <1>10, SumIsMonotone
    <2> QED
        BY <1>1, <1>5, <1>6, <2>1, TotalFact
<1>13. CASE L = 0
    <2>1. Floored(w) = Nothing
        BY <1>2, <1>6, <1>13
    <2>2. Weights(Nothing) /\ Targets(Nothing) = {} /\ Total(Nothing.num) = 0
        BY TotalFact DEF Nothing, Weights, Targets
    <2>3. Nothing.den = 1
        BY DEF Nothing
    <2> QED
        BY <2>1, <2>2, <2>3
<1>14. CASE L # 0
    <2>1. PICK v : v = Vector(n, d)
        OBVIOUS
    <2>2. Floored(w) = v
        BY <1>2, <1>6, <1>14, <2>1
    <2>3. d \in Nat \ {0}
        BY <1>11, <1>14
    <2>4. Weights(v) /\ \E k : Scaled(k, n, d, v)
        BY <1>7, <2>1, <2>3, VectorFact
    <2>5. PICK k \in Nat \ {0} : Scaled(k, n, d, v)
        BY <2>4 DEF Scaled
    <2>6. PICK h \in [Ticker -> Nat], e \in Nat \ {0}, S \in Nat :
              h = v.num /\ e = v.den /\ S = Total(v.num)
        BY <2>4, TotalFact DEF Weights
    <2>7. k * e = D * L /\ \A t \in Ticker : n[t] = k * h[t]
        BY <1>11, <2>5, <2>6 DEF Scaled
    <2>8. k * S = T * L
        <3>1. Total(n) = T * L + 0 * L
            <4>1. Total(n) = T * Total(g) + 0 * Total(g)
                BY <1>1, <1>5, <1>7, TotalCombines
            <4> QED
                BY <1>5, <1>6, <4>1
        <3>2. Total(n) = k * S
            BY <1>7, <2>3, <2>4, <2>5, <2>6, ScaledTotal
        <3> QED
            BY <3>1, <3>2
    <2>9. S <= e
        <3>1. L * T <= L * D
            BY <1>1, <1>14, Cancels
        <3>2. k * S <= k * e
            BY <2>7, <2>8, <3>1
        <3> QED
            BY <3>2, Cancels
    <2>10. ASSUME NEW t \in Targets(v) PROVE Floors(v, t)
        <3>1. t \in Ticker /\ h[t] > 0
            BY <2>6 DEF Targets
        <3>2. PICK x \in Nat, y \in Nat : x = f[t] /\ y = h[t]
            BY <3>1
        <3>3. t \in kept
            BY <1>8, <2>7, <3>1
        <3>4. k * y = x * T
            BY <1>8, <2>7, <3>1, <3>2, <3>3
        <3>5. x * Unit * Unit >= FloorPct * (SleeveTrump + SleeveLeopold) * D
              /\ x * equity >= FloorUsd * D
            BY <1>1, <1>4, <3>2, <3>3 DEF AboveFloor
        <3>6. x * Unit >= FloorPct * D
            <4>1. PICK i \in Int, j \in Int : i = x * Unit /\ j = FloorPct * D
                OBVIOUS
            <4>2. x * Unit * Unit = Unit * i
                BY <4>1
            <4>3. FloorPct * (SleeveTrump + SleeveLeopold) * D = Unit * j
                <5>1. FloorPct * Unit * D = Unit * j
                    BY <4>1
                <5> QED
                    BY <5>1
            <4>4. Unit * j <= Unit * i
                BY <3>5, <4>2, <4>3
            <4> QED
                BY <4>1, <4>4, Cancels
        <3>7. ASSUME NEW c \in Nat, NEW o \in Nat, o * D <= x * c PROVE o * e <= y * c
            <4>1. PICK i \in Nat, j \in Nat : i = x * c /\ j = o * D
                OBVIOUS
            <4>2. L * j <= L * i
                BY <1>14, <3>7, <4>1, Cancels
            <4>3. L * i <= T * i
                BY <1>12
            <4>4. k * (o * e) = L * j
                <5>1. k * (o * e) = o * (k * e)
                    OBVIOUS
                <5>2. o * (D * L) = L * j
                    BY <4>1
                <5> QED
                    BY <2>7, <5>1, <5>2
            <4>5. k * (y * c) = T * i
                <5>1. k * (y * c) = c * (k * y)
                    OBVIOUS
                <5>2. c * (x * T) = T * i
                    BY <4>1
                <5> QED
                    BY <3>4, <5>1, <5>2
            <4>6. PICK p \in Int, q \in Int, r \in Int : p = L * j /\ q = L * i /\ r = T * i
                OBVIOUS
            <4>7. k * (o * e) <= k * (y * c)
                BY <4>2, <4>3, <4>4, <4>5, <4>6
            <4>8. PICK a \in Int, b \in Int : a = o * e /\ b = y * c
                OBVIOUS
            <4> QED
                BY <4>7, <4>8, Cancels
        <3>8. FloorPct * e <= y * Unit /\ FloorUsd * e <= y * equity
            BY <3>5, <3>6, <3>7
        <3> QED
            BY <2>6, <3>2, <3>8 DEF Floors
    <2> QED
        BY <2>2, <2>4, <2>6, <2>9, <2>10
<1> QED
    BY <1>13, <1>14

-----------------------------------------------------------------------------
(***************************************************************************)
(* One pass of the cap.                                                    *)
(***************************************************************************)

Scale(rest) == IF rest = 0 THEN 1 ELSE rest

\* v is w after a pass with that excess and rest, over a denominator g times
\* as large.
SpreadBy(w, v, g, rest, excess) ==
    /\ g \in Nat \ {0} /\ rest \in Nat /\ excess \in Nat
    /\ rest = 0 <=> BelowCap(w) = {}
    /\ g * v.den = w.den * (Unit * Scale(rest))
    /\ \A t \in Ticker :
           /\ w.num[t] = 0 <=> v.num[t] = 0
           /\ t \in BelowCap(w) => g * v.num[t] = w.num[t] * (Unit * (rest + excess))
           /\ t \notin BelowCap(w) /\ w.num[t] # 0 => g * v.num[t] = Cap * (w.den * Scale(rest))
    /\ g * Total(v.num) <= Unit * (Scale(rest) * Total(w.num))
    /\ rest # 0 => g * Total(v.num) = Unit * (Scale(rest) * Total(w.num))

\* What one pass does with the weights and with their sum.
LEMMA SpreadFact ==
    ASSUME ReconcilerAssumption, NEW w, Weights(w)
    PROVE  Weights(Spread(w)) /\ \E g, rest, excess : SpreadBy(w, Spread(w), g, rest, excess)
<1> DEFINE cap == Cap * w.den
           over == [t \in OverCap(w) |-> w.num[t] * Unit - cap]
           below == [t \in BelowCap(w) |-> w.num[t] * Unit]
           excess == Total(over)
           rest == Total(below)
           scale == IF rest = 0 THEN 1 ELSE rest
           m == [t \in Ticker |->
                   IF t \in BelowCap(w) THEN w.num[t] * Unit * (rest + excess)
                   ELSE IF w.num[t] = 0 THEN 0 ELSE cap * scale]
           d == w.den * Unit * scale
           e == [t \in Ticker |-> IF t \in OverCap(w) THEN w.num[t] * Unit - cap ELSE 0]
           r == [t \in Ticker |-> IF t \in BelowCap(w) THEN w.num[t] * Unit ELSE 0]
           a == [t \in Ticker |-> IF t \in BelowCap(w) \/ w.num[t] = 0 THEN 0 ELSE cap]
           x == [t \in Ticker |-> w.num[t] * Unit]
           y == [t \in Ticker |-> e[t] + r[t]]
<1>1. IsFiniteSet(Ticker) /\ Unit \in Nat \ {0} /\ Cap \in Nat \ {0}
    BY DEF ReconcilerAssumption
<1>2. PICK n \in [Ticker -> Nat], D \in Nat \ {0}, C \in Nat \ {0} :
          n = w.num /\ D = w.den /\ C = cap /\ C = Cap * D
    BY <1>1 DEF Weights
<1>3. PICK O \in SUBSET Ticker, B \in SUBSET Ticker :
          /\ O = OverCap(w) /\ B = BelowCap(w)
          /\ \A t \in Ticker : /\ t \in O <=> n[t] * Unit > C
                               /\ t \in B <=> n[t] > 0 /\ n[t] * Unit < C
    <2>1. OverCap(w) \in SUBSET Ticker /\ BelowCap(w) \in SUBSET Ticker
        BY DEF OverCap, BelowCap, Targets
    <2>2. \A t \in Ticker : /\ t \in OverCap(w) <=> n[t] * Unit > C
                            /\ t \in BelowCap(w) <=> n[t] > 0 /\ n[t] * Unit < C
        BY <1>2 DEF OverCap, BelowCap, Targets
    <2> QED
        BY <2>1, <2>2
<1>4. Spread(w) = Vector(m, d)
    BY DEF Spread
<1>5. x \in [Ticker -> Nat] /\ Combination(Unit, n, 0, n, x) /\ \A t \in Ticker : x[t] = n[t] * Unit
    BY <1>1, <1>2 DEF Combination
<1>6. /\ e \in [Ticker -> Nat] /\ r \in [Ticker -> Nat] /\ a \in [Ticker -> Nat]
      /\ \A t \in Ticker :
             /\ e[t] = IF t \in O THEN x[t] - C ELSE 0
             /\ r[t] = IF t \in B THEN x[t] ELSE 0
             /\ a[t] = IF t \in B \/ n[t] = 0 THEN 0 ELSE C
    <2>1. \A t \in Ticker :
             /\ e[t] = IF t \in O THEN x[t] - C ELSE 0
             /\ r[t] = IF t \in B THEN x[t] ELSE 0
             /\ a[t] = IF t \in B \/ n[t] = 0 THEN 0 ELSE C
        BY <1>2, <1>3
    <2>2. \A t \in Ticker : t \in O => x[t] > C
        BY <1>3, <1>5
    <2>3. /\ e = [t \in Ticker |-> e[t]]
          /\ r = [t \in Ticker |-> r[t]]
          /\ a = [t \in Ticker |-> a[t]]
        OBVIOUS
    <2> HIDE DEF e, r, a, x
    <2>4. \A t \in Ticker : e[t] \in Nat /\ r[t] \in Nat /\ a[t] \in Nat
        BY <1>2, <1>5, <2>1, <2>2
    <2> QED
        BY <2>1, <2>3, <2>4
<1>7. over = [t \in O |-> e[t]] /\ below = [t \in B |-> r[t]]
    BY <1>3
<1>8. y \in [Ticker -> Nat] /\ Combination(1, e, 1, r, y)
    <2> HIDE DEF e, r
    <2> QED
        BY <1>6 DEF Combination
<1>9. \A t \in Ticker : y[t] = e[t] + r[t]
    OBVIOUS
<1>10. excess = Total(over) /\ rest = Total(below)
    OBVIOUS
<1>11. \A t \in Ticker : m[t] = IF t \in B THEN x[t] * (rest + excess)
                               ELSE IF n[t] = 0 THEN 0 ELSE C * Scale(rest)
    BY <1>2, <1>3 DEF Scale
<1>12. m = [t \in Ticker |-> m[t]] /\ d = D * Unit * Scale(rest)
    BY <1>2 DEF Scale
<1> HIDE DEF over, below, excess, rest, m, d, e, r, a, x, y
<1>13. \A t \in Ticker : /\ e[t] = [tt \in Ticker |-> IF tt \in O THEN e[tt] ELSE 0][t]
                        /\ r[t] = [tt \in Ticker |-> IF tt \in B THEN r[tt] ELSE 0][t]
    BY <1>6
<1>14. /\ e = [t \in Ticker |-> IF t \in O THEN e[t] ELSE 0]
       /\ r = [t \in Ticker |-> IF t \in B THEN r[t] ELSE 0]
    BY <1>6, <1>13
<1>15. excess = Total(e) /\ rest = Total(r)
    <2>1. Total([t \in O |-> e[t]]) = Total([t \in Ticker |-> IF t \in O THEN e[t] ELSE 0])
        BY <1>1, <1>3, <1>6, PartTotal
    <2>2. Total([t \in B |-> r[t]]) = Total([t \in Ticker |-> IF t \in B THEN r[t] ELSE 0])
        BY <1>1, <1>3, <1>6, PartTotal
    <2> QED
        BY <1>7, <1>10, <1>14, <2>1, <2>2
<1>16. PICK E \in Nat, R \in Nat, A \in Nat, T \in Nat, s \in Nat \ {0} :
           /\ E = excess /\ R = rest /\ A = Total(a) /\ T = Total(n) /\ s = Scale(rest)
           /\ E = Total(e) /\ R = Total(r) /\ s = IF R = 0 THEN 1 ELSE R
    <2>1. Total(e) \in Nat /\ Total(r) \in Nat /\ Total(a) \in Nat /\ Total(n) \in Nat
        BY <1>1, <1>6, TotalFact
    <2> QED
        BY <1>15, <2>1 DEF Scale
<1>17. R = 0 <=> B = {}
    <2>1. ASSUME NEW t \in B PROVE R > 0
        <3>1. r[t] = n[t] * Unit /\ n[t] > 0 /\ n[t] \in Nat
            BY <1>3, <1>5, <1>6
        <3>2. r[t] > 0
            BY <1>1, <3>1
        <3>3. r[t] <= R
            BY <1>1, <1>3, <1>6, <1>16, TotalFact
        <3> QED
            BY <1>3, <1>6, <3>2, <3>3
    <2>2. ASSUME B = {} PROVE R = 0
        <3>1. \A t \in Ticker : r[t] = 0
            BY <1>6, <2>2
        <3> QED
            BY <1>1, <1>6, <1>16, <3>1, TotalFact
    <2> QED
        BY <2>1, <2>2
<1>18. Unit * T = E + R + A
    <2>1. ASSUME NEW t \in Ticker PROVE x[t] = y[t] + a[t]
        <3>1. PICK i \in Nat, z \in Nat : i = n[t] /\ z = x[t] /\ z = i * Unit
            BY <1>2, <1>5
        <3>2. (t \in O <=> z > C) /\ (t \in B <=> i > 0 /\ z < C) /\ (i = 0 => z = 0)
            BY <1>1, <1>3, <3>1
        <3>3. /\ y[t] = (IF t \in O THEN z - C ELSE 0) + (IF t \in B THEN z ELSE 0)
              /\ a[t] = IF t \in B \/ i = 0 THEN 0 ELSE C
            BY <1>6, <1>9, <3>1
        <3> QED
            BY <1>2, <3>1, <3>2, <3>3
    <2>2. Combination(1, y, 1, a, x)
        BY <1>6, <1>8, <2>1 DEF Combination
    <2>3. Total(x) = Unit * Total(n) + 0 * Total(n)
        BY <1>1, <1>2, <1>5, TotalCombines
    <2>4. Total(x) = 1 * Total(y) + 1 * Total(a)
        <3>1. x \in [Ticker -> Nat] /\ y \in [Ticker -> Nat] /\ a \in [Ticker -> Nat]
            BY <1>5, <1>6, <1>8
        <3> QED
            BY <1>1, <2>2, <3>1, TotalCombines
    <2>5. Total(y) = 1 * Total(e) + 1 * Total(r)
        BY <1>1, <1>6, <1>8, TotalCombines
    <2> QED
        BY <1>1, <1>16, <2>3, <2>4, <2>5
<1>19. m \in [Ticker -> Nat] /\ d \in Nat \ {0} /\ d = D * (Unit * s)
    <2>1. \A t \in Ticker : m[t] \in Nat
        <3>1. R + E \in Nat /\ C * s \in Nat
            BY <1>2, <1>16
        <3>2. ASSUME NEW t \in Ticker PROVE x[t] * (R + E) \in Nat
            BY <1>5, <3>1
        <3> QED
            BY <1>11, <1>16, <3>1, <3>2
    <2> QED
        BY <1>1, <1>2, <1>12, <1>16, <2>1
<1>20. Total(m) = (R + E) * R + s * A
    <2>1. ASSUME NEW t \in Ticker PROVE m[t] = (R + E) * r[t] + s * a[t]
        <3>1. CASE t \in B
            <4>1. m[t] = x[t] * (R + E) /\ r[t] = x[t] /\ a[t] = 0 /\ x[t] \in Nat
                BY <1>5, <1>6, <1>11, <1>16, <3>1
            <4> QED
                BY <4>1, <1>16
        <3>2. CASE t \notin B /\ n[t] = 0
            <4>1. m[t] = 0 /\ r[t] = 0 /\ a[t] = 0
                BY <1>6, <1>11, <3>2
            <4> QED
                BY <4>1, <1>16
        <3>3. CASE t \notin B /\ n[t] # 0
            <4>1. m[t] = C * s /\ r[t] = 0 /\ a[t] = C
                BY <1>6, <1>11, <1>16, <3>3
            <4> QED
                BY <4>1, <1>2, <1>16
        <3> QED
            BY <3>1, <3>2, <3>3
    <2>2. Combination(R + E, r, s, a, m)
        BY <2>1 DEF Combination
    <2>3. R + E \in Nat /\ s \in Nat
        BY <1>16
    <2>4. Total(m) = (R + E) * Total(r) + s * Total(a)
        BY <1>1, <1>6, <1>19, <2>2, <2>3, TotalCombines
    <2> QED
        BY <1>16, <2>4
<1>21. PICK v : v = Vector(m, d)
    OBVIOUS
<1>22. Weights(v) /\ \E g : Scaled(g, m, d, v)
    BY <1>1, <1>19, <1>21, VectorFact
<1>23. PICK g \in Nat \ {0} : Scaled(g, m, d, v)
    BY <1>22 DEF Scaled
<1>24. Total(m) = g * Total(v.num) /\ \A t \in Ticker : m[t] = 0 <=> v.num[t] = 0
    BY <1>1, <1>19, <1>22, <1>23, ScaledTotal
<1>25. Total(m) <= Unit * (s * T) /\ (R # 0 => Total(m) = Unit * (s * T))
    <2>1. Unit * (s * T) = s * (Unit * T)
        BY <1>1, <1>16
    <2>2. CASE R = 0
        BY <1>16, <1>18, <1>20, <2>1, <2>2
    <2>3. CASE R # 0
        <3>1. s = R
            BY <1>16, <2>3
        <3>2. (R + E) * R + R * A = R * (E + R + A)
            BY <1>16
        <3>3. Total(m) = s * (Unit * T)
            BY <1>18, <1>20, <3>1, <3>2
        <3>4. s * (Unit * T) \in Int
            BY <1>1, <1>16
        <3> QED
            BY <2>1, <3>3, <3>4
    <2> QED
        BY <2>2, <2>3
<1>26. g * v.den = D * (Unit * s)
    BY <1>19, <1>23 DEF Scaled
<1>27. ASSUME NEW t \in Ticker
       PROVE  /\ n[t] = 0 <=> v.num[t] = 0
              /\ t \in B => g * v.num[t] = n[t] * (Unit * (R + E))
              /\ t \notin B /\ n[t] # 0 => g * v.num[t] = Cap * (D * s)
    <2>1. m[t] = g * v.num[t]
        BY <1>23 DEF Scaled
    <2>2. t \in B => m[t] = n[t] * (Unit * (R + E)) /\ m[t] # 0 /\ n[t] # 0
        <3>1. SUFFICES ASSUME t \in B
              PROVE m[t] = n[t] * (Unit * (R + E)) /\ m[t] # 0 /\ n[t] # 0
            OBVIOUS
        <3>2. R > 0
            BY <1>16, <1>17, <3>1
        <3>3. PICK i \in Nat \ {0}, z \in Nat \ {0} : i = n[t] /\ z = R + E
            BY <1>3, <1>16, <3>1, <3>2
        <3>4. m[t] = i * Unit * z
            BY <1>5, <1>11, <1>16, <3>1, <3>3
        <3>5. i * Unit * z = i * (Unit * z) /\ i * Unit * z # 0
            <4>1. PICK p \in Nat \ {0} : p = i * Unit
                BY <1>1
            <4>2. p * z # 0
                OBVIOUS
            <4> QED
                BY <1>1, <4>1, <4>2
        <3> QED
            BY <3>3, <3>4, <3>5
    <2>3. t \notin B /\ n[t] # 0 => m[t] = Cap * (D * s) /\ m[t] # 0
        <3>1. SUFFICES ASSUME t \notin B, n[t] # 0 PROVE m[t] = Cap * (D * s) /\ m[t] # 0
            OBVIOUS
        <3>2. m[t] = C * s
            BY <1>11, <1>16, <3>1
        <3>3. C * s # 0 /\ C * s = Cap * (D * s)
            BY <1>1, <1>2, <1>16
        <3> QED
            BY <3>2, <3>3
    <2>4. n[t] = 0 => m[t] = 0
        BY <1>3, <1>11
    <2> QED
        BY <1>24, <2>1, <2>2, <2>3, <2>4
<1>28. SpreadBy(w, v, g, R, E)
    <2>1. Scale(R) = s
        BY <1>16
    <2>2. R = 0 <=> BelowCap(w) = {}
        BY <1>3, <1>17
    <2>3. g * v.den = w.den * (Unit * Scale(R))
        BY <1>2, <1>26, <2>1
    <2>4. \A t \in Ticker :
           /\ w.num[t] = 0 <=> v.num[t] = 0
           /\ t \in BelowCap(w) => g * v.num[t] = w.num[t] * (Unit * (R + E))
           /\ t \notin BelowCap(w) /\ w.num[t] # 0 => g * v.num[t] = Cap * (w.den * Scale(R))
        <3> SUFFICES ASSUME NEW t \in Ticker
                     PROVE  /\ w.num[t] = 0 <=> v.num[t] = 0
                            /\ t \in BelowCap(w) => g * v.num[t] = w.num[t] * (Unit * (R + E))
                            /\ t \notin BelowCap(w) /\ w.num[t] # 0 =>
                                   g * v.num[t] = Cap * (w.den * Scale(R))
            OBVIOUS
        <3> QED
            BY <1>2, <1>3, <1>27, <2>1
    <2>5. /\ g * Total(v.num) <= Unit * (Scale(R) * Total(w.num))
          /\ R # 0 => g * Total(v.num) = Unit * (Scale(R) * Total(w.num))
        BY <1>2, <1>16, <1>24, <1>25, <2>1
    <2> QED
        BY <1>16, <1>23, <2>2, <2>3, <2>4, <2>5 DEF SpreadBy
<1> QED
    BY <1>4, <1>21, <1>22, <1>28

-----------------------------------------------------------------------------
(***************************************************************************)
(* What the cap's passes keep, of the weights the floor left.              *)
(***************************************************************************)

\* The names are those of f; those not at the cap have kept their proportions,
\* and were raised by a factor that would leave no name at the cap below it.
WaterFill(w, f) ==
    /\ \A t \in Ticker : w.num[t] = 0 <=> f.num[t] = 0
    /\ \A t \in Targets(w) : ~ AtCap(w, t) =>
           /\ w.num[t] * f.den >= f.num[t] * w.den
           /\ \A u \in Targets(w) :
                  /\ f.num[u] * w.num[t] >= w.num[u] * f.num[t]
                  /\ ~ AtCap(w, u) => f.num[u] * w.num[t] = w.num[u] * f.num[t]

Conserved(w, f) == Total(w.num) * f.den = Total(f.num) * w.den

AtTheCap(w, f) == {t \in Targets(f) : AtCap(w, t)}

\* Products of larger numbers are larger.
LEMMA ProductOrder ==
    ASSUME NEW a \in Nat, NEW b \in Nat, NEW c \in Nat, NEW d \in Nat, a <= b, c <= d
    PROVE  a * c <= b * d
<1>1. a * c <= a * d
    <2>1. PICK k \in Nat : d = c + k
        <3>1. d - c \in Nat /\ d = c + (d - c)
            OBVIOUS
        <3> QED
            BY <3>1
    <2>2. a * d = a * c + a * k /\ a * k \in Nat /\ a * c \in Nat
        BY <2>1
    <2> QED
        BY <2>2
<1>2. a * d <= b * d
    <2>1. PICK k \in Nat : b = a + k
        <3>1. b - a \in Nat /\ b = a + (b - a)
            OBVIOUS
        <3> QED
            BY <3>1
    <2>2. b * d = a * d + k * d /\ k * d \in Nat /\ a * d \in Nat
        BY <2>1
    <2> QED
        BY <2>2
<1>3. PICK x \in Nat, y \in Nat, z \in Nat : x = a * c /\ y = a * d /\ z = b * d
    OBVIOUS
<1> QED
    BY <1>1, <1>2, <1>3

\* After a pass every name that was not below the cap is at it.
LEMMA SpreadCaps ==
    ASSUME ReconcilerAssumption, NEW w, Weights(w), NEW v, Weights(v),
           NEW g, NEW R, NEW E, SpreadBy(w, v, g, R, E), NEW t \in Ticker,
           w.num[t] # 0, t \notin BelowCap(w)
    PROVE  AtCap(v, t)
<1>1. PICK k \in Nat \ {0}, s \in Nat, D \in Nat, e \in Nat, m \in Nat :
          k = g /\ s = Scale(R) /\ D = w.den /\ e = v.den /\ m = v.num[t]
    BY DEF SpreadBy, Weights, Scale
<1>2. k * e = D * (Unit * s) /\ k * m = Cap * (D * s)
    BY <1>1 DEF SpreadBy
<1>3. Unit \in Nat /\ Cap \in Nat
    BY DEF ReconcilerAssumption
<1>4. k * (m * Unit) = k * (Cap * e)
    <2>1. k * (m * Unit) = Unit * (k * m) /\ k * (Cap * e) = Cap * (k * e)
        BY <1>3
    <2>2. Unit * (Cap * (D * s)) = Cap * (D * (Unit * s))
        BY <1>3
    <2> QED
        BY <1>2, <2>1, <2>2
<1>5. m * Unit = Cap * e
    <2>1. PICK x \in Int, y \in Int : x = m * Unit /\ y = Cap * e
        BY <1>3
    <2> QED
        BY <1>4, <2>1, Cancels
<1> QED
    BY <1>1, <1>5 DEF AtCap

\* A pass keeps what was true of the weights and the floor's.
LEMMA SpreadFills ==
    ASSUME ReconcilerAssumption, NEW w, Weights(w), NEW v, Weights(v), NEW f, Weights(f),
           NEW g, NEW R, NEW E, SpreadBy(w, v, g, R, E), WaterFill(w, f)
    PROVE  WaterFill(v, f)
<1>1. \A t \in Ticker : v.num[t] = 0 <=> f.num[t] = 0
    BY DEF SpreadBy, WaterFill
<1>2. Unit \in Nat /\ Cap \in Nat
    BY DEF ReconcilerAssumption
<1>3. ASSUME NEW t \in Targets(v), ~ AtCap(v, t)
      PROVE  /\ v.num[t] * f.den >= f.num[t] * v.den
             /\ \A u \in Targets(v) :
                    /\ f.num[u] * v.num[t] >= v.num[u] * f.num[t]
                    /\ ~ AtCap(v, u) => f.num[u] * v.num[t] = v.num[u] * f.num[t]
    <2>1. t \in Ticker /\ v.num[t] # 0 /\ w.num[t] # 0
        BY DEF Targets, Weights, SpreadBy
    <2>2. t \in BelowCap(w)
        BY <1>3, <2>1, SpreadCaps
    <2>3. t \in Targets(w) /\ ~ AtCap(w, t)
        BY <1>2, <2>1, <2>2 DEF BelowCap, AtCap, Weights
    <2>4. PICK k \in Nat \ {0}, D \in Nat \ {0}, e \in Nat \ {0}, G \in Nat \ {0},
               r \in Nat \ {0}, L \in Nat, n \in Nat, m \in Nat, F \in Nat :
              /\ k = g /\ D = w.den /\ e = v.den /\ G = f.den /\ r = R /\ r = Scale(R)
              /\ L = Unit * (R + E) /\ n = w.num[t] /\ m = v.num[t] /\ F = f.num[t]
              /\ Unit * r <= L
        <3>1. R \in Nat \ {0} /\ E \in Nat
            BY <2>2 DEF SpreadBy
        <3>2. Scale(R) = R
            BY <3>1 DEF Scale
        <3>3. Unit * (R + E) \in Nat /\ Unit * R <= Unit * (R + E)
            BY <1>2, <3>1, ProductOrder
        <3>4. w.num[t] \in Nat /\ v.num[t] \in Nat /\ f.num[t] \in Nat
            BY <2>1 DEF Weights
        <3>5. w.den \in Nat \ {0} /\ v.den \in Nat \ {0} /\ f.den \in Nat \ {0} /\ g \in Nat \ {0}
            BY DEF Weights, SpreadBy
        <3> QED
            BY <3>1, <3>2, <3>3, <3>4, <3>5
    <2>5. k * e = D * (Unit * r) /\ k * m = n * L
        BY <2>1, <2>2, <2>4 DEF SpreadBy
    <2>6. F * D <= n * G
        BY <2>3, <2>4 DEF WaterFill
    <2>7. F * e <= m * G
        <3>1. (F * D) * (Unit * r) <= (n * G) * L
            <4>1. F * D \in Nat /\ n * G \in Nat /\ Unit * r \in Nat
                BY <1>2
            <4> QED
                BY <2>4, <2>6, <4>1, ProductOrder
        <3>2. k * (F * e) = (F * D) * (Unit * r)
            <4>1. k * (F * e) = F * (k * e)
                OBVIOUS
            <4>2. F * (D * (Unit * r)) = (F * D) * (Unit * r)
                BY <1>2
            <4> QED
                BY <2>5, <4>1, <4>2
        <3>3. k * (m * G) = (n * G) * L
            <4>1. k * (m * G) = G * (k * m)
                OBVIOUS
            <4>2. G * (n * L) = (n * G) * L
                OBVIOUS
            <4> QED
                BY <2>5, <4>1, <4>2
        <3>4. PICK x \in Int, y \in Int : x = F * e /\ y = m * G
            OBVIOUS
        <3>5. k * x <= k * y
            BY <3>1, <3>2, <3>3, <3>4
        <3> QED
            BY <3>4, <3>5, Cancels
    <2>8. ASSUME NEW u \in Targets(v)
          PROVE  /\ f.num[u] * v.num[t] >= v.num[u] * f.num[t]
                 /\ ~ AtCap(v, u) => f.num[u] * v.num[t] = v.num[u] * f.num[t]
        <3>1. u \in Ticker /\ v.num[u] # 0 /\ w.num[u] # 0
            BY DEF Targets, Weights, SpreadBy
        <3>2. u \in Targets(w)
            BY <3>1 DEF Targets, Weights
        <3>3. PICK nu \in Nat, mu \in Nat, Fu \in Nat :
                  nu = w.num[u] /\ mu = v.num[u] /\ Fu = f.num[u]
            BY <3>1 DEF Weights
        <3>4. nu * F <= Fu * n /\ (~ AtCap(w, u) => nu * F = Fu * n)
            BY <2>3, <2>4, <3>2, <3>3 DEF WaterFill
        <3>5. k * (Fu * m) = (Fu * n) * L
            <4>1. k * (Fu * m) = Fu * (k * m)
                OBVIOUS
            <4>2. Fu * (n * L) = (Fu * n) * L
                OBVIOUS
            <4> QED
                BY <2>5, <4>1, <4>2
        <3>6. PICK x \in Int, y \in Int : x = Fu * m /\ y = mu * F
            OBVIOUS
        <3>7. CASE u \in BelowCap(w)
            <4>1. k * mu = nu * L
                BY <2>4, <3>1, <3>3, <3>7 DEF SpreadBy
            <4>2. ~ AtCap(w, u)
                BY <1>2, <3>1, <3>7 DEF BelowCap, AtCap, Weights
            <4>3. k * (mu * F) = (nu * F) * L
                <5>1. k * (mu * F) = F * (k * mu)
                    OBVIOUS
                <5>2. F * (nu * L) = (nu * F) * L
                    OBVIOUS
                <5> QED
                    BY <4>1, <5>1, <5>2
            <4>4. k * x = k * y
                BY <3>4, <3>5, <3>6, <4>2, <4>3
            <4>5. x = y
                BY <3>6, <4>4, Cancels
            <4>6. Fu * m >= mu * F /\ Fu * m = mu * F
                BY <3>6, <4>5
            <4> QED
                BY <2>4, <3>3, <4>6
        <3>8. CASE u \notin BelowCap(w)
            <4>1. k * mu = Cap * (D * r)
                BY <2>4, <3>1, <3>3, <3>8 DEF SpreadBy
            <4>2. AtCap(v, u)
                BY <3>1, <3>8, SpreadCaps
            <4>3. Cap * D <= nu * Unit
                <5>1. ~ (nu * Unit < Cap * D)
                    BY <2>4, <3>2, <3>3, <3>8 DEF BelowCap
                <5>2. nu * Unit \in Int /\ Cap * D \in Int
                    BY <1>2
                <5> QED
                    BY <5>1, <5>2
            <4>4. k * (mu * F) = (Cap * D) * (F * r)
                <5>1. k * (mu * F) = F * (k * mu)
                    OBVIOUS
                <5>2. F * (Cap * (D * r)) = (Cap * D) * (F * r)
                    BY <1>2
                <5> QED
                    BY <4>1, <5>1, <5>2
            <4>5. (Cap * D) * (F * r) <= (nu * Unit) * (F * r)
                <5>1. Cap * D \in Nat /\ nu * Unit \in Nat /\ F * r \in Nat
                    BY <1>2
                <5> QED
                    BY <4>3, <5>1, ProductOrder
            <4>6. (nu * Unit) * (F * r) = (nu * F) * (Unit * r)
                BY <1>2
            <4>7. (nu * F) * (Unit * r) <= (Fu * n) * L
                <5>1. nu * F \in Nat /\ Fu * n \in Nat /\ Unit * r \in Nat
                    BY <1>2
                <5> QED
                    BY <2>4, <3>4, <5>1, ProductOrder
            <4>8. PICK a \in Int, b \in Int, c \in Int, d \in Int :
                      /\ a = (Cap * D) * (F * r) /\ b = (nu * Unit) * (F * r)
                      /\ c = (nu * F) * (Unit * r) /\ d = (Fu * n) * L
                BY <1>2
            <4>9. a <= d
                BY <4>5, <4>6, <4>7, <4>8
            <4>10. k * y <= k * x
                BY <3>5, <3>6, <4>4, <4>8, <4>9
            <4>11. y <= x
                BY <3>6, <4>10, Cancels
            <4> QED
                BY <2>4, <3>3, <3>6, <4>2, <4>11
        <3> QED
            BY <3>7, <3>8
    <2> QED
        BY <2>4, <2>7, <2>8
<1> QED
    BY <1>1, <1>3 DEF WaterFill

NoMore(w, f) == Total(w.num) * f.den <= Total(f.num) * w.den

\* A pass adds nothing to the sum, and takes nothing from it while there is a
\* name below the cap.
LEMMA SpreadConserves ==
    ASSUME ReconcilerAssumption, NEW w, Weights(w), NEW v, Weights(v), NEW f, Weights(f),
           NEW g, NEW R, NEW E, SpreadBy(w, v, g, R, E), Total(w.num) <= w.den
    PROVE  /\ Total(v.num) <= v.den
           /\ Conserved(w, f) => NoMore(v, f)
           /\ BelowCap(w) # {} /\ Conserved(w, f) => Conserved(v, f)
<1>1. IsFiniteSet(Ticker) /\ Unit \in Nat
    BY DEF ReconcilerAssumption
<1>2. PICK k \in Nat \ {0}, D \in Nat \ {0}, e \in Nat \ {0}, G \in Nat \ {0},
           s \in Nat, T \in Nat, S \in Nat, F \in Nat :
          /\ k = g /\ D = w.den /\ e = v.den /\ G = f.den
          /\ s = Scale(R) /\ T = Total(w.num) /\ S = Total(v.num) /\ F = Total(f.num)
    BY <1>1, TotalFact DEF Weights, SpreadBy, Scale
<1>3. /\ k * e = D * (Unit * s)
      /\ k * S <= Unit * (s * T)
      /\ BelowCap(w) # {} => k * S = Unit * (s * T)
    BY <1>2 DEF SpreadBy
<1>4. k * (T * e) = (Unit * (s * T)) * D
    <2>1. k * (T * e) = T * (k * e)
        OBVIOUS
    <2>2. T * (D * (Unit * s)) = (Unit * (s * T)) * D
        BY <1>1
    <2> QED
        BY <1>3, <2>1, <2>2
<1>5. k * (S * D) = (k * S) * D
    OBVIOUS
<1>6. PICK x \in Int, y \in Int : x = S * D /\ y = T * e
    OBVIOUS
<1>7. x <= y
    <2>1. (k * S) * D <= (Unit * (s * T)) * D
        <3>1. k * S \in Nat /\ Unit * (s * T) \in Nat
            BY <1>1
        <3> QED
            BY <1>3, <3>1, ProductOrder
    <2>2. k * x <= k * y
        BY <1>4, <1>5, <1>6, <2>1
    <2> QED
        BY <1>6, <2>2, Cancels
<1>8. S <= e
    <2>1. T * e <= D * e
        BY <1>2, ProductOrder
    <2>2. D * S <= D * e
        BY <1>6, <1>7, <2>1
    <2> QED
        BY <2>2, Cancels
<1>9. ASSUME T * G = F * D PROVE S * G <= F * e
    <2>1. (S * D) * G <= (T * e) * G
        <3>1. S * D \in Nat /\ T * e \in Nat
            OBVIOUS
        <3> QED
            BY <1>6, <1>7, <3>1, ProductOrder
    <2>2. (S * D) * G = D * (S * G) /\ (T * e) * G = (T * G) * e /\ (F * D) * e = D * (F * e)
        OBVIOUS
    <2>3. D * (S * G) <= D * (F * e)
        BY <1>9, <2>1, <2>2
    <2>4. PICK p \in Int, q \in Int : p = S * G /\ q = F * e
        OBVIOUS
    <2> QED
        BY <2>3, <2>4, Cancels
<1>10. ASSUME BelowCap(w) # {}, T * G = F * D PROVE S * G = F * e
    <2>1. k * x = k * y
        BY <1>3, <1>4, <1>5, <1>6, <1>10
    <2>2. S * D = T * e
        BY <1>6, <2>1, Cancels
    <2>3. D * (S * G) = (S * D) * G /\ (T * e) * G = (T * G) * e /\ (F * D) * e = D * (F * e)
        OBVIOUS
    <2>4. D * (S * G) = D * (F * e)
        BY <1>10, <2>2, <2>3
    <2>5. PICK p \in Int, q \in Int : p = S * G /\ q = F * e
        OBVIOUS
    <2> QED
        BY <2>4, <2>5, Cancels
<1> QED
    BY <1>2, <1>8, <1>9, <1>10 DEF Conserved, NoMore

\* A pass with a name over the cap brings one more to it.
LEMMA SpreadReaches ==
    ASSUME ReconcilerAssumption, NEW w, Weights(w), NEW v, Weights(v), NEW f, Weights(f),
           NEW g, NEW R, NEW E, SpreadBy(w, v, g, R, E), WaterFill(w, f), OverCap(w) # {}
    PROVE  /\ Cardinality(AtTheCap(w, f)) \in Nat /\ Cardinality(AtTheCap(v, f)) \in Nat
           /\ Cardinality(AtTheCap(w, f)) + 1 <= Cardinality(AtTheCap(v, f))
<1>1. IsFiniteSet(Ticker) /\ Unit \in Nat \ {0} /\ Cap \in Nat \ {0}
    BY DEF ReconcilerAssumption
<1>2. /\ IsFiniteSet(AtTheCap(w, f)) /\ IsFiniteSet(AtTheCap(v, f))
      /\ Cardinality(AtTheCap(w, f)) \in Nat /\ Cardinality(AtTheCap(v, f)) \in Nat
    <2>1. AtTheCap(w, f) \subseteq Ticker /\ AtTheCap(v, f) \subseteq Ticker
        BY DEF AtTheCap, Targets
    <2> QED
        BY <1>1, <2>1, FS_Subset, FS_CardinalityType
<1>3. PICK x \in OverCap(w) : TRUE
    OBVIOUS
<1>4. PICK n \in Nat, C \in Nat : n = w.num[x] /\ C = Cap * w.den /\ n * Unit > C
    BY <1>1, <1>3 DEF OverCap, Weights
<1>5. x \in Ticker /\ n # 0 /\ ~ AtCap(w, x) /\ x \notin BelowCap(w)
    BY <1>1, <1>3, <1>4 DEF OverCap, AtCap, BelowCap
<1>6. AtCap(v, x) /\ x \in Targets(f)
    BY <1>4, <1>5, SpreadCaps DEF Targets, WaterFill, Weights
<1>7. ASSUME NEW t \in AtTheCap(w, f) PROVE t \in AtTheCap(v, f)
    <2>1. t \in Ticker /\ AtCap(w, t) /\ f.num[t] > 0
        BY DEF AtTheCap, Targets
    <2>2. w.num[t] # 0
        BY <2>1 DEF WaterFill, Weights
    <2>3. t \notin BelowCap(w)
        BY <1>1, <2>1 DEF BelowCap, AtCap, Weights
    <2> QED
        BY <2>1, <2>2, <2>3, SpreadCaps DEF AtTheCap
<1>8. x \notin AtTheCap(w, f) /\ AtTheCap(w, f) \cup {x} \subseteq AtTheCap(v, f)
    BY <1>5, <1>6, <1>7 DEF AtTheCap
<1>9. Cardinality(AtTheCap(w, f) \cup {x}) = Cardinality(AtTheCap(w, f)) + 1
    BY <1>2, <1>8, FS_AddElement
<1>10. Cardinality(AtTheCap(w, f) \cup {x}) <= Cardinality(AtTheCap(v, f))
    BY <1>2, <1>8, FS_Subset
<1> QED
    BY <1>2, <1>9, <1>10

-----------------------------------------------------------------------------
(***************************************************************************)
(* Types.                                                                  *)
(***************************************************************************)

Sound(w) == Weights(w) /\ Total(w.num) <= w.den

Typed ==
    /\ trump \in [Ticker -> 0 .. MaxTrump]
    /\ leopold \in [Ticker -> 0 .. MaxLeopold]
    /\ equity \in Equities
    /\ \A t \in Ticker : held[t].den \in Nat \ {0} /\ held[t].num \in 0 .. held[t].den
    /\ pc \in {"select", "floor", "cap", "drift", "execute", "settled"}
    /\ Sound(ws) /\ Sound(merged) /\ Sound(floored)
    /\ passes \in Nat
    /\ orders \subseteq Ticker
    /\ cycles \in 0 .. MaxCycle
    /\ same \in BOOLEAN

\* Weights of which there are none.
LEMMA NothingFact ==
    ASSUME ReconcilerAssumption
    PROVE  Sound(Nothing) /\ Targets(Nothing) = {}
<1>1. IsFiniteSet(Ticker)
    BY DEF ReconcilerAssumption
<1>2. Weights(Nothing) /\ \A t \in Ticker : Nothing.num[t] = 0
    BY DEF Nothing, Weights
<1>3. Total(Nothing.num) = 0
    BY <1>1, <1>2, TotalFact DEF Weights
<1>4. Nothing.den = 1
    BY DEF Nothing
<1> QED
    BY <1>2, <1>3, <1>4 DEF Sound, Targets

\* What the sleeves of the sources give.
LEMMA SelectFact ==
    ASSUME ReconcilerAssumption, trump \in [Ticker -> 0 .. MaxTrump],
           leopold \in [Ticker -> 0 .. MaxLeopold]
    PROVE  Sound(Merge(Sleeve(trump, SleeveTrump), Sleeve(leopold, SleeveLeopold)))
<1>1. IsFiniteSet(Ticker) /\ Unit \in Nat \ {0} /\ SleeveTrump \in Nat /\ SleeveLeopold \in Nat
      /\ SleeveTrump + SleeveLeopold = Unit
    BY DEF ReconcilerAssumption
<1>2. trump \in [Ticker -> Nat] /\ leopold \in [Ticker -> Nat]
    BY DEF ReconcilerAssumption
<1>3. PICK v, w : v = Sleeve(trump, SleeveTrump) /\ w = Sleeve(leopold, SleeveLeopold)
    OBVIOUS
<1>4. Weights(v) /\ Total(v.num) * Unit <= SleeveTrump * v.den
    BY <1>1, <1>2, <1>3, SleeveFact
<1>5. Weights(w) /\ Total(w.num) * Unit <= SleeveLeopold * w.den
    BY <1>1, <1>2, <1>3, SleeveFact
<1>6. Weights(Merge(v, w)) /\ Total(Merge(v, w).num) <= Merge(v, w).den
    BY <1>1, <1>4, <1>5, MergeFact
<1> QED
    BY <1>3, <1>6 DEF Sound

\* The first state.
LEMMA TypedInit ==
    ASSUME ReconcilerAssumption, Init
    PROVE  Typed
<1>1. PICK old \in SUBSET Ticker :
          held = [t \in Ticker |-> IF t \in old THEN [num |-> 1, den |-> 2]
                                               ELSE [num |-> 0, den |-> 1]]
    BY DEF Init
<1>2. \A t \in Ticker : held[t].den \in Nat \ {0} /\ held[t].num \in 0 .. held[t].den
    BY <1>1
<1>3. Sound(ws) /\ Sound(merged) /\ Sound(floored)
    BY NothingFact DEF Init
<1>4. 0 \in 0 .. MaxCycle
    BY DEF ReconcilerAssumption
<1> QED
    BY <1>2, <1>3, <1>4 DEF Init, Typed

\* Every step keeps the types.
LEMMA TypedStep ==
    ASSUME ReconcilerAssumption, Typed, [Next]_vars
    PROVE  Typed'
<1> DEFINE Rest == /\ trump' \in [Ticker -> 0 .. MaxTrump]
                   /\ leopold' \in [Ticker -> 0 .. MaxLeopold]
                   /\ equity' \in Equities
                   /\ pc' \in {"select", "floor", "cap", "drift", "execute", "settled"}
                   /\ passes' \in Nat
                   /\ orders' \subseteq Ticker
                   /\ cycles' \in 0 .. MaxCycle
                   /\ same' \in BOOLEAN
           HeldOK == \A t \in Ticker : held[t].den \in Nat \ {0} /\ held[t].num \in 0 .. held[t].den
           Vectors == Sound(ws) /\ Sound(merged) /\ Sound(floored)
<1>1. SUFFICES Rest /\ HeldOK' /\ Vectors'
    BY DEF Typed
<1>2. HeldOK /\ Vectors
    BY DEF Typed
<1>3. CASE Select
    <2>1. Rest
        BY <1>3 DEF Typed, Select, inputs
    <2>2. UNCHANGED held
        BY <1>3 DEF Select
    <2>3. Sound(ws')
        BY <1>3, SelectFact DEF Typed, Select
    <2>4. Vectors'
        BY <1>2, <1>3, <2>3 DEF Select
    <2> QED
        BY <1>2, <2>1, <2>2, <2>4
<1>4. CASE ApplyFloor
    <2>1. Rest
        BY <1>4 DEF Typed, ApplyFloor, inputs
    <2>2. UNCHANGED held
        BY <1>4 DEF ApplyFloor
    <2>3. equity \in Nat
        BY DEF Typed, ReconcilerAssumption
    <2>4. Sound(Floored(ws))
        BY <1>2, <2>3, FloorFact DEF Sound
    <2>5. Vectors'
        BY <1>2, <1>4, <2>4 DEF ApplyFloor
    <2> QED
        BY <1>2, <2>1, <2>2, <2>5
<1>5. CASE CapPass
    <2>1. Rest
        BY <1>5 DEF Typed, CapPass, inputs
    <2>2. UNCHANGED held
        BY <1>5 DEF CapPass
    <2>3. Weights(ws) /\ Total(ws.num) <= ws.den
        BY <1>2 DEF Sound
    <2>4. Weights(Spread(ws)) /\ \E g, R, E : SpreadBy(ws, Spread(ws), g, R, E)
        BY <2>3, SpreadFact
    <2>5. PICK v : v = Spread(ws)
        OBVIOUS
    <2>6. PICK g, R, E : SpreadBy(ws, v, g, R, E)
        BY <2>4, <2>5
    <2>7. Sound(v)
        BY <2>3, <2>4, <2>5, <2>6, SpreadConserves DEF Sound
    <2>8. Vectors'
        BY <1>2, <1>5, <2>5, <2>7 DEF CapPass
    <2> QED
        BY <1>2, <2>1, <2>2, <2>8
<1>6. CASE CapDone
    BY <1>2, <1>6 DEF Typed, CapDone, inputs
<1>7. CASE Plan
    <2>1. orders' \subseteq Ticker
        BY <1>7 DEF Plan, Targets, Exits
    <2>2. Rest
        BY <1>7, <2>1 DEF Typed, Plan, inputs
    <2>3. UNCHANGED <<held, ws, merged, floored>>
        BY <1>7 DEF Plan
    <2> QED
        BY <1>2, <2>2, <2>3
<1>8. CASE ExecutePlan
    <2>1. Rest
        BY <1>8 DEF Typed, ExecutePlan, inputs
    <2>2. UNCHANGED <<ws, merged, floored>>
        BY <1>8 DEF ExecutePlan
    <2>3. ASSUME NEW t \in Ticker
          PROVE  held'[t].den \in Nat \ {0} /\ held'[t].num \in 0 .. held'[t].den
        <3>1. held'[t] = IF t \in orders THEN Fraction(ws.num[t], ws.den) ELSE held[t]
            BY <1>8 DEF ExecutePlan
        <3>2. PICK n \in Nat, d \in Nat \ {0} : n = ws.num[t] /\ d = ws.den /\ n <= d
            <4>1. IsFiniteSet(Ticker) /\ ws.num \in [Ticker -> Nat] /\ ws.den \in Nat \ {0}
                  /\ Total(ws.num) <= ws.den
                BY <1>2 DEF Sound, Weights, ReconcilerAssumption
            <4>2. Total(ws.num) \in Nat /\ ws.num[t] <= Total(ws.num)
                BY <4>1, TotalFact
            <4> QED
                BY <4>1, <4>2
        <3>3. PICK x : x = Fraction(n, d)
            OBVIOUS
        <3>4. x.num \in Nat /\ x.den \in Nat \ {0} /\ x.num <= x.den
            BY <3>2, <3>3, FractionFact
        <3>5. x.den \in Nat \ {0} /\ x.num \in 0 .. x.den
            BY <3>4
        <3> QED
            BY <1>2, <3>1, <3>2, <3>3, <3>5
    <2> QED
        BY <1>2, <2>1, <2>2, <2>3
<1>9. CASE NextCycle
    <2>1. cycles' \in 0 .. MaxCycle /\ same' \in BOOLEAN
        BY <1>9 DEF Typed, NextCycle, ReconcilerAssumption
    <2>2. leopold' \in [Ticker -> 0 .. MaxLeopold]
        BY <1>9 DEF Typed, NextCycle
    <2>3. Rest
        BY <1>9, <2>1, <2>2 DEF Typed, NextCycle
    <2>4. UNCHANGED <<held, ws, merged, floored>>
        BY <1>9 DEF NextCycle
    <2> QED
        BY <1>2, <2>3, <2>4
<1>10. CASE UNCHANGED vars
    BY <1>2, <1>10 DEF Typed, vars, inputs
<1> QED
    BY <1>3, <1>4, <1>5, <1>6, <1>7, <1>8, <1>9, <1>10 DEF Next

\* The book, the targets and the orders have their types; a book's targets add
\* up to no more than the book, and nothing held is more than all of it.
THEOREM ReconcilerTypeCorrect == Spec => []TypeOK
<1>1. ReconcilerAssumption
    BY ReconcilerAssumption
<1>2. Init => Typed
    BY <1>1, TypedInit
<1>3. Typed /\ [Next]_vars => Typed'
    BY <1>1, TypedStep
<1>4. Typed => TypeOK
    <2>1. ASSUME Typed, NEW w, Sound(w) PROVE w.den > 0 /\ Total(w.num) <= w.den
        BY <2>1 DEF Sound, Weights
    <2> QED
        BY <2>1 DEF Typed, TypeOK
<1> QED
    BY <1>2, <1>3, <1>4, PTL DEF Spec

-----------------------------------------------------------------------------
(***************************************************************************)
(* The cap.                                                                *)
(***************************************************************************)

\* In the loop: no more passes than names at the cap, and the floor's sum.
\* After it: nothing over the cap, and the floor's sum or every name at the cap.
Capping ==
    /\ pc = "floor" => passes = 0
    /\ passes <= Cardinality(Targets(floored))
    /\ pc = "cap" => /\ passes <= Cardinality(AtTheCap(ws, floored))
                     /\ Conserved(ws, floored)
    /\ pc \in {"cap", "drift"} =>
           /\ WaterFill(ws, floored)
           /\ \A t \in Targets(floored) : Floors(floored, t)
    /\ pc = "drift" =>
           /\ OverCap(ws) = {} /\ NoMore(ws, floored)
           /\ Conserved(ws, floored) \/ \A t \in Targets(floored) : AtCap(ws, t)

\* How many names there are.
LEMMA NamesFact ==
    ASSUME ReconcilerAssumption, NEW w, NEW f
    PROVE  /\ Cardinality(Targets(f)) \in Nat /\ Cardinality(AtTheCap(w, f)) \in Nat
           /\ Cardinality(AtTheCap(w, f)) <= Cardinality(Targets(f))
<1>1. IsFiniteSet(Ticker) /\ Targets(f) \subseteq Ticker /\ AtTheCap(w, f) \subseteq Targets(f)
    BY DEF ReconcilerAssumption, Targets, AtTheCap
<1>2. IsFiniteSet(Targets(f)) /\ IsFiniteSet(AtTheCap(w, f))
    BY <1>1, FS_Subset
<1> QED
    BY <1>1, <1>2, FS_Subset, FS_CardinalityType

\* Weights fill themselves.
LEMMA FillStarts ==
    ASSUME NEW f, Weights(f)
    PROVE  WaterFill(f, f) /\ Conserved(f, f)
<1>1. ASSUME NEW t \in Targets(f)
      PROVE  /\ f.num[t] * f.den >= f.num[t] * f.den
             /\ \A u \in Targets(f) :
                    /\ f.num[u] * f.num[t] >= f.num[u] * f.num[t]
                    /\ f.num[u] * f.num[t] = f.num[u] * f.num[t]
    <2>1. f.num[t] * f.den \in Int /\ \A u \in Targets(f) : f.num[u] * f.num[t] \in Int
        BY DEF Weights, Targets
    <2> QED
        BY <2>1
<1> QED
    BY <1>1 DEF WaterFill, Conserved

\* A pass of the loop.
LEMMA CappingPass ==
    ASSUME ReconcilerAssumption, Typed, Capping, CapPass
    PROVE  Capping'
<1>1. /\ pc = "cap" /\ OverCap(ws) # {} /\ UNCHANGED <<floored, equity>>
      /\ passes' = passes + 1
      /\ pc' = IF BelowCap(ws) = {} THEN "drift" ELSE "cap"
    BY DEF CapPass, inputs
<1>2. PICK v : v = Spread(ws) /\ ws' = v
    BY DEF CapPass
<1>3. Weights(ws) /\ Total(ws.num) <= ws.den /\ Weights(floored) /\ passes \in Nat
    BY DEF Typed, Sound
<1>4. Weights(v) /\ \E g, R, E : SpreadBy(ws, v, g, R, E)
    BY <1>2, <1>3, SpreadFact
<1>5. PICK g, R, E : SpreadBy(ws, v, g, R, E)
    BY <1>4
<1>6. WaterFill(ws, floored) /\ Conserved(ws, floored) /\ passes <= Cardinality(AtTheCap(ws, floored))
      /\ \A t \in Targets(floored) : Floors(floored, t)
    BY <1>1 DEF Capping
<1>7. WaterFill(v, floored)
    BY <1>3, <1>4, <1>5, <1>6, SpreadFills
<1>8. NoMore(v, floored) /\ (BelowCap(ws) # {} => Conserved(v, floored))
    BY <1>3, <1>4, <1>5, <1>6, SpreadConserves
<1>9. passes + 1 <= Cardinality(AtTheCap(v, floored))
    <2>1. PICK i \in Nat, j \in Nat : i = Cardinality(AtTheCap(ws, floored))
                                      /\ j = Cardinality(AtTheCap(v, floored)) /\ i + 1 <= j
        BY <1>1, <1>3, <1>4, <1>5, <1>6, SpreadReaches
    <2> QED
        BY <1>3, <1>6, <2>1
<1>10. passes + 1 <= Cardinality(Targets(floored))
    <2>1. PICK i \in Nat, j \in Nat : i = Cardinality(AtTheCap(v, floored))
                                      /\ j = Cardinality(Targets(floored)) /\ i <= j
        BY NamesFact
    <2> QED
        BY <1>3, <1>9, <2>1
<1>11. ASSUME BelowCap(ws) = {}
       PROVE  OverCap(v) = {} /\ \A t \in Targets(floored) : AtCap(v, t)
    <2>1. ASSUME NEW t \in Ticker, v.num[t] # 0 PROVE AtCap(v, t)
        <3>1. ws.num[t] # 0 /\ t \notin BelowCap(ws)
            BY <1>5, <1>11, <2>1 DEF SpreadBy
        <3> QED
            BY <1>3, <1>4, <1>5, <3>1, SpreadCaps
    <2>2. ASSUME NEW t \in Targets(floored) PROVE AtCap(v, t)
        <3>1. t \in Ticker /\ floored.num[t] # 0
            BY DEF Targets
        <3> QED
            BY <1>7, <2>1, <3>1 DEF WaterFill
    <2>3. Unit \in Nat /\ Cap \in Nat
        BY DEF ReconcilerAssumption
    <2>4. ASSUME NEW t \in Ticker PROVE ~ (v.num[t] * Unit > Cap * v.den)
        <3>1. PICK m \in Nat, e \in Nat : m = v.num[t] /\ e = v.den
            BY <1>4 DEF Weights
        <3>2. m = 0 => m * Unit = 0
            BY <2>3
        <3>3. m * Unit \in Nat /\ Cap * e \in Nat
            BY <2>3
        <3> QED
            BY <2>1, <3>1, <3>2, <3>3 DEF AtCap
    <2> QED
        BY <2>2, <2>4 DEF OverCap
<1>12. (\A t \in Targets(floored) : Floors(floored, t))'
    BY <1>1, <1>6 DEF Floors
<1>13. CASE BelowCap(ws) = {}
    <2>1. pc' = "drift"
        BY <1>1, <1>13
    <2> QED
        BY <1>1, <1>2, <1>6, <1>7, <1>8, <1>10, <1>11, <1>12, <1>13, <2>1 DEF Capping, Floors
<1>14. CASE BelowCap(ws) # {}
    <2>1. pc' = "cap"
        BY <1>1, <1>14
    <2> QED
        BY <1>1, <1>2, <1>6, <1>7, <1>8, <1>9, <1>10, <1>12, <1>14, <2>1 DEF Capping, Floors
<1> QED
    BY <1>13, <1>14

\* Every step keeps what is known of the cap.
LEMMA CappingStep ==
    ASSUME ReconcilerAssumption, Typed, Capping, [Next]_vars
    PROVE  Capping'
<1>1. CASE Select
    <2>1. Cardinality(Targets(floored)) \in Nat
        BY NamesFact
    <2> QED
        BY <1>1, <2>1 DEF Select, Capping
<1>2. CASE ApplyFloor
    <2>1. PICK f : f = Floored(ws) /\ ws' = f /\ floored' = f
        BY <1>2 DEF ApplyFloor
    <2>2. /\ pc = "floor" /\ pc' = "cap" /\ passes = 0 /\ passes' = 0 /\ equity' = equity
        BY <1>2 DEF ApplyFloor, Capping, inputs
    <2>3. equity \in Nat /\ Weights(ws) /\ Total(ws.num) <= ws.den
        BY DEF Typed, Sound, ReconcilerAssumption
    <2>4. Weights(f) /\ \A t \in Targets(f) : Floors(f, t)
        BY <2>1, <2>3, FloorFact
    <2>5. WaterFill(f, f) /\ Conserved(f, f)
        BY <2>4, FillStarts
    <2>6. Cardinality(Targets(f)) \in Nat /\ Cardinality(AtTheCap(f, f)) \in Nat
        BY NamesFact
    <2>7. 0 <= Cardinality(Targets(f)) /\ 0 <= Cardinality(AtTheCap(f, f))
        BY <2>6
    <2>8. (\A t \in Targets(floored) : Floors(floored, t))'
        BY <2>1, <2>2, <2>4 DEF Floors
    <2> QED
        BY <2>1, <2>2, <2>5, <2>7, <2>8 DEF Capping
<1>3. CASE CapPass
    BY <1>3, CappingPass
<1>4. CASE CapDone
    <2>1. NoMore(ws, floored)
        <3>1. Total(ws.num) \in Nat /\ Total(floored.num) \in Nat
              /\ ws.den \in Nat /\ floored.den \in Nat
            BY TotalFact DEF Typed, Sound, Weights, ReconcilerAssumption
        <3>2. Total(ws.num) * floored.den \in Nat
            BY <3>1
        <3>3. Total(ws.num) * floored.den = Total(floored.num) * ws.den
            BY <1>4 DEF CapDone, Capping, Conserved
        <3> QED
            BY <3>2, <3>3 DEF NoMore
    <2> QED
        BY <1>4, <2>1 DEF CapDone, Capping, Floors, inputs
<1>5. CASE Plan
    BY <1>5 DEF Plan, Capping
<1>6. CASE ExecutePlan
    BY <1>6 DEF ExecutePlan, Capping
<1>7. CASE NextCycle
    BY <1>7 DEF NextCycle, Capping
<1>8. CASE UNCHANGED vars
    BY <1>8 DEF vars, inputs, Capping, Floors
<1> QED
    BY <1>1, <1>2, <1>3, <1>4, <1>5, <1>6, <1>7, <1>8 DEF Next

\* What is known of every state.
THEOREM ReconcilerInvariant == Spec => [](Typed /\ Capping)
<1>1. ReconcilerAssumption
    BY ReconcilerAssumption
<1>2. Init => Typed /\ Capping
    <2>1. Init => passes = 0 /\ pc = "select" /\ Cardinality(Targets(floored)) \in Nat
        BY <1>1, NamesFact DEF Init
    <2>2. Init => Capping
        BY <2>1 DEF Capping
    <2> QED
        BY <1>1, <2>2, TypedInit
<1>3. Typed /\ Capping /\ [Next]_vars => (Typed /\ Capping)'
    BY <1>1, TypedStep, CappingStep
<1> QED
    BY <1>2, <1>3, PTL DEF Spec

\* The loop ends at the fixed point it is meant to compute, with nobody over
\* the cap.
THEOREM CapFillsLikeWater == Spec => []CapIsWaterFill
<1>1. ASSUME Typed, Capping PROVE CapIsWaterFill
    <2>1. SUFFICES ASSUME pc = "drift"
                   PROVE  /\ \A t \in Ticker : ws.num[t] * Unit <= Cap * ws.den
                          /\ \A t \in BelowCap(ws), u \in Targets(ws) :
                                 /\ ws.num[t] * floored.den >= floored.num[t] * ws.den
                                 /\ IF AtCap(ws, u)
                                    THEN floored.num[u] * ws.num[t] >= ws.num[u] * floored.num[t]
                                    ELSE floored.num[u] * ws.num[t] = ws.num[u] * floored.num[t]
        BY DEF CapIsWaterFill
    <2>2. OverCap(ws) = {} /\ WaterFill(ws, floored) /\ Weights(ws)
        BY <1>1, <2>1 DEF Capping, Typed, Sound
    <2>3. Unit \in Nat /\ Cap \in Nat
        BY ReconcilerAssumption DEF ReconcilerAssumption
    <2>4. ASSUME NEW t \in Ticker PROVE ws.num[t] * Unit <= Cap * ws.den
        <3>1. PICK x \in Int, y \in Int : x = ws.num[t] * Unit /\ y = Cap * ws.den
            BY <2>2, <2>3 DEF Weights
        <3>2. ~ (x > y)
            BY <2>2, <3>1 DEF OverCap
        <3> QED
            BY <3>1, <3>2
    <2>5. \A t \in BelowCap(ws) : t \in Targets(ws) /\ ~ AtCap(ws, t)
        <3>1. ASSUME NEW t \in BelowCap(ws) PROVE t \in Targets(ws) /\ ~ AtCap(ws, t)
            <4>1. t \in Targets(ws) /\ t \in Ticker /\ ws.num[t] * Unit < Cap * ws.den
                BY DEF BelowCap, Targets
            <4>2. ws.num[t] * Unit \in Int /\ Cap * ws.den \in Int
                BY <2>2, <2>3, <4>1 DEF Weights
            <4> QED
                BY <4>1, <4>2 DEF AtCap
        <3> QED
            BY <3>1
    <2> QED
        BY <2>2, <2>4, <2>5 DEF WaterFill
<1> QED
    BY <1>1, ReconcilerInvariant, PTL

\* The cap moves weight, adds none, and loses none but when every name is at it.
THEOREM CapLosesNothing == Spec => []NoWeightLeaks
<1>1. Capping => NoWeightLeaks
    BY DEF Capping, NoWeightLeaks, Conserved, NoMore
<1> QED
    BY <1>1, ReconcilerInvariant, PTL

\* The loop takes no more passes than there are names.
THEOREM CapEnds == Spec => []CapConverges
<1>1. Capping => CapConverges
    BY DEF Capping, CapConverges
<1> QED
    BY <1>1, ReconcilerInvariant, PTL

\* Nobody gets an order for a position below either floor, if the cap is not.
THEOREM SurvivorsStay == Spec => []FloorSurvivorsStay
<1>1. ASSUME Typed, Capping PROVE FloorSurvivorsStay
    <2>1. SUFFICES ASSUME pc = "drift", Cap >= FloorPct, Cap * equity >= FloorUsd * Unit,
                          NEW t \in Targets(ws)
                   PROVE  ws.num[t] * Unit >= FloorPct * ws.den
                          /\ ws.num[t] * equity >= FloorUsd * ws.den
        BY DEF FloorSurvivorsStay
    <2>2. WaterFill(ws, floored) /\ \A u \in Targets(floored) : Floors(floored, u)
        BY <1>1, <2>1 DEF Capping
    <2>3. t \in Ticker /\ ws.num[t] > 0
        BY DEF Targets
    <2>4. PICK q \in Nat, p \in Nat, o \in Nat, r \in Nat, U \in Nat \ {0} :
              q = equity /\ p = FloorPct /\ o = FloorUsd /\ r = Cap /\ U = Unit
        BY <1>1, ReconcilerAssumption DEF Typed, ReconcilerAssumption
    <2>5. PICK n \in Nat, D \in Nat \ {0}, F \in Nat, G \in Nat \ {0} :
              n = ws.num[t] /\ D = ws.den /\ F = floored.num[t] /\ G = floored.den
        BY <1>1, <2>3 DEF Typed, Sound, Weights
    <2>6. t \in Targets(floored)
        BY <2>2, <2>3, <2>5 DEF WaterFill, Targets
    <2>7. F * U >= p * G /\ F * q >= o * G
        BY <2>2, <2>4, <2>5, <2>6 DEF Floors
    <2>8. CASE AtCap(ws, t)
        <3>1. n * U = r * D
            BY <2>4, <2>5, <2>8 DEF AtCap
        <3>2. p * D <= r * D
            BY <2>1, <2>4, ProductOrder
        <3>3. o * D <= n * q
            <4>1. (o * U) * D <= (r * q) * D
                <5>1. o * U <= r * q /\ o * U \in Nat /\ r * q \in Nat
                    BY <2>1, <2>4
                <5> QED
                    BY <5>1, ProductOrder
            <4>2. (o * U) * D = U * (o * D) /\ (r * q) * D = (r * D) * q /\ (n * U) * q = U * (n * q)
                OBVIOUS
            <4>3. U * (o * D) <= U * (n * q)
                BY <3>1, <4>1, <4>2
            <4>4. PICK x \in Int, y \in Int : x = o * D /\ y = n * q
                OBVIOUS
            <4> QED
                BY <4>3, <4>4, Cancels
        <3> QED
            BY <2>4, <2>5, <3>1, <3>2, <3>3
    <2>9. CASE ~ AtCap(ws, t)
        <3>1. F * D <= n * G
            BY <2>2, <2>5, <2>9 DEF WaterFill
        <3>2. ASSUME NEW c \in Nat, NEW k \in Nat, k * G <= F * c PROVE k * D <= n * c
            <4>1. (k * G) * D <= (F * c) * D
                <5>1. k * G \in Nat /\ F * c \in Nat
                    OBVIOUS
                <5> QED
                    BY <3>2, <5>1, ProductOrder
            <4>2. (F * D) * c <= (n * G) * c
                <5>1. F * D \in Nat /\ n * G \in Nat
                    OBVIOUS
                <5> QED
                    BY <3>1, <5>1, ProductOrder
            <4>3. (k * G) * D = G * (k * D) /\ (F * c) * D = (F * D) * c /\ (n * G) * c = G * (n * c)
                OBVIOUS
            <4>4. PICK x \in Int, y \in Int, z \in Int : x = k * D /\ y = n * c /\ z = (F * D) * c
                OBVIOUS
            <4>5. G * x <= z /\ z <= G * y
                BY <4>1, <4>2, <4>3, <4>4
            <4>6. G * x <= G * y
                <5>1. G * x \in Int /\ G * y \in Int
                    OBVIOUS
                <5> QED
                    BY <4>5, <5>1
            <4> QED
                BY <4>4, <4>6, Cancels
        <3>3. p * D <= n * U /\ o * D <= n * q
            BY <2>7, <3>2
        <3> QED
            BY <2>4, <2>5, <3>3
    <2> QED
        BY <2>8, <2>9
<1> QED
    BY <1>1, ReconcilerInvariant, PTL

-----------------------------------------------------------------------------
(***************************************************************************)
(* A rebalance after a rebalance.                                          *)
(***************************************************************************)

\* The weights that n passes of the loop go through from f.
Passing(f, h, n) ==
    /\ h[0] = f
    /\ \A i \in 0 .. n - 1 :
           /\ h[i + 1] = Spread(h[i]) /\ OverCap(h[i]) # {}
           /\ i > 0 => BelowCap(h[i - 1]) # {}

\* The loop is at w after n passes, and goes on.
Running(f, w, n) ==
    \E h : Passing(f, h, n) /\ h[n] = w /\ (n > 0 => BelowCap(h[n - 1]) # {})

\* The loop ends with p.
Filled(f, p) ==
    \E n \in Nat : \E h :
        /\ Passing(f, h, n) /\ h[n] = p
        /\ OverCap(p) = {} \/ (n > 0 /\ BelowCap(h[n - 1]) = {})

Sleeves == Merge(Sleeve(trump, SleeveTrump), Sleeve(leopold, SleeveLeopold))

DriftedFrom(p, t) ==
    LET d == p.num[t] * held[t].den - held[t].num * p.den
        size == (IF d < 0 THEN - d ELSE d)
        den == p.den * held[t].den
    IN  size * Unit > DriftPct * den \/ size * equity > DriftUsd * den

\* The book holds those targets, but for what is within the drift band.
Mirrors(p) ==
    /\ \A t \in Targets(p) : ~ DriftedFrom(p, t)
    /\ \A t \in Ticker : held[t].num > 0 => t \in Targets(p)

\* While the sources are those of the last rebalance, the book mirrors what the
\* loop makes of them.
Settling ==
    /\ pc = "floor" => ws = Sleeves
    /\ pc \in {"cap", "drift", "execute", "settled"} => floored = Floored(Sleeves)
    /\ pc = "cap" => Running(floored, ws, passes)
    /\ pc \in {"drift", "execute", "settled"} => Filled(floored, ws)
    /\ pc = "execute" =>
           orders = {t \in Targets(ws) : DriftedFrom(ws, t)}
                    \cup ({t \in Ticker : held[t].num > 0} \ Targets(ws))
    /\ pc = "settled" => Mirrors(ws)
    /\ pc # "settled" /\ same => \E p : Filled(Floored(Sleeves), p) /\ Mirrors(p)

\* Two runs of the loop go through the same weights.
LEMMA PassesAgree ==
    ASSUME NEW f, NEW h, NEW k, NEW n \in Nat, NEW m \in Nat, n <= m,
           Passing(f, h, n), Passing(f, k, m)
    PROVE  \A i \in 0 .. n : h[i] = k[i]
<1> DEFINE Good == {i \in Nat : i <= n => h[i] = k[i]}
<1>1. 0 \in Good
    BY DEF Passing
<1>2. ASSUME NEW i \in Nat, i \in Good PROVE i + 1 \in Good
    <2>1. SUFFICES ASSUME i + 1 <= n PROVE h[i + 1] = k[i + 1]
        OBVIOUS
    <2>2. i \in 0 .. n - 1 /\ i \in 0 .. m - 1 /\ h[i] = k[i]
        BY <1>2, <2>1
    <2>3. h[i + 1] = Spread(h[i]) /\ k[i + 1] = Spread(k[i])
        BY <2>2 DEF Passing
    <2> QED
        BY <2>2, <2>3
<1>3. Nat \subseteq Good
    <2> HIDE DEF Good
    <2> QED
        BY <1>1, <1>2, NumberInduction
<1> QED
    BY <1>3

\* A run that goes on is no shorter than one that ended.
LEMMA EndIsFirst ==
    ASSUME NEW f, NEW h, NEW k, NEW n \in Nat, NEW m \in Nat,
           Passing(f, h, n), Passing(f, k, m),
           OverCap(h[n]) = {} \/ (n > 0 /\ BelowCap(h[n - 1]) = {})
    PROVE  m <= n
<1> SUFFICES ASSUME n < m PROVE FALSE
    OBVIOUS
<1>1. \A i \in 0 .. n : h[i] = k[i]
    BY PassesAgree
<1>2. n \in 0 .. m - 1 /\ n \in 0 .. n /\ (n > 0 => n - 1 \in 0 .. n)
    OBVIOUS
<1>3. OverCap(k[n]) # {} /\ (n > 0 => BelowCap(k[n - 1]) # {})
    BY <1>2 DEF Passing
<1>4. k[n] = h[n] /\ (n > 0 => k[n - 1] = h[n - 1])
    BY <1>1, <1>2
<1> QED
    BY <1>3, <1>4

\* The loop has one outcome.
LEMMA FilledOnce ==
    ASSUME NEW f, NEW p, NEW q, Filled(f, p), Filled(f, q)
    PROVE  p = q
<1>1. PICK n \in Nat : \E h :
          /\ Passing(f, h, n) /\ h[n] = p
          /\ OverCap(p) = {} \/ (n > 0 /\ BelowCap(h[n - 1]) = {})
    BY DEF Filled
<1>2. PICK m \in Nat : \E k :
          /\ Passing(f, k, m) /\ k[m] = q
          /\ OverCap(q) = {} \/ (m > 0 /\ BelowCap(k[m - 1]) = {})
    BY DEF Filled
<1>3. PICK h : /\ Passing(f, h, n) /\ h[n] = p
               /\ OverCap(p) = {} \/ (n > 0 /\ BelowCap(h[n - 1]) = {})
    BY <1>1
<1>4. PICK k : /\ Passing(f, k, m) /\ k[m] = q
               /\ OverCap(q) = {} \/ (m > 0 /\ BelowCap(k[m - 1]) = {})
    BY <1>2
<1>5. m <= n
    BY <1>3, <1>4, EndIsFirst
<1>6. n <= m
    BY <1>3, <1>4, EndIsFirst
<1>7. n = m
    BY <1>5, <1>6
<1>8. h[n] = k[n]
    <2>1. \A i \in 0 .. n : h[i] = k[i]
        BY <1>3, <1>4, <1>7, PassesAgree
    <2> QED
        BY <2>1
<1> QED
    BY <1>3, <1>4, <1>7, <1>8

\* The loop begins with what the floor left.
LEMMA RunStarts ==
    ASSUME NEW f
    PROVE  Running(f, f, 0)
<1> DEFINE h == [i \in {0} |-> f]
<1>1. h[0] = f
    OBVIOUS
<1>2. Passing(f, h, 0)
    BY <1>1 DEF Passing
<1> QED
    BY <1>1, <1>2 DEF Running

\* A pass takes the loop on, or ends it.
LEMMA RunPasses ==
    ASSUME NEW f, NEW w, NEW n \in Nat, Running(f, w, n), OverCap(w) # {}
    PROVE  /\ BelowCap(w) # {} => Running(f, Spread(w), n + 1)
           /\ BelowCap(w) = {} => Filled(f, Spread(w))
<1>1. PICK h : Passing(f, h, n) /\ h[n] = w /\ (n > 0 => BelowCap(h[n - 1]) # {})
    BY DEF Running
<1> DEFINE k == [i \in 0 .. n + 1 |-> IF i = n + 1 THEN Spread(w) ELSE h[i]]
<1>2. k[n + 1] = Spread(w) /\ \A i \in 0 .. n : k[i] = h[i]
    OBVIOUS
<1> HIDE DEF k
<1>3. ASSUME NEW i \in 0 .. (n + 1) - 1
      PROVE  /\ k[i + 1] = Spread(k[i]) /\ OverCap(k[i]) # {}
             /\ i > 0 => BelowCap(k[i - 1]) # {}
    <2>1. i \in 0 .. n /\ k[i] = h[i] /\ (i > 0 => k[i - 1] = h[i - 1])
        BY <1>2
    <2>2. CASE i = n
        BY <1>1, <1>2, <2>1, <2>2
    <2>3. CASE i # n
        <3>1. i \in 0 .. n - 1 /\ i + 1 \in 0 .. n
            BY <2>1, <2>3
        <3>2. k[i + 1] = h[i + 1]
            BY <1>2, <3>1
        <3>3. h[i + 1] = Spread(h[i]) /\ OverCap(h[i]) # {} /\ (i > 0 => BelowCap(h[i - 1]) # {})
            BY <1>1, <3>1 DEF Passing
        <3> QED
            BY <2>1, <3>2, <3>3
    <2> QED
        BY <2>2, <2>3
<1>4. k[0] = f
    BY <1>1, <1>2 DEF Passing
<1>5. Passing(f, k, n + 1)
    BY <1>3, <1>4 DEF Passing
<1>6. n + 1 \in Nat /\ n + 1 > 0 /\ (n + 1) - 1 = n /\ k[n] = w
    BY <1>1, <1>2
<1>7. ASSUME BelowCap(w) # {} PROVE Running(f, Spread(w), n + 1)
    BY <1>2, <1>5, <1>6, <1>7 DEF Running
<1>8. ASSUME BelowCap(w) = {} PROVE Filled(f, Spread(w))
    BY <1>2, <1>5, <1>6, <1>8 DEF Filled
<1> QED
    BY <1>7, <1>8

\* Without a name over the cap the loop ends where it is.
LEMMA RunEnds ==
    ASSUME NEW f, NEW w, NEW n \in Nat, Running(f, w, n), OverCap(w) = {}
    PROVE  Filled(f, w)
BY DEF Running, Filled

\* What the sources come to depends on them and the equity alone.
LEMMA SameInputs ==
    ASSUME UNCHANGED inputs
    PROVE  Sleeves' = Sleeves /\ Floored(Sleeves)' = Floored(Sleeves)
BY DEF inputs, Sleeves, Floored, AboveFloor

\* And what a book mirrors on the book and the equity.
LEMMA SameBook ==
    ASSUME UNCHANGED <<held, equity>>, NEW p
    PROVE  Mirrors(p)' = Mirrors(p)
BY DEF Mirrors, DriftedFrom

\* A book after its orders are filled.
LEMMA OrdersMirror ==
    ASSUME ReconcilerAssumption, Typed, Settling, ExecutePlan
    PROVE  Mirrors(ws)'
<1>1. /\ pc = "execute" /\ UNCHANGED <<ws, equity>>
      /\ \A t \in Ticker : held'[t] = IF t \in orders THEN Fraction(ws.num[t], ws.den) ELSE held[t]
    BY DEF ExecutePlan, inputs
<1>2. orders = {t \in Targets(ws) : DriftedFrom(ws, t)}
               \cup ({t \in Ticker : held[t].num > 0} \ Targets(ws))
    BY <1>1 DEF Settling
<1>3. PICK U \in Nat, p \in Nat, o \in Nat, q \in Nat :
          U = Unit /\ p = DriftPct /\ o = DriftUsd /\ q = equity
    BY DEF ReconcilerAssumption, Typed
<1>4. Weights(ws) /\ Total(ws.num) <= ws.den /\ IsFiniteSet(Ticker)
    BY DEF Typed, Sound, ReconcilerAssumption
<1>5. ASSUME NEW t \in Ticker, t \in orders
      PROVE  /\ ~ DriftedFrom(ws, t)'
             /\ held'[t].num > 0 => t \in Targets(ws)
    <2>1. PICK n \in Nat, D \in Nat \ {0} : n = ws.num[t] /\ D = ws.den /\ n <= D
        <3>1. ws.num \in [Ticker -> Nat] /\ ws.den \in Nat \ {0}
            BY <1>4 DEF Weights
        <3>2. ws.num[t] <= Total(ws.num) /\ Total(ws.num) \in Nat
            BY <1>4, <3>1, TotalFact
        <3> QED
            BY <1>4, <3>1, <3>2
    <2>2. PICK x : x = Fraction(n, D)
        OBVIOUS
    <2>3. /\ x.num \in Nat /\ x.den \in Nat \ {0} /\ x.num * D = n * x.den
          /\ x.num = 0 <=> n = 0
        BY <2>1, <2>2, FractionFact
    <2>4. held'[t] = x
        BY <1>1, <1>5, <2>1, <2>2
    <2>5. PICK a \in Nat, b \in Nat : a = x.num /\ b = x.den /\ a * D = n * b
        BY <2>3
    <2>6. PICK z \in Nat : z = D * b
        OBVIOUS
    <2>7. DriftedFrom(ws, t)' = (0 * U > p * z \/ 0 * q > o * z)
        <3>1. n * b - a * D = 0
            BY <2>5
        <3> QED
            BY <1>1, <1>3, <2>1, <2>4, <2>5, <2>6, <3>1 DEF DriftedFrom
    <2>8. p * z \in Nat /\ o * z \in Nat /\ 0 * U = 0 /\ 0 * q = 0
        OBVIOUS
    <2>9. ~ DriftedFrom(ws, t)'
        <3>1. ~ (0 * U > p * z) /\ ~ (0 * q > o * z)
            BY <2>8
        <3> QED
            BY <2>7, <3>1, Zenon
    <2>10. held'[t].num > 0 => n > 0
        BY <2>3, <2>4
    <2> QED
        BY <2>1, <2>9, <2>10 DEF Targets
<1>6. ASSUME NEW t \in Ticker, t \notin orders
      PROVE  /\ t \in Targets(ws) => ~ DriftedFrom(ws, t)'
             /\ held'[t].num > 0 => t \in Targets(ws)
    <2>1. held'[t] = held[t]
        BY <1>1, <1>6
    <2>2. DriftedFrom(ws, t)' = DriftedFrom(ws, t)
        BY <1>1, <2>1 DEF DriftedFrom
    <2>3. t \in Targets(ws) => ~ DriftedFrom(ws, t)
        BY <1>2, <1>6
    <2>4. held[t].num > 0 => t \in Targets(ws)
        BY <1>2, <1>6
    <2> QED
        BY <2>1, <2>2, <2>3, <2>4
<1>7. Targets(ws)' = Targets(ws) /\ Targets(ws) \subseteq Ticker
    BY <1>1 DEF Targets
<1>8. \A t \in Targets(ws) : ~ DriftedFrom(ws, t)'
    BY <1>5, <1>6, <1>7
<1>9. \A t \in Ticker : held'[t].num > 0 => t \in Targets(ws)
    BY <1>5, <1>6
<1> QED
    BY <1>1, <1>7, <1>8, <1>9 DEF Mirrors

\* Every step keeps what is known of a book that the sources have not left.
LEMMA SettlingStep ==
    ASSUME ReconcilerAssumption, Typed, Capping, Settling, [Next]_vars
    PROVE  Settling'
<1> DEFINE Agreed == \E p : Filled(Floored(Sleeves), p) /\ Mirrors(p)
           Ordered == orders = {t \in Targets(ws) : DriftedFrom(ws, t)}
                               \cup ({t \in Ticker : held[t].num > 0} \ Targets(ws))
<1>1. ASSUME UNCHANGED inputs, UNCHANGED held, Agreed PROVE Agreed'
    <2>1. PICK p : Filled(Floored(Sleeves), p) /\ Mirrors(p)
        BY <1>1
    <2>2. Filled(Floored(Sleeves), p)' /\ Mirrors(p)'
        BY <1>1, <2>1, SameInputs, SameBook DEF inputs
    <2> QED
        BY <2>2
<1>2. /\ pc = "floor" => ws = Sleeves
      /\ pc \in {"cap", "drift", "execute", "settled"} => floored = Floored(Sleeves)
      /\ pc = "cap" => Running(floored, ws, passes)
      /\ pc \in {"drift", "execute", "settled"} => Filled(floored, ws)
      /\ pc = "execute" => Ordered
      /\ pc = "settled" => Mirrors(ws)
      /\ pc # "settled" /\ same => Agreed
    BY DEF Settling
<1>3. SUFFICES /\ pc' = "floor" => ws' = Sleeves'
               /\ pc' \in {"cap", "drift", "execute", "settled"} => floored' = Floored(Sleeves)'
               /\ pc' = "cap" => Running(floored', ws', passes')
               /\ pc' \in {"drift", "execute", "settled"} => Filled(floored', ws')
               /\ pc' = "execute" => Ordered'
               /\ pc' = "settled" => Mirrors(ws)'
               /\ pc' # "settled" /\ same' => Agreed'
    BY DEF Settling
<1>4. passes \in Nat
    BY DEF Typed
<1> HIDE DEF Agreed, Ordered
<1>5. CASE Select
    <2>1. /\ pc = "select" /\ pc' = "floor" /\ ws' = Sleeves
          /\ UNCHANGED inputs /\ UNCHANGED held /\ same' = same
        BY <1>5 DEF Select, Sleeves
    <2>2. ws' = Sleeves'
        BY <2>1, SameInputs
    <2> QED
        BY <1>1, <1>2, <2>1, <2>2
<1>6. CASE ApplyFloor
    <2>1. /\ pc = "floor" /\ pc' = "cap" /\ ws' = Floored(ws) /\ floored' = ws'
          /\ UNCHANGED inputs /\ UNCHANGED held /\ same' = same /\ passes' = passes
        BY <1>6 DEF ApplyFloor
    <2>2. floored' = Floored(Sleeves)'
        BY <1>2, <2>1, SameInputs
    <2>3. passes = 0
        BY <2>1 DEF Capping
    <2>4. Running(floored', ws', passes')
        BY <2>1, <2>3, RunStarts
    <2> QED
        BY <1>1, <1>2, <2>1, <2>2, <2>4
<1>7. CASE CapPass
    <2>1. /\ pc = "cap" /\ OverCap(ws) # {} /\ ws' = Spread(ws) /\ floored' = floored
          /\ pc' = (IF BelowCap(ws) = {} THEN "drift" ELSE "cap")
          /\ UNCHANGED inputs /\ UNCHANGED held /\ same' = same /\ passes' = passes + 1
        BY <1>7 DEF CapPass
    <2>2. floored' = Floored(Sleeves)'
        BY <1>2, <2>1, SameInputs
    <2>3. /\ BelowCap(ws) # {} => Running(floored', ws', passes')
          /\ BelowCap(ws) = {} => Filled(floored', ws')
        BY <1>2, <1>4, <2>1, RunPasses
    <2> QED
        BY <1>1, <1>2, <2>1, <2>2, <2>3
<1>8. CASE CapDone
    <2>1. /\ pc = "cap" /\ OverCap(ws) = {} /\ ws' = ws /\ floored' = floored /\ pc' = "drift"
          /\ UNCHANGED inputs /\ UNCHANGED held /\ same' = same
        BY <1>8 DEF CapDone
    <2>2. floored' = Floored(Sleeves)'
        BY <1>2, <2>1, SameInputs
    <2>3. Filled(floored', ws')
        BY <1>2, <1>4, <2>1, RunEnds
    <2> QED
        BY <1>1, <1>2, <2>1, <2>2, <2>3
<1>9. CASE Plan
    <2>1. /\ pc = "drift" /\ pc' = "execute" /\ ws' = ws /\ floored' = floored
          /\ UNCHANGED inputs /\ UNCHANGED held /\ same' = same
          /\ orders' = {t \in Targets(ws) : Drifted(t)} \cup Exits
        BY <1>9 DEF Plan
    <2>2. floored' = Floored(Sleeves)' /\ Filled(floored', ws')
        BY <1>2, <2>1, SameInputs
    <2>3. \A t \in Ticker : Drifted(t) = DriftedFrom(ws, t)'
        BY <2>1 DEF Drifted, DriftedFrom, inputs
    <2>4. Targets(ws) \subseteq Ticker
        BY DEF Targets
    <2>5. Ordered'
        BY <2>1, <2>3, <2>4 DEF Ordered, Exits
    <2> QED
        BY <1>1, <1>2, <2>1, <2>2, <2>5
<1>10. CASE ExecutePlan
    <2>1. /\ pc = "execute" /\ pc' = "settled" /\ ws' = ws /\ floored' = floored
          /\ UNCHANGED inputs
        BY <1>10 DEF ExecutePlan
    <2>2. floored' = Floored(Sleeves)' /\ Filled(floored', ws')
        BY <1>2, <2>1, SameInputs
    <2>3. Mirrors(ws)'
        BY <1>10, OrdersMirror
    <2> QED
        BY <2>1, <2>2, <2>3
<1>11. CASE NextCycle
    <2>1. /\ pc = "settled" /\ pc' = "select" /\ UNCHANGED <<trump, equity, held, ws>>
          /\ same' = (leopold' = leopold)
        BY <1>11 DEF NextCycle
    <2>2. Filled(Floored(Sleeves), ws) /\ Mirrors(ws)
        BY <1>2, <2>1
    <2>3. Agreed
        BY <2>2 DEF Agreed
    <2>4. same' => UNCHANGED inputs
        BY <2>1 DEF inputs
    <2> QED
        BY <1>1, <2>1, <2>3, <2>4
<1>12. CASE UNCHANGED vars
    <2>1. /\ UNCHANGED <<pc, ws, floored, passes, orders, same>>
          /\ UNCHANGED inputs /\ UNCHANGED held
        BY <1>12 DEF vars
    <2>2. Sleeves' = Sleeves /\ Floored(Sleeves)' = Floored(Sleeves)
        BY <2>1, SameInputs
    <2>3. Mirrors(ws)' = Mirrors(ws)
        BY <2>1 DEF Mirrors, DriftedFrom, inputs
    <2>4. Ordered' = Ordered
        BY <2>1 DEF Ordered, DriftedFrom, inputs
    <2> QED
        BY <1>1, <1>2, <2>1, <2>2, <2>3, <2>4
<1> QED
    BY <1>5, <1>6, <1>7, <1>8, <1>9, <1>10, <1>11, <1>12 DEF Next

\* A rebalance of sources that have not changed since the last has no orders.
THEOREM ReconcilerSettles == Spec => []RebalanceSettles
<1>1. ReconcilerAssumption
    BY ReconcilerAssumption
<1>2. Init => Settling
    BY DEF Init, Settling
<1>3. Typed /\ Capping /\ Settling /\ [Next]_vars => Settling'
    BY <1>1, SettlingStep
<1>4. Settling => RebalanceSettles
    <2>1. SUFFICES ASSUME Settling, pc = "execute", same PROVE orders = {}
        BY DEF RebalanceSettles
    <2>2. PICK p : Filled(Floored(Sleeves), p) /\ Mirrors(p)
        BY <2>1 DEF Settling
    <2>3. Filled(Floored(Sleeves), ws)
        BY <2>1 DEF Settling
    <2>4. p = ws
        BY <2>2, <2>3, FilledOnce
    <2>5. \A t \in Targets(ws) : ~ DriftedFrom(ws, t)
        BY <2>2, <2>4 DEF Mirrors
    <2>6. \A t \in Ticker : held[t].num > 0 => t \in Targets(ws)
        BY <2>2, <2>4 DEF Mirrors
    <2>7. orders = {t \in Targets(ws) : DriftedFrom(ws, t)}
                   \cup ({t \in Ticker : held[t].num > 0} \ Targets(ws))
        BY <2>1 DEF Settling
    <2> QED
        BY <2>5, <2>6, <2>7
<1> QED
    BY <1>2, <1>3, <1>4, ReconcilerInvariant, PTL DEF Spec

-----------------------------------------------------------------------------
(***************************************************************************)
(* CapIsWaterFill and NoWeightLeaks leave the cap one outcome.             *)
(***************************************************************************)

\* What those two properties say of weights w, of those the floor left.
Outcome(w, f) ==
    /\ Weights(w) /\ OverCap(w) = {} /\ WaterFill(w, f) /\ NoMore(w, f)
    /\ Conserved(w, f) \/ \A t \in Targets(f) : AtCap(w, t)

NoHigher(w, v) == \A t \in Ticker : w.num[t] * v.den <= v.num[t] * w.den

SameWeights(w, v) == \A t \in Ticker : w.num[t] * v.den = v.num[t] * w.den

\* Weights that are none higher, and have no smaller sum, are the same.
LEMMA NoHigherIsSame ==
    ASSUME ReconcilerAssumption, NEW w, Weights(w), NEW v, Weights(v), NoHigher(w, v),
           Total(v.num) * w.den <= Total(w.num) * v.den
    PROVE  SameWeights(w, v)
<1>1. IsFiniteSet(Ticker)
    BY DEF ReconcilerAssumption
<1>2. PICK n \in [Ticker -> Nat], m \in [Ticker -> Nat], D \in Nat, e \in Nat :
          n = w.num /\ m = v.num /\ D = w.den /\ e = v.den
    BY DEF Weights
<1> DEFINE x == [t \in Ticker |-> n[t] * e]
           y == [t \in Ticker |-> m[t] * D]
<1>3. x \in [Ticker -> Nat] /\ Combination(e, n, 0, n, x) /\ \A t \in Ticker : x[t] = n[t] * e
    BY <1>2 DEF Combination
<1>4. y \in [Ticker -> Nat] /\ Combination(D, m, 0, m, y) /\ \A t \in Ticker : y[t] = m[t] * D
    BY <1>2 DEF Combination
<1> HIDE DEF x, y
<1>5. Total(x) = e * Total(n) + 0 * Total(n) /\ Total(n) \in Nat
    <2>1. x \in [Ticker -> Nat] /\ n \in [Ticker -> Nat] /\ e \in Nat
        BY <1>2, <1>3
    <2>2. Total(x) = e * Total(n) + 0 * Total(n)
        BY <1>1, <1>3, <2>1, TotalCombines
    <2>3. Total(n) \in Nat
        BY <1>1, <2>1, TotalFact
    <2> QED
        BY <2>2, <2>3
<1>6. Total(y) = D * Total(m) + 0 * Total(m) /\ Total(m) \in Nat
    <2>1. y \in [Ticker -> Nat] /\ m \in [Ticker -> Nat] /\ D \in Nat
        BY <1>2, <1>4
    <2>2. Total(y) = D * Total(m) + 0 * Total(m)
        BY <1>1, <1>4, <2>1, TotalCombines
    <2>3. Total(m) \in Nat
        BY <1>1, <2>1, TotalFact
    <2> QED
        BY <2>2, <2>3
<1>7. Total(y) <= Total(x)
    <2>1. Total(m) * D <= Total(n) * e
        BY <1>2
    <2>2. PICK i \in Nat, j \in Nat : i = Total(n) /\ j = Total(m)
        BY <1>5, <1>6
    <2>3. Total(x) = i * e /\ Total(y) = j * D
        BY <1>2, <1>5, <1>6, <2>2
    <2> QED
        BY <2>1, <2>2, <2>3
<1>8. \A t \in Ticker : x[t] \in Int /\ y[t] \in Int /\ x[t] <= y[t]
    BY <1>2, <1>3, <1>4 DEF NoHigher
<1>9. (\E t \in Ticker : x[t] < y[t]) => Total(x) < Total(y)
    <2>1. Total(x) = SumOver(x, Ticker) /\ Total(y) = SumOver(y, Ticker)
        BY <1>1, <1>3, <1>4, TotalFact
    <2>2. (\E t \in Ticker : x[t] < y[t]) => SumOver(x, Ticker) < SumOver(y, Ticker)
        BY <1>1, <1>8, SumIsMonotone
    <2> QED
        BY <2>1, <2>2
<1>10. Total(x) \in Nat /\ Total(y) \in Nat
    BY <1>1, <1>3, <1>4, TotalFact
<1>11. \A t \in Ticker : x[t] = y[t]
    BY <1>7, <1>8, <1>9, <1>10
<1> QED
    BY <1>2, <1>3, <1>4, <1>11 DEF SameWeights

\* Weights with the sum of f have no smaller sum than weights with no more.
LEMMA SumsCompare ==
    ASSUME ReconcilerAssumption, NEW f, Weights(f), NEW w, Weights(w), NEW v, Weights(v),
           Conserved(v, f), NoMore(w, f)
    PROVE  Total(w.num) * v.den <= Total(v.num) * w.den
<1>1. PICK D \in Nat, e \in Nat, G \in Nat \ {0}, T \in Nat, S \in Nat, F \in Nat :
          /\ D = w.den /\ e = v.den /\ G = f.den
          /\ T = Total(w.num) /\ S = Total(v.num) /\ F = Total(f.num)
    BY TotalFact DEF Weights, ReconcilerAssumption
<1>2. T * G <= F * D /\ S * G = F * e
    BY <1>1 DEF NoMore, Conserved
<1>3. (T * G) * e <= (F * D) * e
    <2>1. T * G \in Nat /\ F * D \in Nat
        OBVIOUS
    <2> QED
        BY <1>2, <2>1, ProductOrder
<1>4. (T * G) * e = G * (T * e) /\ (F * D) * e = (F * e) * D /\ (S * G) * D = G * (S * D)
    OBVIOUS
<1>5. G * (T * e) <= G * (S * D)
    BY <1>2, <1>3, <1>4
<1>6. PICK x \in Int, y \in Int : x = T * e /\ y = S * D
    OBVIOUS
<1> QED
    BY <1>1, <1>5, <1>6, Cancels

\* Nobody over the cap is higher than a name at it.
LEMMA AtCapIsHighest ==
    ASSUME ReconcilerAssumption, NEW w, Weights(w), OverCap(w) = {}, NEW v, Weights(v),
           NEW t \in Ticker, AtCap(v, t)
    PROVE  w.num[t] * v.den <= v.num[t] * w.den
<1>1. PICK n \in Nat, D \in Nat, m \in Nat, e \in Nat, U \in Nat \ {0}, c \in Nat :
          /\ n = w.num[t] /\ D = w.den /\ m = v.num[t] /\ e = v.den /\ U = Unit /\ c = Cap
    BY DEF Weights, ReconcilerAssumption
<1>2. m * U = c * e
    BY <1>1 DEF AtCap
<1>3. n * U <= c * D
    <2>1. ~ (n * U > c * D)
        BY <1>1 DEF OverCap
    <2>2. n * U \in Int /\ c * D \in Int
        OBVIOUS
    <2> QED
        BY <2>1, <2>2
<1>4. (n * U) * e <= (c * D) * e
    <2>1. n * U \in Nat /\ c * D \in Nat
        OBVIOUS
    <2> QED
        BY <1>3, <2>1, ProductOrder
<1>5. (n * U) * e = U * (n * e) /\ (c * D) * e = (c * e) * D /\ (m * U) * D = U * (m * D)
    OBVIOUS
<1>6. U * (n * e) <= U * (m * D)
    BY <1>2, <1>4, <1>5
<1>7. PICK x \in Int, y \in Int : x = n * e /\ y = m * D
    OBVIOUS
<1> QED
    BY <1>1, <1>6, <1>7, Cancels

\* Of two fills, the one whose names below the cap were raised less is none
\* higher anywhere.
LEMMA RaisedLess ==
    ASSUME ReconcilerAssumption, NEW f, Weights(f), NEW w, Outcome(w, f), NEW v, Outcome(v, f),
           NEW x \in Targets(w), ~ AtCap(w, x), NEW y \in Targets(v), ~ AtCap(v, y),
           (w.num[x] * f.num[y]) * v.den <= (v.num[y] * f.num[x]) * w.den
    PROVE  NoHigher(w, v)
<1>1. SUFFICES ASSUME NEW t \in Ticker
               PROVE  w.num[t] * v.den <= v.num[t] * w.den
    BY DEF NoHigher
<1>2. /\ Weights(w) /\ Weights(v) /\ OverCap(w) = {} /\ WaterFill(w, f) /\ WaterFill(v, f)
      /\ x \in Ticker /\ y \in Ticker
    BY DEF Outcome, Targets
<1>3. CASE AtCap(v, t)
    BY <1>2, <1>3, AtCapIsHighest
<1>4. CASE ~ AtCap(v, t)
    <2>1. PICK n \in Nat, D \in Nat, m \in Nat, e \in Nat, F \in Nat,
               nx \in Nat, my \in Nat, Fx \in Nat \ {0}, Fy \in Nat \ {0} :
              /\ n = w.num[t] /\ D = w.den /\ m = v.num[t] /\ e = v.den /\ F = f.num[t]
              /\ nx = w.num[x] /\ my = v.num[y] /\ Fx = f.num[x] /\ Fy = f.num[y]
        <3>1. f.num[x] # 0 /\ f.num[y] # 0
            BY <1>2 DEF WaterFill, Targets
        <3> QED
            BY <1>2, <3>1 DEF Weights
    <2>2. CASE n = 0
        <3>1. n * e = 0 /\ m * D \in Nat
            BY <2>2
        <3>2. n * e <= m * D
            BY <3>1
        <3> QED
            BY <2>1, <3>2
    <2>3. CASE n # 0
        <3>1. t \in Targets(w) /\ t \in Targets(v)
            BY <1>2, <2>1, <2>3 DEF Targets, WaterFill
        <3>2. n * Fx <= F * nx
            BY <1>2, <2>1, <3>1 DEF WaterFill
        <3>3. Fy * m = my * F
            BY <1>2, <1>4, <2>1, <3>1 DEF WaterFill
        <3>4. (nx * Fy) * e <= (my * Fx) * D
            BY <2>1
        <3>5. (n * Fx) * (Fy * e) <= (F * nx) * (Fy * e)
            <4>1. n * Fx \in Nat /\ F * nx \in Nat /\ Fy * e \in Nat
                OBVIOUS
            <4> QED
                BY <3>2, <4>1, ProductOrder
        <3>6. F * ((nx * Fy) * e) <= F * ((my * Fx) * D)
            <4>1. (nx * Fy) * e \in Nat /\ (my * Fx) * D \in Nat
                OBVIOUS
            <4> QED
                BY <3>4, <4>1, ProductOrder
        <3>7. PICK g \in Nat \ {0} : g = Fx * Fy
            OBVIOUS
        <3>8. (n * Fx) * (Fy * e) = g * (n * e) /\ (F * nx) * (Fy * e) = F * ((nx * Fy) * e)
            BY <3>7
        <3>9. F * ((my * Fx) * D) = (my * F) * (Fx * D) /\ (Fy * m) * (Fx * D) = g * (m * D)
            BY <3>7
        <3>10. g * (n * e) <= g * (m * D)
            <4>1. PICK i \in Int, j \in Int, k \in Int, o \in Int :
                      /\ i = g * (n * e) /\ j = F * ((nx * Fy) * e)
                      /\ k = F * ((my * Fx) * D) /\ o = g * (m * D)
                OBVIOUS
            <4>2. i <= j /\ j <= k
                BY <3>5, <3>6, <3>8, <4>1
            <4>3. k = o
                BY <3>3, <3>9, <4>1
            <4> QED
                BY <4>1, <4>2, <4>3
        <3>11. PICK i \in Int, j \in Int : i = n * e /\ j = m * D
            OBVIOUS
        <3>12. i <= j
            BY <3>7, <3>10, <3>11, Cancels
        <3> QED
            BY <2>1, <3>11, <3>12
    <2> QED
        BY <2>2, <2>3
<1> QED
    BY <1>3, <1>4

\* Names at the cap throughout are as high as can be.
LEMMA CappedIsHighest ==
    ASSUME ReconcilerAssumption, NEW f, NEW w, Outcome(w, f), NEW v, Outcome(v, f),
           \A t \in Targets(v) : AtCap(v, t)
    PROVE  NoHigher(w, v)
<1>1. SUFFICES ASSUME NEW t \in Ticker
               PROVE  w.num[t] * v.den <= v.num[t] * w.den
    BY DEF NoHigher
<1>2. Weights(w) /\ Weights(v) /\ OverCap(w) = {} /\ WaterFill(w, f) /\ WaterFill(v, f)
    BY DEF Outcome
<1>3. CASE t \in Targets(v)
    BY <1>2, <1>3, AtCapIsHighest
<1>4. CASE t \notin Targets(v)
    <2>1. v.num[t] = 0 /\ w.num[t] = 0
        BY <1>2, <1>4 DEF Targets, Weights, WaterFill
    <2>2. w.den \in Nat /\ v.den \in Nat
        BY <1>2 DEF Weights
    <2> QED
        BY <2>1, <2>2
<1> QED
    BY <1>3, <1>4

\* Of two fills, one with a name below the cap is the other if none higher.
LEMMA NoHigherFill ==
    ASSUME ReconcilerAssumption, NEW f, Weights(f), NEW w, Outcome(w, f), NEW v, Outcome(v, f),
           NoHigher(w, v), \E t \in Targets(w) : ~ AtCap(w, t)
    PROVE  SameWeights(w, v)
<1>1. Weights(w) /\ Weights(v) /\ WaterFill(w, f) /\ NoMore(v, f)
    BY DEF Outcome
<1>2. PICK t \in Targets(w) : ~ AtCap(w, t)
    OBVIOUS
<1>3. t \in Targets(f)
    BY <1>1 DEF Targets, WaterFill, Weights
<1>4. Conserved(w, f)
    BY <1>2, <1>3 DEF Outcome
<1>5. Total(v.num) * w.den <= Total(w.num) * v.den
    BY <1>1, <1>4, SumsCompare
<1> QED
    BY <1>1, <1>5, NoHigherIsSame

\* Two fills of the same weights are the same.
LEMMA FillIsUnique ==
    ASSUME ReconcilerAssumption, NEW f, Weights(f), NEW w, Outcome(w, f), NEW v, Outcome(v, f)
    PROVE  SameWeights(w, v)
<1>1. SameWeights(v, w) => SameWeights(w, v)
    BY DEF SameWeights
<1>2. Weights(w) /\ Weights(v)
    BY DEF Outcome
<1>3. CASE (\A t \in Targets(w) : AtCap(w, t)) /\ (\A t \in Targets(v) : AtCap(v, t))
    <2>1. NoHigher(w, v) /\ NoHigher(v, w)
        BY <1>3, CappedIsHighest
    <2>2. \A t \in Ticker : w.num[t] * v.den \in Int /\ v.num[t] * w.den \in Int
        BY <1>2 DEF Weights
    <2> QED
        BY <2>1, <2>2 DEF NoHigher, SameWeights
<1>4. CASE (\E t \in Targets(w) : ~ AtCap(w, t)) /\ (\A t \in Targets(v) : AtCap(v, t))
    <2>1. NoHigher(w, v)
        BY <1>4, CappedIsHighest
    <2> QED
        BY <1>4, <2>1, NoHigherFill
<1>5. CASE (\A t \in Targets(w) : AtCap(w, t)) /\ (\E t \in Targets(v) : ~ AtCap(v, t))
    <2>1. NoHigher(v, w)
        BY <1>5, CappedIsHighest
    <2> QED
        BY <1>1, <1>5, <2>1, NoHigherFill
<1>6. CASE (\E t \in Targets(w) : ~ AtCap(w, t)) /\ (\E t \in Targets(v) : ~ AtCap(v, t))
    <2>1. PICK x \in Targets(w), y \in Targets(v) : ~ AtCap(w, x) /\ ~ AtCap(v, y)
        BY <1>6
    <2>2. x \in Ticker /\ y \in Ticker
        BY DEF Targets
    <2>3. PICK i \in Int, j \in Int :
              /\ i = (w.num[x] * f.num[y]) * v.den
              /\ j = (v.num[y] * f.num[x]) * w.den
        BY <1>2, <2>2 DEF Weights
    <2>4. CASE i <= j
        <3>1. NoHigher(w, v)
            BY <2>1, <2>3, <2>4, RaisedLess
        <3> QED
            BY <1>6, <3>1, NoHigherFill
    <2>5. CASE j <= i
        <3>1. NoHigher(v, w)
            BY <2>1, <2>3, <2>5, RaisedLess
        <3> QED
            BY <1>1, <1>6, <3>1, NoHigherFill
    <2> QED
        BY <2>3, <2>4, <2>5
<1> QED
    BY <1>3, <1>4, <1>5, <1>6

\* Whatever weights have the properties that CapIsWaterFill and NoWeightLeaks
\* state, of what the floor left, are the weights the loop ends with: it does
\* not matter in what order it moves the excess.
THEOREM CapHasOneOutcome ==
    Spec => [](pc = "drift" => /\ Outcome(ws, floored)
                               /\ \A w : Outcome(w, floored) => SameWeights(w, ws))
<1> DEFINE One == pc = "drift" => /\ Outcome(ws, floored)
                                  /\ \A w : Outcome(w, floored) => SameWeights(w, ws)
<1>1. ASSUME Typed, Capping PROVE One
    <2>1. SUFFICES ASSUME pc = "drift"
                   PROVE  /\ Outcome(ws, floored)
                          /\ \A w : Outcome(w, floored) => SameWeights(w, ws)
        OBVIOUS
    <2>2. Outcome(ws, floored) /\ Weights(floored)
        BY <1>1, <2>1 DEF Capping, Typed, Sound, Outcome
    <2> QED
        BY <2>2, FillIsUnique, ReconcilerAssumption
<1> QED
    BY <1>1, ReconcilerInvariant, PTL
-----------------------------------------------------------------------------
(***************************************************************************)
(* One sleeve.                                                             *)
(***************************************************************************)

\* The deployed configuration (leopold_only_config): all is the 13F's sleeve.
OneSleeve == SleeveTrump = 0

\* A sleeve without a share of the book has no weights.
LEMMA EmptySleeve ==
    ASSUME NEW raw \in [Ticker -> Nat], NEW t \in Ticker
    PROVE  Sleeve(raw, 0).num[t] = 0
<1> DEFINE top == Top(raw)
<1> HIDE DEF top
<1>1. Sleeve(raw, 0).num = [u \in Ticker |-> IF u \in top THEN 0 * raw[u] ELSE 0]
    BY DEF Sleeve, top
<1>2. raw[t] \in Nat
    OBVIOUS
<1> QED
    BY <1>1, <1>2

\* A sleeve that has the whole book, and a name, adds up to the book.
LEMMA WholeSleeve ==
    ASSUME ReconcilerAssumption, NEW raw \in [Ticker -> Nat], NEW x \in Ticker,
           Sleeve(raw, Unit).num[x] > 0
    PROVE  Total(Sleeve(raw, Unit).num) = Sleeve(raw, Unit).den
<1> DEFINE T == Top(raw)
           total == Total([t \in T |-> raw[t]])
           g == [t \in Ticker |-> IF t \in T THEN raw[t] ELSE 0]
           n == [t \in Ticker |-> IF t \in T THEN Unit * raw[t] ELSE 0]
           d == Unit * (IF total = 0 THEN 1 ELSE total)
<1>1. T \in SUBSET Ticker /\ IsFiniteSet(Ticker) /\ Unit \in Nat \ {0}
    BY TopFact DEF ReconcilerAssumption
<1>2. Sleeve(raw, Unit) = [num |-> n, den |-> d]
    BY DEF Sleeve
<1> HIDE DEF T
<1>3. g \in [Ticker -> Nat] /\ total = Total(g)
    BY <1>1, PartTotal
<1>4. n \in [Ticker -> Nat] /\ Combination(Unit, g, 0, g, n)
    BY <1>1 DEF Combination
<1>5. d = Unit * (IF total = 0 THEN 1 ELSE total)
    OBVIOUS
<1>6. n[x] > 0 => g[x] > 0
    OBVIOUS
<1>7. n[x] > 0
    BY <1>2
<1> HIDE DEF g, n, d, total
<1>8. PICK s \in Nat : s = total /\ g[x] <= s
    BY <1>1, <1>3, TotalFact
<1>9. s > 0
    <2>1. g[x] \in Nat
        BY <1>3
    <2> QED
        BY <1>6, <1>7, <1>8, <2>1
<1>10. Total(n) = Unit * s + 0 * s
    BY <1>1, <1>3, <1>4, <1>8, TotalCombines
<1>11. d = Unit * s
    BY <1>5, <1>8, <1>9
<1> QED
    BY <1>1, <1>2, <1>10, <1>11

\* Merged with nothing, a sleeve keeps its weights.
LEMMA MergeOne ==
    ASSUME IsFiniteSet(Ticker), NEW v, NEW w, Weights(v), Weights(w),
           \A t \in Ticker : v.num[t] = 0, NEW t \in Ticker
    PROVE  /\ Weights(Merge(v, w))
           /\ Merge(v, w).num[t] * w.den = w.num[t] * Merge(v, w).den
<1> DEFINE n == [u \in Ticker |-> v.num[u] * w.den + w.num[u] * v.den]
<1>1. PICK f \in [Ticker -> Nat], h \in [Ticker -> Nat], c \in Nat \ {0}, e \in Nat \ {0} :
          f = v.num /\ h = w.num /\ c = v.den /\ e = w.den
    BY DEF Weights
<1>2. n \in [Ticker -> Nat] /\ n[t] = h[t] * c
    <2>1. \A u \in Ticker : f[u] \in Nat /\ h[u] \in Nat /\ f[u] = 0
        BY <1>1
    <2>2. \A u \in Ticker : n[u] = f[u] * e + h[u] * c
        BY <1>1
    <2>3. ASSUME NEW u \in Ticker PROVE n[u] = h[u] * c /\ n[u] \in Nat
        <3>1. PICK x \in Nat, y \in Nat : x = f[u] /\ y = h[u]
            BY <2>1
        <3>2. x * e = 0 /\ y * c \in Nat
            BY <2>1, <3>1
        <3> QED
            BY <2>2, <3>1, <3>2
    <2>4. n = [u \in Ticker |-> n[u]]
        OBVIOUS
    <2> QED
        <3> HIDE DEF n
        <3> QED
            BY <2>3, <2>4
<1>3. PICK m : m = Merge(v, w)
    OBVIOUS
<1>4. m = Vector(n, c * e)
    BY <1>1, <1>3 DEF Merge
<1> HIDE DEF n
<1>5. c * e \in Nat \ {0}
    BY <1>1
<1>6. Weights(m) /\ \E k : Scaled(k, n, c * e, m)
    BY <1>2, <1>4, <1>5, VectorFact
<1>7. PICK k \in Nat \ {0} : c * e = k * m.den /\ n[t] = k * m.num[t]
    BY <1>6 DEF Scaled
<1>8. PICK x \in Nat, y \in Nat, D \in Nat \ {0} : x = m.num[t] /\ y = h[t] /\ D = m.den
    BY <1>6 DEF Weights
<1>9. c * e = k * D /\ y * c = k * x
    BY <1>2, <1>7, <1>8
<1>10. k * (x * e) = k * (y * D)
    <2>1. k * (x * e) = (k * x) * e /\ k * (y * D) = y * (k * D) /\ (y * c) * e = y * (c * e)
        OBVIOUS
    <2> QED
        BY <1>9, <2>1
<1>11. x * e = y * D
    <2>1. PICK i \in Int, j \in Int : i = x * e /\ j = y * D
        OBVIOUS
    <2> QED
        BY <1>10, <2>1, Cancels
<1> QED
    BY <1>1, <1>3, <1>6, <1>8, <1>11

\* The floor keeps every name that is above both.
LEMMA FloorKeeps ==
    ASSUME ReconcilerAssumption, NEW w, Weights(w), NEW x \in Targets(w), AboveFloor(w, x)
    PROVE  x \in Targets(Floored(w))
<1> DEFINE kept == {t \in Targets(w) : AboveFloor(w, t)}
           left == Total([t \in kept |-> w.num[t]])
           g == [t \in Ticker |-> IF t \in kept THEN w.num[t] ELSE 0]
           n == [t \in Ticker |-> IF t \in kept THEN w.num[t] * Total(w.num) ELSE 0]
<1>1. IsFiniteSet(Ticker)
    BY DEF ReconcilerAssumption
<1>2. PICK f \in [Ticker -> Nat], D \in Nat \ {0}, T \in Nat :
          f = w.num /\ D = w.den /\ T = Total(w.num) /\ \A t \in Ticker : f[t] <= T
    BY <1>1, TotalFact DEF Weights
<1>3. Floored(w) = IF left = 0 THEN Nothing ELSE Vector(n, w.den * left)
    BY DEF Floored
<1>4. kept \in SUBSET Ticker /\ x \in kept /\ x \in Ticker /\ f[x] > 0
    BY <1>2 DEF Targets
<1> HIDE DEF kept
<1>5. g \in [Ticker -> Nat] /\ left = Total(g) /\ g[x] = f[x]
    BY <1>1, <1>2, <1>4, PartTotal
<1>6. n \in [Ticker -> Nat] /\ n[x] = f[x] * T
    BY <1>2, <1>4
<1> HIDE DEF g, n, left
<1>7. PICK L \in Nat : L = left /\ f[x] <= L
    <2>1. Total(g) \in Nat /\ \A t \in Ticker : g[t] <= Total(g)
        BY <1>1, <1>5, TotalFact
    <2>2. g[x] <= Total(g)
        BY <1>4, <2>1
    <2> QED
        BY <1>5, <2>1, <2>2
<1>8. PICK y \in Nat \ {0} : y = f[x]
    BY <1>4
<1>9. T > 0 /\ L > 0
    BY <1>2, <1>4, <1>7, <1>8
<1>10. n[x] # 0
    BY <1>6, <1>8, <1>9
<1>11. PICK v : v = Vector(n, D * L)
    OBVIOUS
<1>12. Floored(w) = v
    BY <1>2, <1>3, <1>7, <1>9, <1>11
<1>13. D * L \in Nat \ {0}
    BY <1>9
<1>14. Weights(v) /\ \E k : Scaled(k, n, D * L, v)
    BY <1>1, <1>6, <1>11, <1>13, VectorFact
<1>15. v.num[x] # 0
    BY <1>1, <1>4, <1>6, <1>10, <1>13, <1>14, ScaledTotal
<1> QED
    BY <1>4, <1>12, <1>14, <1>15 DEF Targets, Weights

\* A name above the floor of the one sleeve is above that of the book.
LEMMA OneSleeveFloor ==
    ASSUME ReconcilerAssumption, OneSleeve, equity \in Nat, NEW w, Weights(w), NEW m, Weights(m),
           NEW x \in Ticker, m.num[x] * w.den = w.num[x] * m.den,
           w.num[x] > 0, w.num[x] * Unit >= FloorPct * w.den,
           w.num[x] * equity >= FloorUsd * w.den
    PROVE  x \in Targets(m) /\ AboveFloor(m, x)
<1>1. PICK p \in Nat, q \in Nat, D \in Nat \ {0}, e \in Nat \ {0} :
          p = m.num[x] /\ q = w.num[x] /\ D = w.den /\ e = m.den
    BY DEF Weights
<1>2. PICK U \in Nat \ {0}, F \in Nat, S \in Nat, V \in Nat :
          U = Unit /\ F = FloorPct /\ S = FloorUsd /\ V = equity
    BY DEF ReconcilerAssumption
<1>3. p * D = q * e /\ q > 0 /\ q * U >= F * D /\ q * V >= S * D
    BY <1>1, <1>2
<1>4. p # 0
    <2>1. SUFFICES ASSUME p = 0 PROVE FALSE
        OBVIOUS
    <2>2. q * e = 0
        BY <1>3, <2>1
    <2> QED
        BY <1>3, <2>2
<1>5. ASSUME NEW b \in Nat, NEW c \in Nat, q * b >= c * D PROVE p * b >= c * e
    <2>1. PICK i \in Int, j \in Int, k \in Int, l \in Int :
              i = p * b /\ j = c * e /\ k = q * b /\ l = c * D
        OBVIOUS
    <2>2. e * l <= e * k
        BY <1>5, <2>1, Cancels
    <2>3. D * i = e * k
        <3>1. D * i = (p * D) * b /\ e * k = (q * e) * b
            BY <2>1
        <3> QED
            BY <1>3, <3>1
    <2>4. D * j = e * l
        BY <2>1
    <2>5. D * j <= D * i
        BY <2>2, <2>3, <2>4
    <2>6. j <= i
        BY <2>1, <2>5, Cancels
    <2> QED
        BY <2>1, <2>6
<1>6. p * U >= F * e /\ p * V >= S * e
    BY <1>3, <1>5
<1>7. p * U * U >= F * U * e
    <2>1. PICK i \in Int, j \in Int : i = p * U /\ j = F * e
        OBVIOUS
    <2>2. U * j <= U * i
        BY <1>6, <2>1, Cancels
    <2>3. p * U * U = U * i /\ F * U * e = U * j
        BY <2>1
    <2> QED
        BY <2>2, <2>3
<1>8. SleeveTrump + SleeveLeopold = U
    BY <1>2 DEF ReconcilerAssumption
<1> QED
    BY <1>1, <1>2, <1>4, <1>6, <1>7, <1>8 DEF Targets, AboveFloor

\* Of the deployed configuration, what the test of the floor says is true
\* ("sleeve-relative floor", test_reconciler.py): a selected name with the
\* floor's part of its own sleeve, and the floor's amount, is kept.
THEOREM FloorIsOfTheSleeve == OneSleeve => (Spec => []SleeveFloorHonoured)
<1> SUFFICES ASSUME OneSleeve PROVE Spec => []SleeveFloorHonoured
    OBVIOUS
<1>1. ReconcilerAssumption
    BY ReconcilerAssumption
<1>2. SleeveTrump = 0 /\ SleeveLeopold = Unit
    BY <1>1 DEF OneSleeve, ReconcilerAssumption
<1>3. Typed /\ Capping /\ Settling => SleeveFloorHonoured
    <2>1. SUFFICES ASSUME Typed, Capping, Settling, pc = "drift", NEW x \in Ticker,
                          NEW side \in {Sleeve(trump, 0), Sleeve(leopold, Unit)},
                          side.num[x] > 0,
                          side.num[x] * Unit >= FloorPct * Total(side.num),
                          side.num[x] * equity >= FloorUsd * side.den
                   PROVE  x \in Targets(ws)
        BY <1>2 DEF SleeveFloorHonoured
    <2>2. trump \in [Ticker -> Nat] /\ leopold \in [Ticker -> Nat] /\ equity \in Nat
        BY <1>1, <2>1 DEF Typed, ReconcilerAssumption
    <2>3. PICK v, w, m : v = Sleeve(trump, 0) /\ w = Sleeve(leopold, Unit) /\ m = Merge(v, w)
        OBVIOUS
    <2>4. \A t \in Ticker : v.num[t] = 0
        BY <2>2, <2>3, EmptySleeve
    <2>5. side = w
        BY <2>1, <2>3, <2>4
    <2>6. Weights(v) /\ Weights(w)
        <3>1. 0 \in Nat /\ Unit \in Nat
            BY <1>1 DEF ReconcilerAssumption
        <3> QED
            BY <1>1, <2>2, <2>3, <3>1, SleeveFact
    <2>7. Total(w.num) = w.den
        BY <1>1, <2>1, <2>2, <2>3, <2>5, WholeSleeve
    <2>8. IsFiniteSet(Ticker)
        BY <1>1 DEF ReconcilerAssumption
    <2>9. Weights(m) /\ m.num[x] * w.den = w.num[x] * m.den
        BY <2>3, <2>4, <2>6, <2>8, MergeOne
    <2>10. w.num[x] > 0 /\ w.num[x] * Unit >= FloorPct * w.den
           /\ w.num[x] * equity >= FloorUsd * w.den
        BY <2>1, <2>5, <2>7
    <2>11. x \in Targets(m) /\ AboveFloor(m, x)
        BY <1>1, <2>2, <2>6, <2>9, <2>10, OneSleeveFloor
    <2>12. x \in Targets(Floored(m))
        BY <1>1, <2>9, <2>11, FloorKeeps
    <2>13. floored = Floored(m)
        BY <1>2, <2>1, <2>3 DEF Settling, Sleeves
    <2>14. WaterFill(ws, floored) /\ Weights(ws)
        BY <2>1 DEF Capping, Typed, Sound
    <2> QED
        BY <2>12, <2>13, <2>14 DEF WaterFill, Targets, Weights
<1>4. Init => Settling
    BY DEF Init, Settling
<1>5. Typed /\ Capping /\ Settling /\ [Next]_vars => Settling'
    BY <1>1, SettlingStep
<1> QED
    BY <1>3, <1>4, <1>5, ReconcilerInvariant, PTL DEF Spec

=============================================================================

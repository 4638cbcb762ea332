--------------------------- MODULE NumeralsProofs ---------------------------
(***************************************************************************)
(* Numbers to a base and their digits, for any base.                       *)
(***************************************************************************)
EXTENDS Numerals, TLAPS, WellFoundedInduction

-----------------------------------------------------------------------------
(* Induction and recursion over the natural numbers, with sets and         *)
(* functions in the place of predicates and operators.                     *)

LEMMA LeastNumber ==
    ASSUME NEW T, T \subseteq Nat, T # {}
    PROVE  \E n \in T : \A m \in T : n <= m
<1>1. PICK R : /\ IsWellFoundedOn(R, Nat)
               /\ \A m, n \in Nat : m < n => <<m, n>> \in R
  <2>1. IsWellFoundedOn({mn \in Nat \X Nat : mn[1] < mn[2]}, Nat)
    BY NatLessThanWellFounded DEF OpToRel
  <2>2. \A m, n \in Nat : m < n => <<m, n>> \in {mn \in Nat \X Nat : mn[1] < mn[2]}
    OBVIOUS
  <2>. QED
    BY <2>1, <2>2
<1>2. IsWellFoundedOn(R, Nat)
  BY <1>1
<1>3. PICK n \in T : \A m \in T : ~ (<<m, n>> \in R)
  BY <1>2, WFMin, Zenon
<1>4. \A m \in T : n \in Nat /\ m \in Nat /\ ~ (m < n)
  BY <1>1, <1>3
<1>5. \A m \in T : n <= m
  BY <1>4
<1>. QED
  BY <1>5

(* A set that has 0 and with each number the next one has all of them.     *)
LEMMA AllNumbers ==
    ASSUME NEW T, 0 \in T, \A n \in Nat : n \in T => n + 1 \in T
    PROVE  Nat \subseteq T
<1>. SUFFICES ASSUME ~ (Nat \subseteq T)
              PROVE  FALSE
  OBVIOUS
<1>. DEFINE U == Nat \ T
<1>1. U \subseteq Nat /\ U # {}
  OBVIOUS
<1>2. PICK n \in U : \A m \in U : n <= m
  <2>. HIDE DEF U
  <2>. QED
    BY <1>1, LeastNumber
<1>3. n \in Nat /\ n # 0 /\ n \notin T
  OBVIOUS
<1>4. n - 1 \in Nat /\ n - 1 \notin U
  BY <1>2, <1>3
<1>5. n - 1 \in T
  BY <1>4
<1>6. (n - 1) + 1 \in T
  BY <1>4, <1>5
<1>. QED
  BY <1>3, <1>6

(* f has the first n values of the recursion from x through the functions  *)
(* F[1], F[2], ...                                                         *)
Approximates(f, n, X, x, F) ==
    /\ f \in [0 .. n -> X]
    /\ f[0] = x
    /\ \A k \in 1 .. n : f[k] = F[k][f[k - 1]]

Recurs(f, X, x, F) ==
    /\ f \in [Nat -> X]
    /\ f[0] = x
    /\ \A n \in Nat : f[n + 1] = F[n + 1][f[n]]

LEMMA Approximation ==
    ASSUME NEW X, NEW x \in X, NEW F \in [Nat -> [X -> X]], NEW n \in Nat
    PROVE  \E f : Approximates(f, n, X, x, F)
<1>. DEFINE T == {i \in Nat : \E f : Approximates(f, i, X, x, F)}
<1>1. 0 \in T
  <2>. DEFINE f == [k \in 0 .. 0 |-> x]
  <2>1. f \in [0 .. 0 -> X] /\ f[0] = x /\ \A k \in 1 .. 0 : f[k] = F[k][f[k - 1]]
    OBVIOUS
  <2>. QED
    BY <2>1 DEF Approximates
<1>2. ASSUME NEW i \in Nat, i \in T
      PROVE  i + 1 \in T
  <2>1. PICK f : Approximates(f, i, X, x, F)
    BY <1>2
  <2>. DEFINE g == [k \in 0 .. i + 1 |-> IF k = i + 1 THEN F[i + 1][f[i]] ELSE f[k]]
  <2>2. f[i] \in X /\ F[i + 1] \in [X -> X]
    BY <2>1 DEF Approximates
  <2>3. g \in [0 .. i + 1 -> X]
    BY <2>1, <2>2 DEF Approximates
  <2>4. g[0] = x
    BY <2>1 DEF Approximates
  <2>5. ASSUME NEW k \in 1 .. i + 1
        PROVE  g[k] = F[k][g[k - 1]]
    <3>1. CASE k = i + 1
      BY <3>1
    <3>2. CASE k # i + 1
      <4>1. k \in 1 .. i /\ k \in 0 .. i + 1 /\ k - 1 \in 0 .. i + 1 /\ k - 1 # i + 1
        BY <3>2
      <4>. QED
        BY <3>2, <4>1, <2>1 DEF Approximates
    <3>. QED
      BY <3>1, <3>2
  <2>. HIDE DEF g
  <2>6. Approximates(g, i + 1, X, x, F)
    BY <2>3, <2>4, <2>5 DEF Approximates
  <2>. QED
    BY <2>6
<1>3. n \in T
  <2>. HIDE DEF T
  <2>. QED
    BY <1>1, <1>2, AllNumbers
<1>. QED
  BY <1>3

LEMMA ApproximationsAgree ==
    ASSUME NEW X, NEW x, NEW F,
           NEW f, NEW m \in Nat, Approximates(f, m, X, x, F),
           NEW g, NEW n \in Nat, Approximates(g, n, X, x, F),
           NEW i \in Nat, i <= m, i <= n
    PROVE  f[i] = g[i]
<1>. DEFINE T == {k \in Nat : k <= m /\ k <= n => f[k] = g[k]}
<1>1. 0 \in T
  BY DEF Approximates
<1>2. ASSUME NEW k \in Nat, k \in T
      PROVE  k + 1 \in T
  <2>. SUFFICES ASSUME k + 1 <= m, k + 1 <= n
                PROVE  f[k + 1] = g[k + 1]
    OBVIOUS
  <2>1. k <= m /\ k <= n /\ (k + 1) - 1 = k /\ k + 1 \in 1 .. m /\ k + 1 \in 1 .. n
    OBVIOUS
  <2>2. f[k] = g[k]
    BY <1>2, <2>1
  <2>. QED
    BY <2>1, <2>2 DEF Approximates
<1>3. i \in T
  <2>. HIDE DEF T
  <2>. QED
    BY <1>1, <1>2, AllNumbers
<1>. QED
  BY <1>3

(* Primitive recursion defines a function.                                 *)
LEMMA Recursion ==
    ASSUME NEW X, NEW x \in X, NEW F \in [Nat -> [X -> X]]
    PROVE  \E f : Recurs(f, X, x, F)
<1>. DEFINE a == [n \in Nat |-> CHOOSE g : Approximates(g, n, X, x, F)]
            f == [n \in Nat |-> a[n][n]]
<1>1. ASSUME NEW n \in Nat
      PROVE  Approximates(a[n], n, X, x, F)
  <2>1. \E g : Approximates(g, n, X, x, F)
    BY Approximation, Zenon
  <2>. QED
    BY <2>1
<1>2. f = [n \in Nat |-> a[n][n]]
  OBVIOUS
<1>. HIDE DEF a, f
<1>3. f \in [Nat -> X]
  <2>1. ASSUME NEW n \in Nat
        PROVE  a[n][n] \in X
    <3>1. a[n] \in [0 .. n -> X]
      BY <1>1 DEF Approximates
    <3>2. n \in 0 .. n
      OBVIOUS
    <3>. QED
      BY <3>1, <3>2
  <2>. QED
    BY <1>2, <2>1
<1>4. f[0] = x
  BY <1>1, <1>2 DEF Approximates
<1>5. ASSUME NEW n \in Nat
      PROVE  f[n + 1] = F[n + 1][f[n]]
  <2>1. n + 1 \in Nat /\ n <= n + 1 /\ n <= n
    OBVIOUS
  <2>2. Approximates(a[n + 1], n + 1, X, x, F) /\ Approximates(a[n], n, X, x, F)
    BY <1>1, <2>1, Zenon
  <2>3. a[n + 1][n + 1] = F[n + 1][a[n + 1][n]]
    <3>1. n + 1 \in 1 .. n + 1 /\ (n + 1) - 1 = n
      OBVIOUS
    <3>. QED
      BY <2>2, <3>1 DEF Approximates
  <2>4. a[n + 1][n] = a[n][n]
    BY ONLY n \in Nat, <2>1, <2>2, ApproximationsAgree
  <2>. QED
    BY <1>2, <2>1, <2>3, <2>4
<1>. QED
  BY <1>3, <1>4, <1>5 DEF Recurs

-----------------------------------------------------------------------------
(* Powers.                                                                 *)

LEMMA PowerIsRecursive ==
    ASSUME ByteValues \in Nat
    PROVE  /\ Power \in [Nat -> Nat]
           /\ Power[0] = 1
           /\ \A n \in Nat : Power[n + 1] = ByteValues * Power[n]
<1>. DEFINE F == [n \in Nat |-> [v \in Nat |-> ByteValues * v]]
<1>1. F \in [Nat -> [Nat -> Nat]] /\ 1 \in Nat
  OBVIOUS
<1>2. \E f : Recurs(f, Nat, 1, F)
  <2>. HIDE DEF F
  <2>. QED
    BY <1>1, Recursion, Zenon
<1>3. PICK f : f = [n \in Nat |-> IF n = 0 THEN 1 ELSE ByteValues * f[n - 1]]
  <2>1. PICK f : Recurs(f, Nat, 1, F)
    BY <1>2
  <2>2. ASSUME NEW n \in Nat
        PROVE  f[n] = IF n = 0 THEN 1 ELSE ByteValues * f[n - 1]
    <3>1. CASE n = 0
      BY <2>1, <3>1 DEF Recurs
    <3>2. CASE n # 0
      <4>1. n - 1 \in Nat /\ (n - 1) + 1 = n
        BY <3>2
      <4>2. f[n] = F[n][f[n - 1]] /\ f[n - 1] \in Nat
        BY <2>1, <4>1 DEF Recurs
      <4>. QED
        BY <3>2, <4>2
    <3>. QED
      BY <3>1, <3>2
  <2>3. f = [n \in Nat |-> f[n]]
    BY <2>1 DEF Recurs
  <2>4. f = [n \in Nat |-> IF n = 0 THEN 1 ELSE ByteValues * f[n - 1]]
    BY <2>2, <2>3
  <2>. QED
    BY <2>4
<1>4. Power = [n \in Nat |-> IF n = 0 THEN 1 ELSE ByteValues * Power[n - 1]]
  BY <1>3, Zenon DEF Power
<1>5. \A n \in Nat : Power[n + 1] = ByteValues * Power[n]
  <2>. SUFFICES ASSUME NEW n \in Nat PROVE Power[n + 1] = ByteValues * Power[n]
    OBVIOUS
  <2>1. n + 1 \in Nat /\ n + 1 # 0 /\ (n + 1) - 1 = n
    OBVIOUS
  <2>. QED
    BY <1>4, <2>1
<1>6. Power[0] = 1
  BY <1>4
<1>7. \A n \in Nat : Power[n] \in Nat
  <2>. DEFINE T == {n \in Nat : Power[n] \in Nat}
  <2>1. 0 \in T
    BY <1>6
  <2>2. \A n \in Nat : n \in T => n + 1 \in T
    BY <1>5
  <2>3. Nat \subseteq T
    <3>. HIDE DEF T
    <3>. QED
      BY <2>1, <2>2, AllNumbers
  <2>. QED
    BY <2>3
<1>. QED
  BY <1>4, <1>5, <1>6, <1>7

(***************************************************************************)
(* Division with remainder.                                                *)
(***************************************************************************)
LEMMA Division ==
    ASSUME NEW u \in Int, NEW b \in Nat \ {0}
    PROVE  u \div b \in Int /\ u % b \in 0 .. b - 1 /\ u = b * (u \div b) + (u % b)
<1>. DEFINE p == b * (u \div b)
<1>1. u \div b \in Int /\ u % b \in 0 .. b - 1
  OBVIOUS
<1>2. u % b = u - p
  OBVIOUS
<1>3. p \in Int
  BY <1>1
<1>4. u = p + (u % b)
  <2>. HIDE DEF p
  <2>. QED
    BY <1>1, <1>2, <1>3
<1>. QED
  BY <1>1, <1>4

LEMMA DivisionIsUnique ==
    ASSUME NEW b \in Nat \ {0}, NEW q \in Int, NEW r \in 0 .. b - 1
    PROVE  (b * q + r) \div b = q /\ (b * q + r) % b = r
OBVIOUS

(* A number below b has no multiple of b in it.                            *)
LEMMA SmallDivision ==
    ASSUME NEW b \in Nat \ {0}, NEW r \in 0 .. b - 1
    PROVE  r \div b = 0 /\ r % b = r
OBVIOUS

(* Adding multiples does not change the remainder.                         *)
LEMMA Shifted ==
    ASSUME NEW b \in Nat \ {0}, NEW u \in Int, NEW q \in Int
    PROVE  (u + b * q) % b = u % b
<1>. DEFINE p == u \div b
            r == u % b
<1>1. p \in Int /\ r \in 0 .. b - 1 /\ u = b * p + r
  BY Division
<1>. HIDE DEF p, r
<1>2. p + q \in Int
  BY <1>1
<1>3. (b * (p + q) + r) % b = r
  BY ONLY <1>1, <1>2, DivisionIsUnique
<1>4. u + b * q = b * (p + q) + r
  <2>1. b * (p + q) = b * p + b * q
    BY <1>1
  <2>2. b * p \in Int /\ b * q \in Int /\ b * (p + q) \in Int /\ r \in Int
    BY <1>1, <1>2
  <2>. QED
    BY <1>1, <2>1, <2>2
<1>. QED
  BY <1>3, <1>4 DEF r

LEMMA Congruence ==
    ASSUME NEW b \in Nat \ {0}, NEW u \in Int, NEW v \in Int
    PROVE  (u - v) % b = 0 <=> u % b = v % b
<1>. DEFINE p == u \div b
            r == u % b
            q == v \div b
            s == v % b
            t == (u - v) \div b
<1>1. /\ p \in Int /\ r \in 0 .. b - 1 /\ u = b * p + r
      /\ q \in Int /\ s \in 0 .. b - 1 /\ v = b * q + s
  BY Division
<1>2. ASSUME r = s PROVE (u - v) % b = 0
  <2>. HIDE DEF p, q, r, s
  <2>1. p - q \in Int /\ 0 \in 0 .. b - 1
    BY <1>1
  <2>2. (b * (p - q) + 0) % b = 0
    BY ONLY <2>1, DivisionIsUnique
  <2>3. b * (p - q) = b * p - b * q
    BY <1>1
  <2>4. b * p \in Int /\ b * q \in Int /\ b * (p - q) \in Int
    BY <1>1
  <2>5. u - v = b * (p - q) + 0
    BY <1>1, <1>2, <2>3, <2>4
  <2>. QED
    BY <2>2, <2>5
<1>3. ASSUME (u - v) % b = 0 PROVE r = s
  <2>1. u - v \in Int
    OBVIOUS
  <2>2. t \in Int /\ u - v = b * t + 0
    BY <1>3, <2>1, Division
  <2>. HIDE DEF t
  <2>3. u = v + b * t
    BY <2>2
  <2>4. (v + b * t) % b = v % b
    BY ONLY <2>2, Shifted
  <2>. QED
    BY <2>3, <2>4
<1>. QED
  BY <1>2, <1>3

(* The remainder tells numbers less than b apart.                          *)
LEMMA ResiduesDiffer ==
    ASSUME NEW b \in Nat \ {0}, NEW u \in Int, NEW v \in Int,
           u % b = v % b, u - v < b, v - u < b
    PROVE  u = v
<1>. DEFINE p == u \div b
            r == u % b
            q == v \div b
<1>1. /\ p \in Int /\ r \in 0 .. b - 1 /\ u = b * p + r
      /\ q \in Int /\ v = b * q + r
  BY Division
<1>. HIDE DEF p, q, r
<1>2. u - v = b * (p - q) /\ v - u = b * (q - p)
  <2>1. b * (p - q) = b * p - b * q /\ b * (q - p) = b * q - b * p
    BY <1>1
  <2>2. b * p \in Int /\ b * q \in Int /\ b * (p - q) \in Int /\ b * (q - p) \in Int
    BY <1>1
  <2>. QED
    BY <1>1, <2>1, <2>2
<1>3. ASSUME NEW n \in Int, n >= 1 PROVE b * n >= b
  BY <1>3
<1>4. p - q \in Int /\ q - p \in Int
  BY <1>1
<1>5. ~ (p - q >= 1) /\ ~ (q - p >= 1)
  <2>1. b * (p - q) \in Int /\ b * (q - p) \in Int
    BY <1>4
  <2>. QED
    BY <1>2, <1>3, <1>4, <2>1
<1>6. p = q
  BY <1>1, <1>5
<1>. QED
  BY <1>1, <1>6

-----------------------------------------------------------------------------
(* Powers and digits.                                                      *)

LEMMA PowerProperties ==
    ASSUME NEW n \in Nat
    PROVE  /\ Power[n] \in Nat \ {0}
           /\ Power[n + 1] = ByteValues * Power[n]
           /\ Power[n] <= Power[n + 1]
           /\ n # 0 => Power[n] = 2 * (Power[n] \div 2) /\ Power[n] \div 2 \in Nat \ {0}
<1>. USE NumeralsAssumption
<1>. DEFINE T == {k \in Nat : Power[k] > 0}
<1>1. \A k \in Nat : Power[k] \in Nat /\ Power[k + 1] = ByteValues * Power[k]
  BY PowerIsRecursive
<1>2. 0 \in T
  BY PowerIsRecursive
<1>3. ASSUME NEW k \in Nat, k \in T PROVE k + 1 \in T
  <2>1. ByteValues * Power[k] > 0
    BY <1>1, <1>3
  <2>. QED
    BY <1>1, <2>1
<1>4. Nat \subseteq T
  <2>. HIDE DEF T
  <2>. QED
    BY <1>2, <1>3, AllNumbers
<1>5. \A k \in Nat : Power[k] \in Nat \ {0}
  BY <1>1, <1>4
<1>6. Power[n] <= Power[n + 1]
  <2>. DEFINE p == Power[n]
  <2>1. p \in Nat \ {0} /\ Power[n + 1] = ByteValues * p
    BY <1>1, <1>5
  <2>. HIDE DEF p
  <2>2. p <= ByteValues * p
    BY <2>1
  <2>. QED
    BY <2>1, <2>2 DEF p
<1>7. ASSUME n # 0
      PROVE  Power[n] = 2 * (Power[n] \div 2) /\ Power[n] \div 2 \in Nat \ {0}
  <2>1. n - 1 \in Nat /\ (n - 1) + 1 = n
    BY <1>7
  <2>2. Power[n] = ByteValues * Power[n - 1]
    BY <1>1, <2>1
  <2>3. ByteValues = 2 * (ByteValues \div 2) /\ ByteValues \div 2 \in Int
    OBVIOUS
  <2>. DEFINE h == (ByteValues \div 2) * Power[n - 1]
  <2>4. h \in Int /\ Power[n] = 2 * h
    BY <1>1, <2>1, <2>2, <2>3
  <2>. HIDE DEF h
  <2>5. Power[n] \div 2 = h
    BY <2>4
  <2>. QED
    BY <1>5, <2>4, <2>5
<1>. QED
  BY <1>1, <1>5, <1>6, <1>7

LEMMA PowerMonotonic ==
    ASSUME NEW m \in Nat, NEW n \in Nat, m <= n
    PROVE  Power[m] <= Power[n]
<1>. DEFINE T == {k \in Nat : m <= k => Power[m] <= Power[k]}
<1>1. 0 \in T
  <2>1. m <= 0 => m = 0
    OBVIOUS
  <2>. QED
    BY <2>1, PowerProperties
<1>2. ASSUME NEW k \in Nat, k \in T PROVE k + 1 \in T
  <2>1. CASE m <= k
    BY <1>2, <2>1, PowerProperties
  <2>2. CASE ~ (m <= k)
    <3>1. m <= k + 1 => m = k + 1
      BY <2>2
    <3>. QED
      BY <3>1, PowerProperties
  <2>. QED
    BY <2>1, <2>2
<1>3. n \in T
  <2>. HIDE DEF T
  <2>. QED
    BY <1>1, <1>2, AllNumbers
<1>. QED
  BY <1>3

LEMMA DigitIsByte ==
    ASSUME NEW v \in Int, NEW k \in Nat
    PROVE  Digit(v, k) \in Bytes
<1>1. Power[k] \in Nat \ {0}
  BY PowerProperties
<1>2. v \div Power[k] \in Int
  BY <1>1
<1>. QED
  BY <1>2, NumeralsAssumption DEF Digit, Bytes

(* What is below the digit n + 1: digit n, and what is below it.           *)
LEMMA NextDigit ==
    ASSUME NEW v \in Int, NEW n \in Nat
    PROVE  v % Power[n + 1] = Power[n] * Digit(v, n) + (v % Power[n])
<1>. DEFINE p == Power[n]
            q == v \div p
            r == v % p
            b == ByteValues
            d == q % b
            s == q \div b
<1>1. p \in Nat \ {0} /\ b \in Nat \ {0} /\ Power[n + 1] = b * p
  BY PowerProperties, NumeralsAssumption
<1>2. Digit(v, n) = d
  BY DEF Digit
<1>. HIDE DEF p, b
<1>3. q \in Int /\ r \in 0 .. p - 1 /\ v = p * q + r
  BY <1>1, Division
<1>. HIDE DEF q, r
<1>4. s \in Int /\ d \in 0 .. b - 1 /\ q = b * s + d
  BY <1>1, <1>3, Division
<1>. HIDE DEF s, d
<1>5. v = (b * p) * s + (p * d + r)
  <2>1. v = p * (b * s + d) + r
    BY <1>3, <1>4
  <2>2. p * (b * s + d) = (b * p) * s + p * d
    BY ONLY <1>1, <1>4
  <2>3. (b * p) * s \in Int /\ p * d \in Int /\ r \in Int
    BY <1>1, <1>3, <1>4
  <2>. QED
    BY <2>1, <2>2, <2>3
<1>6. p * d + r \in 0 .. b * p - 1
  <2>1. p * d >= 0 /\ p * d <= p * (b - 1)
    BY ONLY <1>1, <1>4
  <2>2. p * (b - 1) = b * p - p
    BY ONLY <1>1
  <2>3. p * d \in Int /\ b * p \in Int
    BY <1>1, <1>4
  <2>. QED
    BY <1>1, <1>3, <2>1, <2>2, <2>3
<1>7. b * p \in Nat \ {0}
  BY <1>1
<1>8. v % (b * p) = p * d + r
  <2>. DEFINE m == b * p
              t == p * d + r
  <2>1. m \in Nat \ {0} /\ t \in 0 .. m - 1 /\ v = m * s + t
    BY <1>5, <1>6, <1>7
  <2>. HIDE DEF m, t
  <2>2. v % m = t
    BY <2>1, <1>4, DivisionIsUnique
  <2>. QED
    BY <2>2 DEF m, t
<1>. QED
  BY <1>1, <1>2, <1>8 DEF p, r, b

(* Numbers have the same n digits if they are congruent modulo Power[n].   *)
LEMMA DigitsDetermine ==
    ASSUME NEW n \in Nat, NEW u \in Int, NEW v \in Int
    PROVE  (\A k \in 0 .. n - 1 : Digit(u, k) = Digit(v, k)) <=> u % Power[n] = v % Power[n]
<1>. DEFINE Same(i, x, y) == \A k \in 0 .. i - 1 : Digit(x, k) = Digit(y, k)
            T == {i \in Nat : \A x, y \in Int : Same(i, x, y) <=> x % Power[i] = y % Power[i]}
<1>1. 0 \in T
  <2>1. Power[0] = 1
    BY PowerIsRecursive, NumeralsAssumption
  <2>2. \A x \in Int : x % 1 = 0
    OBVIOUS
  <2>3. \A x, y \in Int : Same(0, x, y)
    OBVIOUS
  <2>. QED
    BY <2>1, <2>2, <2>3
<1>2. ASSUME NEW i \in Nat, i \in T
      PROVE  i + 1 \in T
  <2>. SUFFICES ASSUME NEW x \in Int, NEW y \in Int
                PROVE  Same(i + 1, x, y) <=> x % Power[i + 1] = y % Power[i + 1]
    OBVIOUS
  <2>1. Same(i, x, y) <=> x % Power[i] = y % Power[i]
    BY <1>2
  <2>2. Same(i + 1, x, y) <=> Same(i, x, y) /\ Digit(x, i) = Digit(y, i)
    <3>1. \A k \in Int : k \in 0 .. (i + 1) - 1 <=> k \in 0 .. i - 1 \/ k = i
      OBVIOUS
    <3>. QED
      BY <3>1
  <2>. HIDE DEF Same
  <2>. DEFINE p == Power[i]
              d == Digit(x, i)
              e == Digit(y, i)
              r == x % p
              s == y % p
  <2>3. p \in Nat \ {0}
    BY PowerProperties
  <2>4. r \in 0 .. p - 1 /\ s \in 0 .. p - 1
    BY <2>3
  <2>5. d \in Int /\ e \in Int
    BY DigitIsByte, NumeralsAssumption DEF Bytes
  <2>6. x % Power[i + 1] = p * d + r /\ y % Power[i + 1] = p * e + s
    BY NextDigit
  <2>. HIDE DEF p, d, e, r, s
  <2>7. p * d + r = p * e + s <=> d = e /\ r = s
    <3>1. (p * d + r) \div p = d /\ (p * d + r) % p = r
      BY <2>3, <2>4, <2>5, DivisionIsUnique
    <3>2. (p * e + s) \div p = e /\ (p * e + s) % p = s
      BY <2>3, <2>4, <2>5, DivisionIsUnique
    <3>. QED
      BY <3>1, <3>2
  <2>. QED
    BY <2>1, <2>2, <2>6, <2>7 DEF p, d, e, r, s
<1>3. n \in T
  <2>. HIDE DEF T
  <2>. QED
    BY <1>1, <1>2, AllNumbers
<1>. QED
  BY <1>3

(* One more digit in front of a number.                                    *)
LEMMA DigitInFront ==
    ASSUME NEW n \in Nat, NEW v \in 0 .. Power[n] - 1, NEW d \in Bytes
    PROVE  /\ Power[n] * d + v \in 0 .. Power[n + 1] - 1
           /\ Digit(Power[n] * d + v, n) = d
           /\ \A k \in 0 .. n - 1 : Digit(Power[n] * d + v, k) = Digit(v, k)
<1>. DEFINE p == Power[n]
            w == p * d + v
<1>1. p \in Nat \ {0} /\ Power[n + 1] = ByteValues * p
  BY PowerProperties
<1>2. d \in 0 .. ByteValues - 1 /\ ByteValues \in Nat \ {0} /\ v \in 0 .. p - 1 /\ v \in Int
  BY <1>1, NumeralsAssumption DEF Bytes
<1>. HIDE DEF p
<1>3. w \in Int /\ w \div p = d /\ w % p = v
  <2>1. d \in Int /\ p \in Int /\ p * d \in Int /\ w \in Int
    BY <1>1, <1>2
  <2>2. (p * d + v) \div p = d /\ (p * d + v) % p = v
    BY <1>1, <1>2, <2>1, DivisionIsUnique
  <2>. QED
    BY <2>1, <2>2
<1>4. v % p = v /\ d % ByteValues = d
  BY <1>1, <1>2, SmallDivision
<1>5. w \in 0 .. Power[n + 1] - 1
  <2>1. p * d >= 0 /\ p * d <= p * (ByteValues - 1)
    BY <1>1, <1>2
  <2>2. p * (ByteValues - 1) = ByteValues * p - p
    BY <1>1, <1>2
  <2>3. p * d \in Int /\ ByteValues * p \in Int
    BY <1>1, <1>2
  <2>. QED
    BY <1>1, <1>2, <2>1, <2>2, <2>3
<1>. HIDE DEF w
<1>6. Digit(w, n) = d
  BY <1>3, <1>4 DEF Digit, p
<1>7. \A k \in 0 .. n - 1 : Digit(w, k) = Digit(v, k)
  <2>1. w % Power[n] = v % Power[n]
    BY <1>3, <1>4 DEF p
  <2>. QED
    BY <1>2, <1>3, <2>1, DigitsDetermine
<1>. QED
  BY <1>5, <1>6, <1>7 DEF w, p

-----------------------------------------------------------------------------
(* to_bytes and from_bytes.                                                *)

LEMMA ToBytesProperties ==
    ASSUME NEW v \in Int, NEW n \in Nat
    PROVE  /\ ToBytes(v, n) \in [1 .. n -> Bytes]
           /\ ToBytes(v, n) \in Seq(Bytes)
           /\ Len(ToBytes(v, n)) = n
<1>1. \A k \in 1 .. n : n - k \in Nat /\ k - 1 \in Nat
  OBVIOUS
<1>2. ToBytes(v, n) \in [1 .. n -> Bytes]
  BY <1>1, DigitIsByte DEF ToBytes
<1>3. ToBytes(v, n) \in Seq(Bytes)
  BY <1>2
<1>4. Len(ToBytes(v, n)) = n
  BY <1>2
<1>. QED
  BY <1>2, <1>3, <1>4

(* n bytes tell the numbers apart that differ modulo Power[n].             *)
LEMMA BytesDetermine ==
    ASSUME NEW n \in Nat, NEW u \in Int, NEW v \in Int
    PROVE  ToBytes(u, n) = ToBytes(v, n) <=> u % Power[n] = v % Power[n]
<1>. DEFINE At(k) == IF Endian = "big" THEN n - k ELSE k - 1
<1>1. ToBytes(u, n) = ToBytes(v, n) <=> \A k \in 1 .. n : Digit(u, At(k)) = Digit(v, At(k))
  BY DEF ToBytes
<1>2. \A k \in 1 .. n : At(k) \in 0 .. n - 1
  OBVIOUS
<1>3. \A i \in 0 .. n - 1 : \E k \in 1 .. n : At(k) = i
  <2>. SUFFICES ASSUME NEW i \in 0 .. n - 1 PROVE \E k \in 1 .. n : At(k) = i
    OBVIOUS
  <2>1. n - i \in 1 .. n /\ i + 1 \in 1 .. n /\ n - (n - i) = i /\ (i + 1) - 1 = i
    OBVIOUS
  <2>. QED
    BY <2>1
<1>. HIDE DEF At
<1>4. ToBytes(u, n) = ToBytes(v, n) <=> \A i \in 0 .. n - 1 : Digit(u, i) = Digit(v, i)
  BY <1>1, <1>2, <1>3
<1>. QED
  BY <1>4, DigitsDetermine

(* The function in from_bytes.                                             *)
LEMMA LowestBytes ==
    ASSUME NEW n \in Nat, NEW bytes \in [1 .. n -> Bytes]
    PROVE  \E f : /\ f[0] = 0
                  /\ \A k \in 1 .. n :
                        f[k] = Power[k - 1] * bytes[IF Endian = "big" THEN n - k + 1 ELSE k] + f[k - 1]
                  /\ FromBytes(bytes) = f[n]
<1>. DEFINE b(k) == bytes[IF Endian = "big" THEN n - k + 1 ELSE k]
            F == [k \in Nat |-> IF k \in 1 .. n
                                THEN [v \in Int |-> Power[k - 1] * b(k) + v]
                                ELSE [v \in Int |-> 0]]
            Step(f) == f = [k \in 0 .. n |-> IF k = 0 THEN 0 ELSE Power[k - 1] * b(k) + f[k - 1]]
<1>1. \A k \in 1 .. n : b(k) \in Int /\ Power[k - 1] \in Int
  <2>. SUFFICES ASSUME NEW k \in 1 .. n PROVE b(k) \in Int /\ Power[k - 1] \in Int
    OBVIOUS
  <2>1. n - k + 1 \in 1 .. n /\ k - 1 \in Nat
    OBVIOUS
  <2>2. Power[k - 1] \in Nat \ {0}
    BY ONLY <2>1, PowerProperties
  <2>3. b(k) \in Bytes
    BY <2>1
  <2>4. Bytes \subseteq Int
    BY NumeralsAssumption DEF Bytes
  <2>. HIDE DEF b, F, Step
  <2>5. b(k) \in Int
    BY ONLY <2>3, <2>4
  <2>6. Power[k - 1] \in Int
    BY ONLY <2>2
  <2>. QED
    BY ONLY <2>5, <2>6
<1>. HIDE DEF b
<1>2. F \in [Nat -> [Int -> Int]]
  BY <1>1
<1>3. \E f : Approximates(f, n, Int, 0, F)
  <2>. HIDE DEF F
  <2>1. 0 \in Int
    OBVIOUS
  <2>. QED
    BY <1>2, <2>1, Approximation, Zenon
<1>4. PICK f : Approximates(f, n, Int, 0, F)
  BY <1>3
<1>5. Step(f)
  <2>1. f = [k \in 0 .. n |-> f[k]]
    BY <1>4 DEF Approximates
  <2>2. ASSUME NEW k \in 0 .. n
        PROVE  f[k] = IF k = 0 THEN 0 ELSE Power[k - 1] * b(k) + f[k - 1]
    <3>1. CASE k = 0
      BY <1>4, <3>1 DEF Approximates
    <3>2. CASE k # 0
      <4>1. k \in 1 .. n /\ k \in Nat /\ k - 1 \in 0 .. n
        BY <3>2
      <4>2. f[k] = F[k][f[k - 1]] /\ f[k - 1] \in Int
        BY <1>4, <4>1 DEF Approximates
      <4>. QED
        BY <3>2, <4>1, <4>2
    <3>. QED
      BY <3>1, <3>2
  <2>. QED
    BY <2>1, <2>2
<1>. DEFINE g == CHOOSE h : Step(h)
<1>6. Step(g)
  <2>. HIDE DEF Step
  <2>. QED
    BY <1>5
<1>7. FromBytes(bytes) = g[n]
  <2>1. Len(bytes) = n
    OBVIOUS
  <2>. QED
    BY <2>1, Zenon DEF FromBytes, b
<1>. HIDE DEF g
<1>8. g[0] = 0 /\ \A k \in 1 .. n : g[k] = Power[k - 1] * b(k) + g[k - 1]
  BY <1>6
<1>. QED
  BY <1>7, <1>8 DEF b

LEMMA FromBytesProperties ==
    ASSUME NEW n \in Nat, NEW bytes \in [1 .. n -> Bytes]
    PROVE  /\ FromBytes(bytes) \in 0 .. Power[n] - 1
           /\ ToBytes(FromBytes(bytes), n) = bytes
<1>. DEFINE d(j) == bytes[IF Endian = "big" THEN n - j ELSE j + 1]
<1>1. PICK f : /\ f[0] = 0
               /\ \A k \in 1 .. n :
                     f[k] = Power[k - 1] * bytes[IF Endian = "big" THEN n - k + 1 ELSE k] + f[k - 1]
               /\ FromBytes(bytes) = f[n]
  BY LowestBytes
<1>2. \A j \in 0 .. n - 1 : d(j) \in Bytes
  <2>1. \A j \in 0 .. n - 1 : n - j \in 1 .. n /\ j + 1 \in 1 .. n
    OBVIOUS
  <2>. QED
    BY <2>1
<1>3. \A j \in 0 .. n - 1 : f[j + 1] = Power[j] * d(j) + f[j]
  <2>. SUFFICES ASSUME NEW j \in 0 .. n - 1 PROVE f[j + 1] = Power[j] * d(j) + f[j]
    OBVIOUS
  <2>1. j + 1 \in 1 .. n /\ n - (j + 1) + 1 = n - j /\ (j + 1) - 1 = j
    OBVIOUS
  <2>. QED
    BY <1>1, <2>1
<1>. DEFINE T == {i \in Nat : i <= n => /\ f[i] \in 0 .. Power[i] - 1
                                        /\ \A j \in 0 .. i - 1 : Digit(f[i], j) = d(j)}
<1>4. 0 \in T
  <2>1. 0 \in 0 .. Power[0] - 1
    BY PowerIsRecursive, NumeralsAssumption
  <2>2. \A j \in 0 .. 0 - 1 : FALSE
    OBVIOUS
  <2>. QED
    BY <1>1, <2>1, <2>2
<1>5. ASSUME NEW i \in Nat, i \in T
      PROVE  i + 1 \in T
  <2>. SUFFICES ASSUME i + 1 <= n
                PROVE  /\ f[i + 1] \in 0 .. Power[i + 1] - 1
                       /\ \A j \in 0 .. (i + 1) - 1 : Digit(f[i + 1], j) = d(j)
    OBVIOUS
  <2>1. i <= n /\ i \in 0 .. n - 1
    OBVIOUS
  <2>2. f[i] \in 0 .. Power[i] - 1 /\ \A j \in 0 .. i - 1 : Digit(f[i], j) = d(j)
    BY <1>5, <2>1
  <2>3. f[i + 1] = Power[i] * d(i) + f[i] /\ d(i) \in Bytes
    BY <1>2, <1>3, <2>1
  <2>. HIDE DEF d
  <2>4. /\ f[i + 1] \in 0 .. Power[i + 1] - 1
        /\ Digit(f[i + 1], i) = d(i)
        /\ \A j \in 0 .. i - 1 : Digit(f[i + 1], j) = Digit(f[i], j)
    BY <2>2, <2>3, DigitInFront
  <2>5. \A j \in 0 .. (i + 1) - 1 : j = i \/ j \in 0 .. i - 1
    OBVIOUS
  <2>. QED
    BY <2>2, <2>4, <2>5
<1>6. n \in T
  <2>. HIDE DEF T
  <2>. QED
    BY <1>4, <1>5, AllNumbers
<1>7. FromBytes(bytes) \in 0 .. Power[n] - 1 /\ \A j \in 0 .. n - 1 : Digit(FromBytes(bytes), j) = d(j)
  BY <1>1, <1>6
<1>8. \A k \in 1 .. n : ToBytes(FromBytes(bytes), n)[k] = bytes[k]
  <2>. SUFFICES ASSUME NEW k \in 1 .. n PROVE ToBytes(FromBytes(bytes), n)[k] = bytes[k]
    OBVIOUS
  <2>1. n - k \in 0 .. n - 1 /\ k - 1 \in 0 .. n - 1 /\ n - (n - k) = k /\ (k - 1) + 1 = k
    OBVIOUS
  <2>. QED
    BY <1>7, <2>1 DEF ToBytes
<1>9. ToBytes(FromBytes(bytes), n) \in [1 .. n -> Bytes]
  <2>1. FromBytes(bytes) \in Int
    BY <1>7, PowerProperties
  <2>. QED
    BY <2>1, ToBytesProperties
<1>. QED
  BY <1>7, <1>8, <1>9

(* int.from_bytes undoes int.to_bytes for every length and either order:   *)
(* what set_value writes, get_value reads, up to the range of the bytes.   *)
THEOREM FromToBytes ==
    ASSUME NEW n \in Nat, NEW v \in Int
    PROVE  FromBytes(ToBytes(v, n)) = v % Power[n]
<1>1. ToBytes(v, n) \in [1 .. n -> Bytes]
  BY ToBytesProperties
<1>. DEFINE u == FromBytes(ToBytes(v, n))
<1>2. u \in 0 .. Power[n] - 1 /\ ToBytes(u, n) = ToBytes(v, n)
  BY <1>1, FromBytesProperties
<1>. HIDE DEF u
<1>3. Power[n] \in Nat \ {0}
  BY PowerProperties
<1>4. u \in Int /\ u % Power[n] = u
  BY <1>2, <1>3, SmallDivision
<1>5. u % Power[n] = v % Power[n]
  BY <1>2, <1>4, BytesDetermine
<1>. QED
  BY <1>4, <1>5 DEF u

=============================================================================

---------------------------- MODULE NumberLemmas ----------------------------
(***************************************************************************)
(* Facts the proofs share: arithmetic modulo a number, induction over        *)
(* numbers and finite sets, and what SumFunctionOnSet of the community        *)
(* modules returns.  An induction is over a set of numbers, or of sets,       *)
(* instead of over a predicate.                                              *)
(***************************************************************************)
EXTENDS Integers, FiniteSets, Functions, FiniteSetTheorems, WellFoundedInduction, TLAPS

(* Arithmetic modulo a number.                                              *)

\* a divided by m is q, and r is left over.
Divides(m, a, q, r) == a \in Int /\ q \in Int /\ r \in 0..(m - 1) /\ a = q * m + r

\* The remainder is unique.
LEMMA ModUnique ==
  ASSUME NEW m \in Nat \ {0}, NEW q, NEW r, NEW a, Divides(m, a, q, r)
  PROVE  a % m = r
<1>0. a \in Int /\ q \in Int /\ r \in 0..(m - 1) /\ a = q * m + r
  BY DEF Divides
<1> DEFINE p == a \div m
           s == a % m
<1>1. p \in Int /\ s \in 0..(m - 1) /\ a = m * p + s
  BY <1>0
<1> HIDE DEF p, s
<1>2. r - s = m * (p - q)
  BY <1>0, <1>1
<1>3. r - s < m /\ r - s > -m
  BY <1>0, <1>1
<1> DEFINE z == p - q
<1>4. z \in Int /\ m * z < m /\ m * z > -m
  BY <1>0, <1>1, <1>2, <1>3
<1> HIDE DEF z
<1>5. z = 0
  <2>1. CASE z >= 1
    <3>1. m * z >= m
      BY <1>4, <2>1
    <3> QED BY <1>4, <3>1
  <2>2. CASE z <= -1
    <3>1. m * z <= -m
      BY <1>4, <2>2
    <3> QED BY <1>4, <3>1
  <2> QED BY <1>4, <2>1, <2>2
<1>6. r - s = m * z /\ m * 0 = 0
  BY <1>2 DEF z
<1> QED BY <1>0, <1>1, <1>5, <1>6

\* Adding to a number reduced modulo m.
LEMMA ModAdd ==
  ASSUME NEW m \in Nat \ {0}, NEW a \in Int, NEW k \in Int
  PROVE  ((a % m) + k) % m = (a + k) % m
<1> DEFINE p == a \div m
           s == a % m
           u == (s + k) \div m
           v == (s + k) % m
<1>1. p \in Int /\ s \in 0..(m - 1) /\ a = p * m + s
  OBVIOUS
<1>2. u \in Int /\ v \in 0..(m - 1) /\ s + k = u * m + v
  BY <1>1
<1> HIDE DEF p, s, u, v
<1>3. Divides(m, a + k, p + u, v)
  BY <1>1, <1>2 DEF Divides
<1>4. (a + k) % m = v
  BY <1>3, ModUnique
<1> QED BY <1>4 DEF v, s

\* Two numbers less than m apart differ modulo m.
LEMMA ModApart ==
  ASSUME NEW m \in Nat \ {0}, NEW a \in Int, NEW b \in Int, a < b, b - a < m
  PROVE  a % m # b % m
<1> DEFINE p == a \div m
           s == a % m
<1>1. p \in Int /\ s \in 0..(m - 1) /\ a = p * m + s
  OBVIOUS
<1> HIDE DEF p, s
<1>2. CASE s + (b - a) < m
  <2>1. Divides(m, b, p, s + (b - a))
    BY <1>1, <1>2 DEF Divides
  <2>2. b % m = s + (b - a)
    BY <2>1, ModUnique
  <2> QED BY <1>1, <2>2 DEF s
<1>3. CASE s + (b - a) >= m
  <2>1. Divides(m, b, p + 1, s + (b - a) - m)
    BY <1>1, <1>3 DEF Divides
  <2>2. b % m = s + (b - a) - m
    BY <2>1, ModUnique
  <2> QED BY <1>1, <2>2 DEF s
<1> QED BY <1>1, <1>2, <1>3

\* What lies k numbers before another one, modulo m, is at most k below it.
LEMMA ModBehind ==
  ASSUME NEW m \in Nat \ {0}, NEW a \in Int, NEW k \in Nat, k < m
  PROVE  ((a + k) % m) - (a % m) <= k
<1> DEFINE p == a \div m
           s == a % m
<1>1. p \in Int /\ s \in 0..(m - 1) /\ a = p * m + s
  OBVIOUS
<1> HIDE DEF p, s
<1>2. CASE s + k < m
  <2>1. Divides(m, a + k, p, s + k)
    BY <1>1, <1>2 DEF Divides
  <2>2. (a + k) % m = s + k
    BY <2>1, ModUnique
  <2> QED BY <1>1, <2>2 DEF s
<1>3. CASE s + k >= m
  <2>1. Divides(m, a + k, p + 1, s + k - m)
    BY <1>1, <1>3 DEF Divides
  <2>2. (a + k) % m = s + k - m
    BY <2>1, ModUnique
  <2> QED BY <1>1, <2>2 DEF s
<1> QED BY <1>1, <1>2, <1>3

\* A number less than a word away from one is taken back by one word.
LEMMA ModWord ==
  ASSUME NEW m \in Nat \ {0}, NEW a \in Int
  PROVE  /\ 0 <= a /\ a < m => a % m = a
         /\ m <= a /\ a < 2 * m => a % m = a - m
         /\ -m <= a /\ a < 0 => a % m = a + m
<1>1. ASSUME 0 <= a, a < m PROVE a % m = a
  <2>1. Divides(m, a, 0, a)
    BY <1>1 DEF Divides
  <2> QED BY <2>1, ModUnique
<1>2. ASSUME m <= a, a < 2 * m PROVE a % m = a - m
  <2>1. Divides(m, a, 1, a - m)
    BY <1>2 DEF Divides
  <2> QED BY <2>1, ModUnique
<1>3. ASSUME -m <= a, a < 0 PROVE a % m = a + m
  <2>1. Divides(m, a, -1, a + m)
    BY <1>3 DEF Divides
  <2> QED BY <2>1, ModUnique
<1> QED BY <1>1, <1>2, <1>3

\* The difference of two words, modulo the word.
LEMMA ModDifference ==
  ASSUME NEW m \in Nat \ {0}, NEW a \in 0..(m - 1), NEW b \in 0..(m - 1)
  PROVE  (b <= a => (a - b) % m = a - b) /\ (b > a => (a - b) % m = (a - b) + m)
<1> DEFINE e == a - b
<1>1. e \in Int /\ -m <= e /\ e < m /\ (b <= a <=> 0 <= e)
  OBVIOUS
<1> HIDE DEF e
<1>2. (0 <= e => e % m = e) /\ (e < 0 => e % m = e + m)
  BY <1>1, ModWord
<1>3. (b <= a => e % m = e) /\ (b > a => e % m = e + m)
  BY <1>1, <1>2
<1> QED BY <1>3 DEF e

\* An unsigned difference of two words, and what using or adding x does to it.
LEMMA WordDifference ==
  ASSUME NEW m \in Nat \ {0}, NEW a \in 0..(m - 1), NEW u \in 0..(m - 1), NEW x \in Nat
  PROVE  /\ (a - u) % m \in 0..(m - 1)
         /\ u <= a => (a - u) % m = a - u
         /\ x <= (a - u) % m => (a - ((u + x) % m)) % m = ((a - u) % m) - x
         /\ ((a - u) % m) + x < m => (((a + x) % m) - u) % m = ((a - u) % m) + x
<1> DEFINE r == (a - u) % m
<1>1. (u <= a => r = a - u) /\ (u > a => r = (a - u) + m)
  BY ModDifference
<1> HIDE DEF r
<1>2. r \in 0..(m - 1)
  BY <1>1
<1>3. ASSUME x <= r PROVE (a - ((u + x) % m)) % m = r - x
  <2> DEFINE w == (u + x) % m
  <2>1. u + x \in Int /\ u + x < 2 * m /\ 0 <= u + x
    BY <1>2, <1>3
  <2>2. (u + x < m => w = u + x) /\ (u + x >= m => w = (u + x) - m)
    BY <2>1, ModWord
  <2> HIDE DEF w
  <2>3. w \in 0..(m - 1)
    BY <2>1, <2>2
  <2>4. (w <= a => (a - w) % m = a - w) /\ (w > a => (a - w) % m = (a - w) + m)
    BY <2>3, ModDifference
  <2>5. (w <= a => a - w = r - x) /\ (w > a => (a - w) + m = r - x)
    BY <1>1, <1>2, <1>3, <2>1, <2>2, <2>3
  <2> QED BY <2>3, <2>4, <2>5 DEF w
<1>4. ASSUME r + x < m PROVE (((a + x) % m) - u) % m = r + x
  <2> DEFINE w == (a + x) % m
  <2>1. a + x \in Int /\ a + x < 2 * m /\ 0 <= a + x
    BY <1>1, <1>2, <1>4
  <2>2. (a + x < m => w = a + x) /\ (a + x >= m => w = (a + x) - m)
    BY <2>1, ModWord
  <2> HIDE DEF w
  <2>3. w \in 0..(m - 1)
    BY <2>1, <2>2
  <2>4. (u <= w => (w - u) % m = w - u) /\ (u > w => (w - u) % m = (w - u) + m)
    BY <2>3, ModDifference
  <2>5. (u <= w => w - u = r + x) /\ (u > w => (w - u) + m = r + x)
    BY <1>1, <1>2, <1>4, <2>1, <2>2, <2>3
  <2> QED BY <2>3, <2>4, <2>5 DEF w
<1> QED BY <1>1, <1>2, <1>3, <1>4 DEF r

\* A number of two digits, the higher one below h and the lower one below n, lies
\* below h * n; adding to it with a carry adds modulo h * n.
AddsDigits(h, n, a, b, k) ==
  LET lower == (b + k) % n
      higher == (a + (b + k) \div n) % h
  IN  /\ lower \in 0..(n - 1) /\ higher \in 0..(h - 1)
      /\ higher * n + lower = ((a * n + b) + k) % (h * n)

\* A number of two digits, the higher one below h and the lower one below n, lies
\* below h * n, and adding to it with a carry adds modulo h * n.
LEMMA TwoDigits ==
  ASSUME NEW h \in Nat \ {0}, NEW n \in Nat \ {0},
         NEW a \in 0..(h - 1), NEW b \in 0..(n - 1), NEW k \in Nat
  PROVE  /\ a * n + b \in 0..(h * n - 1)
         /\ AddsDigits(h, n, a, b, k)
<1>1. ASSUME NEW x \in 0..(h - 1), NEW y \in 0..(n - 1) PROVE x * n + y \in 0..(h * n - 1)
  <2>1. PICK m \in Nat : m = h - 1 - x
    OBVIOUS
  <2> DEFINE before == x * n
             after == m * n
  <2>2. h * n = before + after + n /\ before \in Nat /\ after \in Nat
    BY <2>1
  <2> HIDE DEF before, after
  <2> DEFINE z == before + y
  <2>3. z \in 0..(h * n - 1)
    BY <2>2
  <2> QED BY <2>3 DEF z, before
<1> DEFINE total == b + k
           q == total \div n
           r == total % n
           f == a + q
           p == f \div h
           g == f % h
<1>2. q \in Nat /\ r \in 0..(n - 1) /\ total = q * n + r /\ total \in Nat
  <2>1. total \in Nat
    OBVIOUS
  <2> HIDE DEF total
  <2> QED BY <2>1
<1>3. f \in Nat /\ p \in Nat /\ g \in 0..(h - 1) /\ f = p * h + g
  <2>1. f \in Nat
    BY <1>2
  <2> HIDE DEF f
  <2> QED BY <2>1
<1> DEFINE c == (a * n + b) + k
           u == g * n + r
<1>4. c = f * n + r
  <2>1. c = a * n + total
    OBVIOUS
  <2> HIDE DEF total, q, r, c
  <2> QED BY <1>2, <2>1
<1>5. f * n = p * (h * n) + g * n
  <2> HIDE DEF f, p, g
  <2>1. (p * h + g) * n = p * (h * n) + g * n
    BY <1>3
  <2> QED BY <1>3, <2>1
<1>6. u \in 0..(h * n - 1)
  <2> HIDE DEF r, g
  <2> QED BY <1>1, <1>2, <1>3
<1>7. c \in Int /\ h * n \in Nat \ {0}
  OBVIOUS
<1>8. c = p * (h * n) + u
  <2> HIDE DEF f, p, g, r, c
  <2>1. p * (h * n) \in Int /\ g * n \in Int /\ r \in Int
    BY <1>2, <1>3
  <2> QED BY <1>4, <1>5, <2>1
<1> DEFINE m == h * n
<1> HIDE DEF c, u, p, m
<1>9. Divides(m, c, p, u)
  BY <1>3, <1>6, <1>7, <1>8 DEF Divides, m
<1>10. c % m = u
  BY <1>7, <1>9, ModUnique DEF m
<1>11. a * n + b \in 0..(h * n - 1)
  BY <1>1
<1>12. u = c % (h * n)
  BY <1>10 DEF m
<1>13. AddsDigits(h, n, a, b, k)
  <2>1. r \in 0..(n - 1) /\ g \in 0..(h - 1)
    BY <1>2, <1>3
  <2> QED BY <2>1, <1>12, Zenon DEF AddsDigits, c, u
<1> QED BY <1>11, <1>13

-----------------------------------------------------------------------------
(* Induction.                                                               *)

\* A set of numbers that is not empty has a smallest one.
LEMMA SmallestNat ==
  ASSUME NEW T, T \subseteq Nat, T # {}
  PROVE  \E n \in T : \A m \in T : n <= m
<1>1. PICK x \in T : \A y \in T : ~ (<<y, x>> \in OpToRel(<, Nat))
  BY NatLessThanWellFounded, WFMin
<1>2. \A y \in T : x <= y
  <2> SUFFICES ASSUME NEW y \in T, ~(x <= y) PROVE FALSE
    OBVIOUS
  <2>1. x \in Nat /\ y \in Nat /\ y < x
    OBVIOUS
  <2>2. <<y, x>> \in OpToRel(<, Nat)
    BY <2>1 DEF OpToRel
  <2> QED BY <1>1, <2>2
<1> QED BY <1>2

\* A set of numbers that has 0 and the successors of its members has all of them.
LEMMA NatSetInduction ==
  ASSUME NEW T, 0 \in T, \A n \in Nat : n \in T => n + 1 \in T
  PROVE  \A n \in Nat : n \in T
<1> DEFINE B == {n \in Nat : n \notin T}
<1>1. CASE B # {}
  <2>1. PICK n \in B : \A m \in B : n <= m
    BY <1>1, SmallestNat
  <2>2. n # 0 /\ n \in Nat
    BY <2>1
  <2>3. n - 1 \in T /\ n - 1 \in Nat
    BY <2>1, <2>2
  <2>4. (n - 1) + 1 \in T /\ (n - 1) + 1 = n
    BY <2>2, <2>3
  <2> QED BY <2>1, <2>2, <2>4
<1> QED BY <1>1

\* A set of subsets of S that has the empty set, and each set larger by one member
\* than one that it has, has S.
LEMMA FiniteInduction ==
  ASSUME NEW S, IsFiniteSet(S), NEW T, {} \in T,
         \A A \in SUBSET S : \A x \in S \ A : A \in T => A \cup {x} \in T
  PROVE  S \in T
<1> DEFINE N == {n \in Nat : \A A \in SUBSET S : Cardinality(A) = n => A \in T}
<1>1. \A A \in SUBSET S : IsFiniteSet(A) /\ Cardinality(A) \in Nat
  BY FS_Subset, FS_CardinalityType
<1>2. 0 \in N
  BY <1>1, FS_EmptySet
<1>3. ASSUME NEW n \in Nat, n \in N PROVE n + 1 \in N
  <2>1. ASSUME NEW A \in SUBSET S, Cardinality(A) = n + 1 PROVE A \in T
    <3>1. A # {}
      BY <2>1, FS_EmptySet
    <3>2. PICK x \in A : TRUE
      BY <3>1
    <3>3. Cardinality(A \ {x}) = n
      <4>1. IsFiniteSet(A)
        BY <1>1
      <4>2. Cardinality(A \ {x}) = Cardinality(A) - 1
        BY <3>2, <4>1, FS_RemoveElement
      <4> QED BY <2>1, <4>2
    <3>4. A \ {x} \in T
      BY <1>3, <3>3
    <3>5. (A \ {x}) \cup {x} \in T
      BY <3>2, <3>4
    <3>6. (A \ {x}) \cup {x} = A
      BY <3>2
    <3> QED BY <3>5, <3>6
  <2> QED BY <2>1
<1> HIDE DEF N
<1>4. \A n \in Nat : n \in N
  BY <1>2, <1>3, NatSetInduction
<1>5. Cardinality(S) \in N
  BY <1>1, <1>4
<1> QED BY <1>5 DEF N

-----------------------------------------------------------------------------
(* Sums.  The recursive function that SumFunctionOnSet chooses exists, so it *)
(* satisfies its equation.                                                  *)

\* The equation: the sum over a set is a member's value and the sum over the rest.
IsSum(f, S, h) ==
  h = [s \in SUBSET S |-> IF s = {} THEN 0
                          ELSE f[CHOOSE x \in s : TRUE] + h[s \ {CHOOSE x \in s : TRUE}]]

LEMMA SumUnfolds ==
  ASSUME NEW f, NEW S
  PROVE  SumFunctionOnSet(f, S) = (CHOOSE h : IsSum(f, S, h))[S]
BY DEF SumFunctionOnSet, FoldFunctionOnSet, MapThenFoldSet, IsSum

\* The equation, on the sets of at most n members.
IsSumUpTo(f, S, h, n) ==
  /\ DOMAIN h = SUBSET S
  /\ \A s \in SUBSET S : Cardinality(s) <= n =>
       h[s] = IF s = {} THEN 0
              ELSE f[CHOOSE x \in s : TRUE] + h[s \ {CHOOSE x \in s : TRUE}]

\* A subset of a finite set is finite, and smaller without the chosen member.
LEMMA Chosen ==
  ASSUME NEW S, IsFiniteSet(S), NEW s \in SUBSET S, s # {}
  PROVE  /\ (CHOOSE x \in s : TRUE) \in s
         /\ s \ {CHOOSE x \in s : TRUE} \in SUBSET S
         /\ Cardinality(s) \in Nat \ {0}
         /\ Cardinality(s \ {CHOOSE x \in s : TRUE}) = Cardinality(s) - 1
<1> DEFINE c == CHOOSE x \in s : TRUE
<1>1. c \in s
  OBVIOUS
<1>2. IsFiniteSet(s) /\ Cardinality(s) \in Nat
  BY FS_Subset, FS_CardinalityType
<1> HIDE DEF c
<1>3. Cardinality(s) # 0
  BY <1>2, FS_EmptySet
<1>4. Cardinality(s \ {c}) = Cardinality(s) - 1
  BY <1>1, <1>2, FS_RemoveElement
<1> QED BY <1>1, <1>2, <1>3, <1>4 DEF c

LEMMA SumExists ==
  ASSUME NEW f, NEW S, IsFiniteSet(S)
  PROVE  \E h : IsSum(f, S, h)
<1> DEFINE c(s) == CHOOSE x \in s : TRUE
           N == {n \in Nat : \E h : IsSumUpTo(f, S, h, n)}
<1>1. \A s \in SUBSET S : Cardinality(s) \in Nat /\ (Cardinality(s) = 0 <=> s = {})
  BY FS_Subset, FS_CardinalityType, FS_EmptySet
<1>2. 0 \in N
  <2> DEFINE h == [s \in SUBSET S |-> 0]
  <2>1. \A s \in SUBSET S : Cardinality(s) <= 0 => s = {}
    BY <1>1
  <2>2. IsSumUpTo(f, S, h, 0)
    BY <2>1 DEF IsSumUpTo
  <2> QED BY <2>2
<1>3. ASSUME NEW n \in Nat, n \in N PROVE n + 1 \in N
  <2>1. PICK h : IsSumUpTo(f, S, h, n)
    BY <1>3
  <2> DEFINE g == [s \in SUBSET S |-> IF s = {} THEN 0 ELSE f[c(s)] + h[s \ {c(s)}]]
  <2>2. ASSUME NEW s \in SUBSET S, Cardinality(s) <= n PROVE g[s] = h[s]
    BY <2>1, <2>2 DEF IsSumUpTo
  <2>3. ASSUME NEW s \in SUBSET S, Cardinality(s) <= n + 1
        PROVE  g[s] = IF s = {} THEN 0 ELSE f[c(s)] + g[s \ {c(s)}]
    <3>1. CASE s = {}
      BY <3>1
    <3>2. CASE s # {}
      <4>1. s \ {c(s)} \in SUBSET S /\ Cardinality(s \ {c(s)}) <= n
        BY <1>1, <2>3, <3>2, Chosen
      <4>2. g[s \ {c(s)}] = h[s \ {c(s)}]
        BY <2>2, <4>1
      <4>3. g[s] = f[c(s)] + h[s \ {c(s)}]
        BY <3>2
      <4> QED BY <3>2, <4>2, <4>3
    <3> QED BY <3>1, <3>2
  <2>4. DOMAIN g = SUBSET S
    OBVIOUS
  <2> HIDE DEF g
  <2>5. IsSumUpTo(f, S, g, n + 1)
    BY <2>3, <2>4 DEF IsSumUpTo
  <2> QED BY <2>5
<1> HIDE DEF N
<1>4. \A n \in Nat : n \in N
  BY <1>2, <1>3, NatSetInduction
<1>5. PICK h : IsSumUpTo(f, S, h, Cardinality(S))
  BY <1>1, <1>4 DEF N
<1>6. ASSUME NEW s \in SUBSET S PROVE Cardinality(s) <= Cardinality(S)
  BY FS_Subset
<1> DEFINE g == [s \in SUBSET S |-> IF s = {} THEN 0 ELSE f[c(s)] + h[s \ {c(s)}]]
<1>7. \A s \in SUBSET S : g[s] = h[s]
  BY <1>5, <1>6 DEF IsSumUpTo
<1>8. IsSum(f, S, g)
  <2>1. \A s \in SUBSET S : s \ {c(s)} \in SUBSET S
    OBVIOUS
  <2>2. \A s \in SUBSET S : g[s \ {c(s)}] = h[s \ {c(s)}]
    BY <1>7, <2>1
  <2>3. g = [s \in SUBSET S |-> IF s = {} THEN 0 ELSE f[c(s)] + g[s \ {c(s)}]]
    <3>1. \A s \in SUBSET S : (IF s = {} THEN 0 ELSE f[c(s)] + h[s \ {c(s)}])
                              = (IF s = {} THEN 0 ELSE f[c(s)] + g[s \ {c(s)}])
      <4> HIDE DEF g, c
      <4> QED BY <2>2
    <3> QED BY <3>1
  <2> QED BY <2>3 DEF IsSum
<1> QED BY <1>8

\* Two functions that satisfy the equation agree on the sets both know.
LEMMA SumUnique ==
  ASSUME NEW f, NEW S, IsFiniteSet(S), NEW R \in SUBSET S,
         NEW h, IsSum(f, S, h), NEW g, IsSum(f, R, g)
  PROVE  \A s \in SUBSET R : h[s] = g[s]
<1> DEFINE c(s) == CHOOSE x \in s : TRUE
           N == {n \in Nat : \A s \in SUBSET R : Cardinality(s) = n => h[s] = g[s]}
<1>1. IsFiniteSet(R)
  BY FS_Subset
<1>2. \A s \in SUBSET R : Cardinality(s) \in Nat /\ (Cardinality(s) = 0 <=> s = {})
  BY <1>1, FS_Subset, FS_CardinalityType, FS_EmptySet
<1>3. \A s \in SUBSET S : h[s] = IF s = {} THEN 0 ELSE f[c(s)] + h[s \ {c(s)}]
  BY DEF IsSum
<1>4. \A s \in SUBSET R : g[s] = IF s = {} THEN 0 ELSE f[c(s)] + g[s \ {c(s)}]
  BY DEF IsSum
<1>5. 0 \in N
  BY <1>2, <1>3, <1>4
<1>6. ASSUME NEW n \in Nat, n \in N PROVE n + 1 \in N
  <2>1. ASSUME NEW s \in SUBSET R, Cardinality(s) = n + 1 PROVE h[s] = g[s]
    <3>1. s # {}
      BY <1>2, <2>1
    <3>2. s \ {c(s)} \in SUBSET R /\ Cardinality(s \ {c(s)}) = (n + 1) - 1
      BY <1>1, <2>1, <3>1, Chosen
    <3>3. (n + 1) - 1 = n
      OBVIOUS
    <3>4. h[s \ {c(s)}] = g[s \ {c(s)}]
      BY <1>6, <3>2, <3>3
    <3> QED BY <1>3, <1>4, <3>1, <3>4
  <2> QED BY <2>1
<1> HIDE DEF N
<1>7. \A n \in Nat : n \in N
  BY <1>5, <1>6, NatSetInduction
<1>8. ASSUME NEW s \in SUBSET R PROVE h[s] = g[s]
  <2>1. Cardinality(s) \in N
    BY <1>2, <1>7
  <2> QED BY <2>1 DEF N
<1> QED BY <1>8

\* The sum over no member, and over one member and the rest.
LEMMA SumEquation ==
  ASSUME NEW f, NEW S, IsFiniteSet(S)
  PROVE  /\ SumFunctionOnSet(f, {}) = 0
         /\ S # {} => SumFunctionOnSet(f, S)
                        = f[CHOOSE x \in S : TRUE]
                          + SumFunctionOnSet(f, S \ {CHOOSE x \in S : TRUE})
<1> DEFINE c == CHOOSE x \in S : TRUE
           Chosen1(R) == CHOOSE h : IsSum(f, R, h)
<1>1. \A R \in SUBSET S : IsFiniteSet(R)
  BY FS_Subset
<1>2. ASSUME NEW R \in SUBSET S PROVE IsSum(f, R, Chosen1(R))
  <2>1. \E h : IsSum(f, R, h)
    BY <1>1, SumExists
  <2> QED BY <2>1
<1>3. \A R : SumFunctionOnSet(f, R) = Chosen1(R)[R]
  BY SumUnfolds
<1> HIDE DEF Chosen1
<1>4. SumFunctionOnSet(f, {}) = 0
  <2>1. IsSum(f, {}, Chosen1({}))
    BY <1>2
  <2>2. Chosen1({})[{}] = 0
    BY <2>1 DEF IsSum
  <2> QED BY <1>3, <2>2
<1>5. CASE S # {}
  <2>1. IsSum(f, S, Chosen1(S))
    BY <1>2
  <2>2. Chosen1(S)[S] = f[c] + Chosen1(S)[S \ {c}]
    BY <1>5, <2>1 DEF IsSum
  <2>3. S \ {c} \in SUBSET S /\ IsSum(f, S \ {c}, Chosen1(S \ {c}))
    BY <1>2
  <2>4. Chosen1(S)[S \ {c}] = Chosen1(S \ {c})[S \ {c}]
    <3> HIDE DEF c
    <3>1. \A s \in SUBSET (S \ {c}) : Chosen1(S)[s] = Chosen1(S \ {c})[s]
      BY <2>1, <2>3, SumUnique
    <3> QED BY <3>1
  <2> QED BY <1>3, <1>4, <2>2, <2>4
<1> QED BY <1>4, <1>5

\* A sum of nothing is zero.
LEMMA SumEmpty == ASSUME NEW f PROVE SumFunctionOnSet(f, {}) = 0
<1>1. IsFiniteSet({})
  BY FS_EmptySet
<1> QED BY <1>1, SumEquation

\* A sum of integers is an integer.
LEMMA SumType ==
  ASSUME NEW f, NEW S, IsFiniteSet(S), \A x \in S : f[x] \in Int
  PROVE  SumFunctionOnSet(f, S) \in Int
<1> DEFINE c(s) == CHOOSE x \in s : TRUE
           N == {n \in Nat : \A s \in SUBSET S :
                   Cardinality(s) = n => SumFunctionOnSet(f, s) \in Int}
<1>1. \A s \in SUBSET S :
        IsFiniteSet(s) /\ Cardinality(s) \in Nat /\ (Cardinality(s) = 0 <=> s = {})
  BY FS_Subset, FS_CardinalityType, FS_EmptySet
<1>2. 0 \in N
  <2>1. SumFunctionOnSet(f, {}) = 0
    BY SumEquation
  <2> QED BY <1>1, <2>1
<1>3. ASSUME NEW n \in Nat, n \in N PROVE n + 1 \in N
  <2>1. ASSUME NEW s \in SUBSET S, Cardinality(s) = n + 1
        PROVE  SumFunctionOnSet(f, s) \in Int
    <3>1. s # {} /\ IsFiniteSet(s)
      BY <1>1, <2>1
    <3>2. /\ c(s) \in s /\ s \ {c(s)} \in SUBSET S
          /\ Cardinality(s \ {c(s)}) = (n + 1) - 1 /\ (n + 1) - 1 = n
      BY <2>1, <3>1, Chosen
    <3>3. SumFunctionOnSet(f, s \ {c(s)}) \in Int
      BY <1>3, <3>2
    <3>4. SumFunctionOnSet(f, s) = f[c(s)] + SumFunctionOnSet(f, s \ {c(s)})
      BY <3>1, SumEquation
    <3>5. f[c(s)] \in Int
      BY <3>2
    <3> HIDE DEF c
    <3> QED BY <3>3, <3>4, <3>5
  <2> QED BY <2>1
<1> HIDE DEF N
<1>4. Cardinality(S) \in N
  BY <1>1, <1>2, <1>3, NatSetInduction
<1> QED BY <1>4 DEF N

\* The sum does not depend on the member that is taken first.
LEMMA SumRemove ==
  ASSUME NEW f, NEW S, IsFiniteSet(S), \A x \in S : f[x] \in Int
  PROVE  \A x \in S : SumFunctionOnSet(f, S) = f[x] + SumFunctionOnSet(f, S \ {x})
<1> DEFINE c(s) == CHOOSE x \in s : TRUE
           sum(s) == SumFunctionOnSet(f, s)
           N == {n \in Nat : \A s \in SUBSET S : Cardinality(s) = n =>
                   \A x \in s : sum(s) = f[x] + sum(s \ {x})}
<1>1. \A s \in SUBSET S :
        IsFiniteSet(s) /\ Cardinality(s) \in Nat /\ (Cardinality(s) = 0 <=> s = {})
  BY FS_Subset, FS_CardinalityType, FS_EmptySet
<1>2. 0 \in N
  BY <1>1
<1>3. \A s \in SUBSET S : sum(s) \in Int
  <2>1. ASSUME NEW s \in SUBSET S PROVE sum(s) \in Int
    BY <1>1, SumType
  <2> QED BY <2>1
<1>4. \A s \in SUBSET S : s # {} => sum(s) = f[c(s)] + sum(s \ {c(s)}) /\ c(s) \in s
  BY <1>1, SumEquation
<1>5. \A s \in SUBSET S : \A x \in s : Cardinality(s \ {x}) = Cardinality(s) - 1
  BY <1>1, FS_RemoveElement
<1> HIDE DEF sum, c
<1>6. ASSUME NEW n \in Nat, n \in N PROVE n + 1 \in N
  <2>1. ASSUME NEW s \in SUBSET S, Cardinality(s) = n + 1, NEW x \in s
        PROVE  sum(s) = f[x] + sum(s \ {x})
    <3> DEFINE y == c(s)
    <3>1. y \in s /\ sum(s) = f[y] + sum(s \ {y})
      BY <1>4
    <3> HIDE DEF y
    <3>2. CASE x = y
      BY <3>1, <3>2
    <3>3. CASE x # y
      <4>1. /\ s \ {x} \in SUBSET S /\ y \in s \ {x}
            /\ s \ {y} \in SUBSET S /\ x \in s \ {y}
            /\ (s \ {x}) \ {y} = s \ {x, y} /\ (s \ {y}) \ {x} = s \ {x, y}
            /\ s \ {x, y} \in SUBSET S
        BY <3>1, <3>3
      <4>2. Cardinality(s \ {x}) = n /\ Cardinality(s \ {y}) = n
        <5>1. Cardinality(s \ {x}) = Cardinality(s) - 1 /\ Cardinality(s \ {y}) = Cardinality(s) - 1
          BY <1>5, <3>1
        <5> QED BY <2>1, <5>1
      <4>3. sum(s \ {x}) = f[y] + sum((s \ {x}) \ {y})
        BY <1>6, <4>1, <4>2
      <4>4. sum(s \ {y}) = f[x] + sum((s \ {y}) \ {x})
        BY <1>6, <4>1, <4>2
      <4>5. f[x] \in Int /\ f[y] \in Int /\ sum(s \ {x, y}) \in Int
        BY <1>3, <3>1, <4>1
      <4> QED BY <3>1, <4>1, <4>3, <4>4, <4>5
    <3> QED BY <3>2, <3>3
  <2> QED BY <2>1
<1> HIDE DEF N
<1>7. Cardinality(S) \in N
  BY <1>1, <1>2, <1>6, NatSetInduction
<1> QED BY <1>7 DEF N, sum

\* One more member adds its value.
LEMMA SumAdd ==
  ASSUME NEW f, NEW S, IsFiniteSet(S), \A y \in S : f[y] \in Int, NEW x, x \notin S, f[x] \in Int
  PROVE  SumFunctionOnSet(f, S \cup {x}) = SumFunctionOnSet(f, S) + f[x]
<1>1. IsFiniteSet(S \cup {x}) /\ (S \cup {x}) \ {x} = S /\ \A y \in S \cup {x} : f[y] \in Int
  BY FS_AddElement
<1> DEFINE whole == S \cup {x}
           rest == whole \ {x}
<1>2. SumFunctionOnSet(f, whole) = f[x] + SumFunctionOnSet(f, rest)
  BY <1>1, SumRemove
<1>3. SumFunctionOnSet(f, S) \in Int /\ rest = S
  BY <1>1, SumType
<1> HIDE DEF rest, whole
<1>4. SumFunctionOnSet(f, whole) = SumFunctionOnSet(f, S) + f[x]
  BY <1>2, <1>3
<1> QED BY <1>4 DEF whole

\* The sum of a pointwise sum.
LEMMA SumPlus ==
  ASSUME NEW f, NEW g, NEW h, NEW S, IsFiniteSet(S),
         \A x \in S : f[x] \in Int /\ g[x] \in Int /\ h[x] = f[x] + g[x]
  PROVE  SumFunctionOnSet(h, S) = SumFunctionOnSet(f, S) + SumFunctionOnSet(g, S)
<1> DEFINE sum(k, A) == SumFunctionOnSet(k, A)
           T == {A \in SUBSET S : sum(h, A) = sum(f, A) + sum(g, A)}
<1>1. \A A \in SUBSET S : IsFiniteSet(A)
  BY FS_Subset
<1>2. {} \in T
  <2>1. sum(h, {}) = 0 /\ sum(f, {}) = 0 /\ sum(g, {}) = 0
    BY SumEquation
  <2> HIDE DEF sum
  <2> QED BY <2>1
<1>3. ASSUME NEW A \in SUBSET S, NEW x \in S \ A, A \in T PROVE A \cup {x} \in T
  <2>1. IsFiniteSet(A) /\ sum(f, A) \in Int /\ sum(g, A) \in Int
    BY <1>1, SumType
  <2>2. f[x] \in Int /\ g[x] \in Int /\ h[x] = f[x] + g[x] /\ h[x] \in Int
    OBVIOUS
  <2>3. \A y \in A : f[y] \in Int /\ g[y] \in Int /\ h[y] \in Int
    OBVIOUS
  <2>4. sum(f, A \cup {x}) = sum(f, A) + f[x]
    BY <2>1, <2>2, <2>3, SumAdd
  <2>5. sum(g, A \cup {x}) = sum(g, A) + g[x]
    BY <2>1, <2>2, <2>3, SumAdd
  <2>6. sum(h, A \cup {x}) = sum(h, A) + h[x]
    BY <2>1, <2>2, <2>3, SumAdd
  <2> HIDE DEF sum
  <2> QED BY <1>3, <2>1, <2>2, <2>4, <2>5, <2>6
<1> HIDE DEF T
<1>4. S \in T
  BY <1>2, <1>3, FiniteInduction
<1> QED BY <1>4 DEF T, sum

\* A function that is nowhere larger has no larger sum.
LEMMA SumLeq ==
  ASSUME NEW f, NEW g, NEW S, IsFiniteSet(S),
         \A x \in S : f[x] \in Int /\ g[x] \in Int /\ f[x] <= g[x]
  PROVE  SumFunctionOnSet(f, S) <= SumFunctionOnSet(g, S)
<1> DEFINE sum(k, A) == SumFunctionOnSet(k, A)
           T == {A \in SUBSET S : sum(f, A) <= sum(g, A)}
<1>1. \A A \in SUBSET S : IsFiniteSet(A)
  BY FS_Subset
<1>2. {} \in T
  <2>1. sum(f, {}) = 0 /\ sum(g, {}) = 0
    BY SumEquation
  <2> HIDE DEF sum
  <2> QED BY <2>1
<1>3. ASSUME NEW A \in SUBSET S, NEW x \in S \ A, A \in T PROVE A \cup {x} \in T
  <2>1. IsFiniteSet(A) /\ sum(f, A) \in Int /\ sum(g, A) \in Int
    BY <1>1, SumType
  <2>2. f[x] \in Int /\ g[x] \in Int /\ f[x] <= g[x]
    OBVIOUS
  <2>3. \A y \in A : f[y] \in Int /\ g[y] \in Int
    OBVIOUS
  <2>4. sum(f, A \cup {x}) = sum(f, A) + f[x]
    BY <2>1, <2>2, <2>3, SumAdd
  <2>5. sum(g, A \cup {x}) = sum(g, A) + g[x]
    BY <2>1, <2>2, <2>3, SumAdd
  <2> HIDE DEF sum
  <2> QED BY <1>3, <2>1, <2>2, <2>4, <2>5
<1> HIDE DEF T
<1>4. S \in T
  BY <1>2, <1>3, FiniteInduction
<1> QED BY <1>4 DEF T, sum

\* Functions that agree on a set have the same sum over it.
LEMMA SumSame ==
  ASSUME NEW f, NEW g, NEW S, IsFiniteSet(S), \A x \in S : f[x] \in Int /\ f[x] = g[x]
  PROVE  SumFunctionOnSet(f, S) = SumFunctionOnSet(g, S)
<1>1. \A x \in S : /\ f[x] \in Int /\ g[x] \in Int
                   /\ f[x] <= g[x] /\ g[x] <= f[x]
  OBVIOUS
<1>2. SumFunctionOnSet(f, S) <= SumFunctionOnSet(g, S)
  BY <1>1, SumLeq
<1>3. SumFunctionOnSet(g, S) <= SumFunctionOnSet(f, S)
  BY <1>1, SumLeq
<1>4. SumFunctionOnSet(f, S) \in Int /\ SumFunctionOnSet(g, S) \in Int
  BY <1>1, SumType
<1> QED BY <1>2, <1>3, <1>4

\* A sum of zeros is zero.
LEMMA SumZero ==
  ASSUME NEW f, NEW S, IsFiniteSet(S), \A x \in S : f[x] = 0
  PROVE  SumFunctionOnSet(f, S) = 0
<1> DEFINE z == SumFunctionOnSet(f, S)
<1>1. \A x \in S : f[x] \in Int /\ f[x] = f[x] + f[x]
  OBVIOUS
<1>2. z = z + z
  BY <1>1, SumPlus
<1>3. z \in Int
  BY <1>1, SumType
<1> HIDE DEF z
<1>4. z = 0
  BY <1>2, <1>3
<1> QED BY <1>4 DEF z

\* A sum of natural numbers is one.
LEMMA SumNat ==
  ASSUME NEW f, NEW S, IsFiniteSet(S), \A x \in S : f[x] \in Nat
  PROVE  SumFunctionOnSet(f, S) \in Nat
<1> DEFINE zero == [x \in S |-> 0]
<1>1. \A x \in S : zero[x] = 0 /\ zero[x] \in Int /\ f[x] \in Int /\ zero[x] <= f[x]
  OBVIOUS
<1> HIDE DEF zero
<1>2. SumFunctionOnSet(zero, S) <= SumFunctionOnSet(f, S)
  BY <1>1, SumLeq
<1>3. SumFunctionOnSet(zero, S) = 0
  BY <1>1, SumZero
<1>4. SumFunctionOnSet(f, S) \in Int
  BY <1>1, SumType
<1> QED BY <1>2, <1>3, <1>4

\* The sum over two sets that have no member in common.
LEMMA SumUnion ==
  ASSUME NEW f, NEW A, IsFiniteSet(A), NEW B, IsFiniteSet(B), A \cap B = {},
         \A x \in A \cup B : f[x] \in Int
  PROVE  SumFunctionOnSet(f, A \cup B) = SumFunctionOnSet(f, A) + SumFunctionOnSet(f, B)
<1> DEFINE sum(C) == SumFunctionOnSet(f, C)
           T == {C \in SUBSET B : sum(A \cup C) = sum(A) + sum(C)}
<1>1. \A C \in SUBSET B : IsFiniteSet(C) /\ IsFiniteSet(A \cup C)
  BY FS_Subset, FS_Union
<1>2. {} \in T
  <2>1. sum({}) = 0 /\ A \cup {} = A
    BY SumEquation
  <2>2. sum(A) \in Int
    BY SumType
  <2> HIDE DEF sum
  <2> QED BY <2>1, <2>2
<1>3. ASSUME NEW C \in SUBSET B, NEW x \in B \ C, C \in T PROVE C \cup {x} \in T
  <2>1. IsFiniteSet(C) /\ IsFiniteSet(A \cup C) /\ sum(C) \in Int /\ sum(A) \in Int
    BY <1>1, SumType
  <2>2. f[x] \in Int /\ x \notin C /\ x \notin A \cup C
        /\ \A y \in A \cup C : f[y] \in Int
    OBVIOUS
  <2>3. sum(C \cup {x}) = sum(C) + f[x]
    BY <2>1, <2>2, SumAdd
  <2>4. sum((A \cup C) \cup {x}) = sum(A \cup C) + f[x]
    BY <2>1, <2>2, SumAdd
  <2>5. (A \cup C) \cup {x} = A \cup (C \cup {x}) /\ C \cup {x} \in SUBSET B
    OBVIOUS
  <2>6. sum(A \cup C) = sum(A) + sum(C)
    BY <1>3
  <2> HIDE DEF sum
  <2>7. sum((A \cup C) \cup {x}) = sum(A) + sum(C \cup {x})
    BY <2>1, <2>2, <2>3, <2>4, <2>6
  <2> QED BY <2>5, <2>7
<1> HIDE DEF T
<1>4. B \in T
  BY <1>2, <1>3, FiniteInduction
<1> QED BY <1>4 DEF T, sum

\* Members whose value is zero do not count.
LEMMA SumOnSupport ==
  ASSUME NEW f, NEW S, IsFiniteSet(S), NEW A \in SUBSET S, \A x \in S : f[x] \in Int,
         \A x \in S \ A : f[x] = 0
  PROVE  SumFunctionOnSet(f, S) = SumFunctionOnSet(f, A)
<1>1. /\ IsFiniteSet(A) /\ IsFiniteSet(S \ A) /\ A \cap (S \ A) = {} /\ A \cup (S \ A) = S
  BY FS_Subset
<1>2. SumFunctionOnSet(f, S) = SumFunctionOnSet(f, A) + SumFunctionOnSet(f, S \ A)
  <2>1. SumFunctionOnSet(f, A \cup (S \ A)) = SumFunctionOnSet(f, A) + SumFunctionOnSet(f, S \ A)
    BY <1>1, SumUnion
  <2> QED BY <1>1, <2>1, Zenon
<1>3. SumFunctionOnSet(f, S \ A) = 0
  BY <1>1, SumZero
<1>4. SumFunctionOnSet(f, A) \in Int
  BY <1>1, SumType
<1> QED BY <1>2, <1>3, <1>4

\* A part of a sum of natural numbers is no more than the whole.
LEMMA SumOfPart ==
  ASSUME NEW f, NEW S, IsFiniteSet(S), NEW A \in SUBSET S, \A x \in S : f[x] \in Nat
  PROVE  SumFunctionOnSet(f, A) <= SumFunctionOnSet(f, S)
<1>1. /\ IsFiniteSet(A) /\ IsFiniteSet(S \ A) /\ A \cap (S \ A) = {} /\ A \cup (S \ A) = S
      /\ \A x \in S : f[x] \in Int
  BY FS_Subset
<1>2. SumFunctionOnSet(f, S) = SumFunctionOnSet(f, A) + SumFunctionOnSet(f, S \ A)
  <2>1. SumFunctionOnSet(f, A \cup (S \ A)) = SumFunctionOnSet(f, A) + SumFunctionOnSet(f, S \ A)
    BY <1>1, SumUnion
  <2> QED BY <1>1, <2>1, Zenon
<1>3. SumFunctionOnSet(f, S \ A) \in Nat
  BY <1>1, SumNat
<1>4. SumFunctionOnSet(f, A) \in Nat
  BY <1>1, SumNat
<1> QED BY <1>2, <1>3, <1>4

\* One value that changes changes the sum by the difference.
LEMMA SumChange ==
  ASSUME NEW f, NEW g, NEW S, IsFiniteSet(S), NEW x \in S,
         \A y \in S : f[y] \in Int /\ g[y] \in Int, \A y \in S \ {x} : g[y] = f[y]
  PROVE  SumFunctionOnSet(g, S) = (SumFunctionOnSet(f, S) - f[x]) + g[x]
<1>1. IsFiniteSet(S \ {x})
  BY FS_Subset
<1>2. SumFunctionOnSet(f, S) = f[x] + SumFunctionOnSet(f, S \ {x})
  BY SumRemove
<1>3. SumFunctionOnSet(g, S) = g[x] + SumFunctionOnSet(g, S \ {x})
  BY SumRemove
<1>4. SumFunctionOnSet(g, S \ {x}) = SumFunctionOnSet(f, S \ {x})
  BY <1>1, SumSame
<1>5. SumFunctionOnSet(f, S \ {x}) \in Int /\ f[x] \in Int /\ g[x] \in Int
  BY <1>1, SumType
<1> QED BY <1>2, <1>3, <1>4, <1>5

\* The shares of p in proportion to f, each rounded down, are no more than p together.
LEMMA SumOfShares ==
  ASSUME NEW f, NEW g, NEW S, IsFiniteSet(S), NEW p \in Nat,
         SumFunctionOnSet(f, S) # 0,
         \A x \in S : f[x] \in Nat /\ g[x] = (p * f[x]) \div SumFunctionOnSet(f, S)
  PROVE  SumFunctionOnSet(g, S) <= p
<1> DEFINE sum(k, A) == SumFunctionOnSet(k, A)
           t == sum(f, S)
           T == {A \in SUBSET S : t * sum(g, A) <= p * sum(f, A)}
<1>1. \A A \in SUBSET S : IsFiniteSet(A)
  BY FS_Subset
<1>2. t \in Nat \ {0}
  BY SumNat
<1>3. ASSUME NEW x \in S PROVE g[x] \in Nat /\ t * g[x] <= p * f[x]
  <2>1. f[x] \in Nat /\ g[x] = (p * f[x]) \div t
    OBVIOUS
  <2> HIDE DEF t
  <2> DEFINE a == p * f[x]
  <2>2. a \in Nat
    BY <2>1
  <2> HIDE DEF a
  <2>3. a \div t \in Nat /\ t * (a \div t) <= a
    BY <1>2, <2>2
  <2> QED BY <2>1, <2>3 DEF a
<1>4. {} \in T
  <2>1. sum(f, {}) = 0 /\ sum(g, {}) = 0
    BY SumEquation
  <2> HIDE DEF sum, t
  <2> QED BY <1>2, <2>1
<1>5. ASSUME NEW A \in SUBSET S, NEW x \in S \ A, A \in T PROVE A \cup {x} \in T
  <2>1. IsFiniteSet(A) /\ \A y \in S : f[y] \in Int /\ g[y] \in Int
    BY <1>1, <1>3
  <2>2. sum(f, A) \in Int /\ sum(g, A) \in Int
    BY <2>1, SumType
  <2>3. f[x] \in Nat /\ g[x] \in Nat /\ t * g[x] <= p * f[x]
    BY <1>3
  <2>4. sum(f, A \cup {x}) = sum(f, A) + f[x]
    BY <2>1, <2>3, SumAdd
  <2>5. sum(g, A \cup {x}) = sum(g, A) + g[x]
    BY <2>1, <2>3, SumAdd
  <2>6. t * sum(g, A) <= p * sum(f, A)
    BY <1>5
  <2> HIDE DEF sum, t
  <2>7. /\ t * (sum(g, A) + g[x]) = t * sum(g, A) + t * g[x]
        /\ p * (sum(f, A) + f[x]) = p * sum(f, A) + p * f[x]
        /\ t * sum(g, A) \in Int /\ t * g[x] \in Int /\ p * sum(f, A) \in Int /\ p * f[x] \in Int
    BY <1>2, <2>2, <2>3
  <2>8. t * sum(g, A \cup {x}) <= p * sum(f, A \cup {x})
    BY <2>3, <2>4, <2>5, <2>6, <2>7
  <2> QED BY <2>8
<1> HIDE DEF T
<1>6. S \in T
  BY <1>4, <1>5, FiniteInduction
<1>7. t * sum(g, S) <= p * t
  BY <1>6 DEF T
<1>8. sum(g, S) \in Int
  BY <1>3, SumType
<1> HIDE DEF t, sum
<1>9. sum(g, S) <= p
  <2> DEFINE z == sum(g, S)
  <2> HIDE DEF z
  <2> SUFFICES ASSUME z >= p + 1 PROVE FALSE
    BY <1>8 DEF z
  <2>1. t * z >= t * (p + 1)
    BY <1>2, <1>8 DEF z
  <2>2. t * (p + 1) = p * t + t
    BY <1>2
  <2>3. t * z <= p * t /\ t * z \in Int /\ p * t \in Int
    BY <1>2, <1>7, <1>8 DEF z
  <2> QED BY <1>2, <2>1, <2>2, <2>3
<1> QED BY <1>9 DEF sum

=============================================================================

----------------------------- MODULE NumberLemmas ------------------------------
(***************************************************************************)
(* What several proofs rest on: division, and induction and recursion over *)
(* natural numbers, stated about sets and functions, for the models'       *)
(* recursive functions.                                                    *)
(***************************************************************************)
EXTENDS Integers, WellFoundedInduction, TLAPS

----------------------------------------------------------------------------
(* Division *)

LEMMA DivMod ==
  ASSUME NEW a \in Int, NEW b \in Nat, b > 0
  PROVE  a % b \in 0..b - 1 /\ a \div b \in Int /\ a = (a % b) + (b * (a \div b))
         /\ (a >= 0 => a \div b >= 0)
OBVIOUS

LEMMA DivModOf ==
  ASSUME NEW q \in Int, NEW b \in Nat, b > 0, NEW r \in 0..b - 1
  PROVE  (r + (b * q)) \div b = q /\ (r + (b * q)) % b = r
OBVIOUS

LEMMA ModAgain ==
  ASSUME NEW a \in Nat, NEW b \in Nat, b > 0
  PROVE  (a + b) % b = a % b
<1> DEFINE q == a \div b
           r == a % b
<1>1. r \in 0..b - 1 /\ q \in Int /\ a = r + (b * q)
  BY DivMod
<1> HIDE DEF q, r
<1>2. a + b = r + (b * (q + 1))
  BY <1>1
<1>3. q + 1 \in Int
  BY <1>1
<1>4. (r + (b * (q + 1))) % b = r
  BY <1>1, <1>3, DivModOf
<1> QED
  BY <1>2, <1>4 DEF r

LEMMA ModSmall ==
  ASSUME NEW a \in Nat, NEW b \in Nat, a < b
  PROVE  a % b = a
OBVIOUS

LEMMA DivLess ==
  ASSUME NEW a \in Nat, NEW b \in Nat, b > 0, NEW c \in Nat, a < c * b
  PROVE  a \div b < c
OBVIOUS

\* The multiples of a number are as far apart as it is.
LEMMA TimesUpTo ==
  ASSUME NEW a \in Nat, NEW b \in Nat, NEW c \in Nat, a <= b
  PROVE  c * a <= c * b
<1>1. b = a + (b - a) /\ b - a \in Nat
  OBVIOUS
<1>2. c * b = (c * a) + (c * (b - a))
  BY <1>1
<1>3. c * (b - a) \in Nat /\ c * a \in Nat
  BY <1>1
<1> QED
  BY <1>2, <1>3

\* Digits of two sizes: what is left of n in the larger one is b of the smaller and x.
LEMMA DigitsOfTwo ==
  ASSUME NEW n \in Nat, NEW b \in Nat \ {0}, NEW c \in Nat \ {0}
  PROVE  /\ n \div (b * c) = (n \div b) \div c
         /\ n % (b * c) = (b * ((n \div b) % c)) + (n % b)
<1> DEFINE q == n \div b
           r == n % b
           p == q \div c
           t == q % c
<1>1. r \in 0..b - 1 /\ q \in Nat /\ n = r + (b * q)
  BY DivMod
<1>2. t \in 0..c - 1 /\ p \in Nat /\ q = t + (c * p)
  <2> HIDE DEF q
  <2> QED
    BY <1>1, DivMod
<1> HIDE DEF q, r, p, t
<1>3. n = ((b * t) + r) + ((b * c) * p)
  <2>1. b * q = (b * t) + (b * (c * p))
    BY <1>1, <1>2
  <2>2. b * (c * p) = (b * c) * p
    BY <1>2
  <2> QED
    BY <1>1, <1>2, <2>1, <2>2
<1>4. (b * t) + r \in 0..(b * c) - 1
  <2>1. b * t <= b * (c - 1) /\ b * t \in Nat
    BY <1>2, TimesUpTo
  <2>2. b * (c - 1) = (b * c) - b /\ b * c \in Nat
    OBVIOUS
  <2> QED
    BY <1>1, <2>1, <2>2
<1>5. b * c \in Nat /\ b * c > 0
  <2>1. b * 1 <= b * c
    BY TimesUpTo
  <2> QED
    BY <2>1
<1>6. n \div (b * c) = p /\ n % (b * c) = (b * t) + r
  BY <1>2, <1>3, <1>4, <1>5, DivModOf
<1> QED
  BY <1>6 DEF p, t, q, r

----------------------------------------------------------------------------
(* Induction *)

\* A set of natural numbers has a least element,
LEMMA Least ==
  ASSUME NEW T, T \subseteq Nat, T # {}
  PROVE  \E x \in T : \A y \in T : x <= y
<1>1. \E x \in T : \A y \in T : ~ (<<y, x>> \in OpToRel(<, Nat))
  BY WFMin, NatLessThanWellFounded
<1>2. PICK x \in T : \A y \in T : ~ (<<y, x>> \in OpToRel(<, Nat))
  BY <1>1
<1>3. \A y \in T : x \in Nat /\ y \in Nat
  OBVIOUS
<1>4. ASSUME NEW y \in T, y < x PROVE FALSE
  <2>1. <<y, x>> \in OpToRel(<, Nat)
    BY <1>3, <1>4 DEF OpToRel
  <2> QED
    BY <1>2, <2>1
<1>5. \A y \in T : x <= y
  BY <1>3, <1>4
<1> QED
  BY <1>5

\* and a bounded one has a greatest.
LEMMA Greatest ==
  ASSUME NEW T, T \subseteq Nat, T # {}, NEW b \in Nat, \A x \in T : x <= b
  PROVE  \E x \in T : \A y \in T : y <= x
<1> DEFINE U == {b - x : x \in T}
<1>1. U \subseteq Nat /\ U # {}
  <2>1. ASSUME NEW x \in T PROVE b - x \in Nat
    <3>1. x \in Nat /\ x <= b
      OBVIOUS
    <3> QED
      BY <3>1
  <2> QED
    BY <2>1
<1> HIDE DEF U
<1>2. PICK u \in U : \A v \in U : u <= v
  BY <1>1, Least
<1>3. PICK x \in T : u = b - x
  BY DEF U
<1>4. \A y \in T : b - x <= b - y
  BY <1>2, <1>3 DEF U
<1> QED
  BY <1>4

LEMMA Induct ==
  ASSUME NEW T, T \subseteq Nat, 0 \in T, \A n \in T : n + 1 \in T
  PROVE  T = Nat
<1> SUFFICES ASSUME Nat \ T # {} PROVE FALSE
  OBVIOUS
<1>1. PICK x \in Nat \ T : \A y \in Nat \ T : x <= y
  BY Least
<1>2. x # 0 /\ x - 1 \in Nat
  OBVIOUS
<1>3. x - 1 \in T
  BY <1>1, <1>2
<1>4. (x - 1) + 1 = x
  OBVIOUS
<1> QED
  BY <1>3, <1>4

\* Up to a number.
LEMMA InductTo ==
  ASSUME NEW n \in Nat, NEW T, 0 \in T, \A k \in 0..(n - 1) : k \in T => k + 1 \in T
  PROVE  0..n \subseteq T
<1> DEFINE U == {k \in Nat : k <= n => k \in T}
<1>1. 0 \in U
  OBVIOUS
<1>2. ASSUME NEW k \in U PROVE k + 1 \in U
  <2>1. CASE k + 1 <= n
    <3>1. k \in 0..(n - 1) /\ k \in T
      BY <2>1
    <3> QED
      BY <3>1
  <2>2. CASE ~ (k + 1 <= n)
    BY <2>2
  <2> QED
    BY <2>1, <2>2
<1> HIDE DEF U
<1>3. U = Nat
  <2>1. U \subseteq Nat
    BY DEF U
  <2> QED
    BY <1>1, <1>2, <2>1, Induct
<1> QED
  BY <1>3 DEF U

\* What F makes at x of a function depends only on its values where the measure m, up
\* to b, is less.
Descends(D, V, b, m, F) ==
  /\ V # {} /\ b \in Nat /\ m \in [D -> 0..b]
  /\ F \in [D -> [[D -> V] -> V]]
  /\ \A x \in D : \A g, h \in [D -> V] :
       (\A y \in D : m[y] < m[x] => g[y] = h[y]) => F[x][g] = F[x][h]

\* Then the recursive function F defines exists.
LEMMA Recursed ==
  ASSUME NEW D, NEW V, NEW b, NEW m, NEW F, Descends(D, V, b, m, F)
  PROVE  \E f \in [D -> V] : \A x \in D : f[x] = F[x][f]
<1> USE DEF Descends
<1> DEFINE Right(f, k) == \A x \in D : m[x] < k => f[x] = F[x][f]
           T == {k \in Nat : \E f \in [D -> V] : Right(f, k)}
<1>0. \A x \in D : m[x] \in Nat /\ m[x] <= b
  OBVIOUS
<1>1. 0 \in T
  <2>1. PICK v \in V : TRUE
    OBVIOUS
  <2>2. [x \in D |-> v] \in [D -> V] /\ Right([x \in D |-> v], 0)
    BY <1>0
  <2> QED
    BY <2>2
<1>2. ASSUME NEW k \in T PROVE k + 1 \in T
  <2>1. PICK f \in [D -> V] : Right(f, k)
    BY <1>2
  <2> DEFINE g == [x \in D |-> IF m[x] < k THEN f[x] ELSE F[x][f]]
  <2>2. g \in [D -> V]
    OBVIOUS
  <2>3. \A y \in D : m[y] < k => f[y] = g[y]
    OBVIOUS
  <2>4. ASSUME NEW x \in D, m[x] < k + 1 PROVE g[x] = F[x][g]
    <3>1. g[x] = F[x][f]
      BY <2>1
    <3>2. \A y \in D : m[y] < m[x] => f[y] = g[y]
      BY <1>0, <2>3, <2>4
    <3> HIDE DEF g
    <3>3. F[x][f] = F[x][g]
      BY <2>2, <3>2
    <3> QED
      BY <3>1, <3>3
  <2> HIDE DEF g
  <2>5. Right(g, k + 1)
    BY <2>4
  <2> QED
    BY <2>2, <2>5
<1> HIDE DEF T
<1>3. T = Nat
  <2>1. T \subseteq Nat
    BY DEF T
  <2> QED
    BY <1>1, <1>2, <2>1, Induct
<1>4. PICK f \in [D -> V] : Right(f, b + 1)
  <2>1. b + 1 \in T
    BY <1>3
  <2> QED
    BY <2>1 DEF T
<1> QED
  BY <1>0, <1>4

\* So does one that goes on from its last value.
Iterates(n, V, v0, G) == n \in Nat /\ v0 \in V /\ G \in [1..n -> [V -> V]]

LEMMA Iterated ==
  ASSUME NEW n, NEW V, NEW v0, NEW G, Iterates(n, V, v0, G)
  PROVE  \E f \in [0..n -> V] : \A k \in 0..n : f[k] = IF k = 0 THEN v0 ELSE G[k][f[k - 1]]
<1> USE DEF Iterates
<1> DEFINE D == 0..n
           F == [k \in D |-> [g \in [D -> V] |-> IF k = 0 THEN v0 ELSE G[k][g[k - 1]]]]
<1>1. PICK m \in [D -> 0..n] : \A x \in D : m[x] = x
  <2>1. [x \in D |-> x] \in [D -> 0..n]
    OBVIOUS
  <2> QED
    BY <2>1
<1>2. ASSUME NEW k \in D, k # 0 PROVE k \in 1..n /\ k - 1 \in D /\ k - 1 < k
  BY <1>2
<1>3. ASSUME NEW k \in D, NEW g \in [D -> V]
      PROVE  (IF k = 0 THEN v0 ELSE G[k][g[k - 1]]) \in V
  <2>1. CASE k # 0
    <3>1. g[k - 1] \in V /\ G[k] \in [V -> V]
      BY <1>2, <2>1
    <3> QED
      BY <2>1, <3>1
  <2> QED
    BY <2>1
<1>4. F \in [D -> [[D -> V] -> V]]
  <2> HIDE DEF D
  <2> QED
    BY <1>3
<1>5. ASSUME NEW k \in D, NEW g \in [D -> V], NEW h \in [D -> V],
             \A y \in D : m[y] < m[k] => g[y] = h[y]
      PROVE  F[k][g] = F[k][h]
  <2>1. CASE k # 0
    <3>1. g[k - 1] = h[k - 1]
      BY <1>1, <1>2, <1>5, <2>1
    <3> QED
      BY <2>1, <3>1
  <2>2. CASE k = 0
    BY <2>2
  <2> QED
    BY <2>1, <2>2
<1>6. \A k \in D : \A g \in [D -> V] : F[k][g] = IF k = 0 THEN v0 ELSE G[k][g[k - 1]]
  OBVIOUS
<1> HIDE DEF F
<1>7. Descends(D, V, n, m, F)
  BY <1>4, <1>5 DEF Descends
<1> HIDE DEF D
<1>8. PICK f \in [D -> V] : \A k \in D : f[k] = F[k][f]
  BY <1>7, Recursed
<1>9. \A k \in D : f[k] = IF k = 0 THEN v0 ELSE G[k][f[k - 1]]
  BY <1>6, <1>8
<1> QED
  BY <1>9 DEF D
=============================================================================

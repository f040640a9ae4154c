----------------------------- MODULE RsaProofs -----------------------------
(***************************************************************************)
(* A byte that crosses a connection under a key of two primes arrives as   *)
(* it was sent, whatever rand() can draw: Fermat's theorem, from which it  *)
(* follows, and the remainders of C, which take the sign of the dividend.  *)
(***************************************************************************)
EXTENDS Rsa, SequenceFacts, FiniteSetTheorems

Divides(d, x) == \E k \in Int : x = d * k

Positive == Nat \ {0}

-----------------------------------------------------------------------------
(* Divisibility.                                                           *)

LEMMA DividesItself ==
    ASSUME NEW d \in Int, NEW k \in Int
    PROVE  Divides(d, d * k)
BY DEF Divides

LEMMA DividesSum ==
    ASSUME NEW d \in Int, NEW x \in Int, NEW y \in Int,
           Divides(d, x), Divides(d, y)
    PROVE  Divides(d, x + y) /\ Divides(d, x - y)
<1>1. PICK k \in Int : x = d * k
  BY DEF Divides
<1>2. PICK j \in Int : y = d * j
  BY DEF Divides
<1>3. x + y = d * (k + j) /\ x - y = d * (k - j)
  BY <1>1, <1>2
<1>4. k + j \in Int /\ k - j \in Int
  OBVIOUS
<1> QED
  BY <1>3, <1>4 DEF Divides

LEMMA DividesProduct ==
    ASSUME NEW d \in Int, NEW x \in Int, NEW z \in Int, Divides(d, x)
    PROVE  Divides(d, x * z) /\ Divides(d, z * x)
<1>1. PICK k \in Int : x = d * k
  BY DEF Divides
<1>2. x * z = d * (k * z) /\ z * x = d * (k * z)
  BY <1>1
<1>3. k * z \in Int
  OBVIOUS
<1> QED
  BY <1>2, <1>3 DEF Divides

(* Of equal remainders, one may take the place of the other in a sum or a  *)
(* product.                                                                *)
LEMMA DividesThrough ==
    ASSUME NEW d \in Int, NEW x \in Int, NEW y \in Int, NEW z \in Int,
           Divides(d, x - y), Divides(d, y - z)
    PROVE  Divides(d, x - z)
<1>1. x - z = (x - y) + (y - z)
  OBVIOUS
<1> QED
  BY <1>1, DividesSum

LEMMA DividesBack ==
    ASSUME NEW d \in Int, NEW x \in Int, NEW y \in Int, Divides(d, x - y)
    PROVE  Divides(d, y - x)
<1>1. PICK k \in Int : x - y = d * k
  BY DEF Divides
<1>2. y - x = d * (-k) /\ -k \in Int
  BY <1>1
<1> QED
  BY <1>2 DEF Divides

LEMMA DividesProducts ==
    ASSUME NEW d \in Int, NEW x \in Int, NEW y \in Int,
           NEW u \in Int, NEW v \in Int, Divides(d, x - y), Divides(d, u - v)
    PROVE  Divides(d, x * u - y * v)
<1>1. Divides(d, (x - y) * u) /\ Divides(d, y * (u - v))
  <2>1. x - y \in Int /\ u - v \in Int
    OBVIOUS
  <2> QED
    BY <2>1, DividesProduct
<1>2. /\ (x - y) * u \in Int
      /\ y * (u - v) \in Int
      /\ x * u - y * v = (x - y) * u + y * (u - v)
  OBVIOUS
<1> QED
  BY <1>1, <1>2, DividesSum

LEMMA DivisorOf ==
    ASSUME NEW d \in Positive, NEW x \in Int
    PROVE  /\ x % d \in 0 .. d - 1
           /\ Divides(d, x - (x % d)) /\ Divides(d, (x % d) - x)
<1>1. d \in Int /\ d > 0
  BY DEF Positive
<1>2. x \div d \in Int /\ x % d \in 0 .. d - 1
  BY <1>1
<1>3. x = d * (x \div d) + (x % d)
  BY <1>1
<1>4. x - (x % d) = d * (x \div d)
  BY <1>1, <1>2, <1>3
<1>5. Divides(d, x - (x % d))
  BY <1>2, <1>4 DEF Divides
<1> QED
  BY <1>1, <1>2, <1>5, DividesBack

(* Nothing small is divided but zero.                                      *)
LEMMA DividesNothingSmall ==
    ASSUME NEW d \in Positive, NEW x \in Int, -d < x, x < d, Divides(d, x)
    PROVE  x = 0
<1>1. d \in Int /\ d > 0
  BY DEF Positive
<1>2. PICK k \in Int : x = d * k
  BY DEF Divides
<1>3. ~(k >= 1)
  <2>1. ASSUME k >= 1 PROVE d * k >= d
    BY <1>1, <2>1
  <2> QED
    BY <1>1, <1>2, <2>1
<1>4. ~(k <= -1)
  <2>1. ASSUME k <= -1 PROVE d * k <= -d
    BY <1>1, <2>1
  <2> QED
    BY <1>1, <1>2, <2>1
<1>5. k = 0
  BY <1>3, <1>4
<1> QED
  BY <1>1, <1>2, <1>5

LEMMA ZeroRemainder ==
    ASSUME NEW d \in Positive, NEW x \in Int
    PROVE  x % d = 0 <=> Divides(d, x)
<1> DEFINE r == x % d
<1>1. d \in Int /\ r \in 0 .. d - 1 /\ r \in Int /\ Divides(d, x - r)
  <2>1. r \in 0 .. d - 1 /\ Divides(d, x - r)
    BY DivisorOf
  <2> QED
    BY <2>1 DEF Positive
<1> HIDE DEF r
<1>2. ASSUME r = 0 PROVE Divides(d, x)
  <2>1. x - r = x
    BY <1>2
  <2> QED
    BY <1>1, <2>1
<1>3. ASSUME Divides(d, x) PROVE r = 0
  <2>1. Divides(d, x - (x - r)) /\ x - (x - r) = r
    BY <1>1, <1>3, DividesSum
  <2>2. -d < r /\ r < d
    BY <1>1
  <2> QED
    BY <1>1, <2>1, <2>2, DividesNothingSmall
<1> QED
  BY <1>2, <1>3 DEF r

LEMMA SameRemainder ==
    ASSUME NEW d \in Positive, NEW x \in Int, NEW y \in Int
    PROVE  x % d = y % d <=> Divides(d, x - y)
<1> DEFINE r == x % d
           t == y % d
<1>1. /\ d \in Int /\ r \in 0 .. d - 1 /\ t \in 0 .. d - 1
      /\ r \in Int /\ t \in Int
      /\ Divides(d, x - r) /\ Divides(d, r - x)
      /\ Divides(d, y - t) /\ Divides(d, t - y)
  <2>1. /\ r \in 0 .. d - 1 /\ Divides(d, x - r) /\ Divides(d, r - x)
        /\ t \in 0 .. d - 1 /\ Divides(d, y - t) /\ Divides(d, t - y)
    BY DivisorOf
  <2> QED
    BY <2>1 DEF Positive
<1> HIDE DEF r, t
<1>2. ASSUME r = t PROVE Divides(d, x - y)
  BY <1>1, <1>2, DividesThrough
<1>3. ASSUME Divides(d, x - y) PROVE r = t
  <2>1. Divides(d, r - y)
    BY <1>1, <1>3, DividesThrough
  <2>2. Divides(d, r - t)
    BY <1>1, <2>1, DividesThrough
  <2>3. r - t \in Int /\ -d < r - t /\ r - t < d
    BY <1>1
  <2>4. r - t = 0
    BY <2>2, <2>3, DividesNothingSmall
  <2> QED
    BY <1>1, <2>4
<1> QED
  BY <1>2, <1>3 DEF r, t

-----------------------------------------------------------------------------
(* Primes.                                                                 *)

Prime == {k \in Positive : IsPrime(k)}

LEMMA PrimeTyped ==
    ASSUME NEW p \in Prime
    PROVE  p \in Positive /\ p \in Int /\ p > 1
BY DEF Prime, Positive, IsPrime

LEMMA PrimeDivisor ==
    ASSUME NEW p \in Prime, NEW d \in 1 .. p, Divides(d, p)
    PROVE  d = 1 \/ d = p
<1>1. p \in Positive /\ p \in Int /\ \A k \in 2 .. p - 1 : p % k # 0
  BY PrimeTyped DEF Prime, IsPrime
<1>2. d \in Positive /\ p % d = 0
  BY <1>1, ZeroRemainder DEF Positive
<1> QED
  BY <1>1, <1>2

(* The least multiplier m of b that p divides divides every other: p is    *)
(* one, so that m is 1 or p; and if a is one, p divides b or a.            *)
LEMMA Euclid ==
    ASSUME NEW p \in Prime, NEW a \in Int, NEW b \in Int, Divides(p, a * b)
    PROVE  Divides(p, a) \/ Divides(p, b)
<1>1. p \in Positive /\ p \in Int /\ p > 1
  BY PrimeTyped
<1> DEFINE I == {m \in Positive : Divides(p, m * b)}
<1>2. p \in I
  BY <1>1, DividesItself
<1>3. PICK m \in I : \A k \in I : m <= k
  <2>1. I \subseteq Nat /\ I # {}
    BY <1>2 DEF Positive
  <2> HIDE DEF I
  <2> QED
    BY <2>1, LeastNatural
<1>4. m \in Positive /\ m \in Int /\ Divides(p, m * b)
  BY DEF Positive
<1>5. ASSUME NEW k \in Int, Divides(p, k * b) PROVE Divides(m, k)
  <2> DEFINE r == k % m
  <2>1. r \in 0 .. m - 1 /\ Divides(m, k - r)
    BY <1>4, DivisorOf
  <2>2. r \in Int /\ r < m
    BY <1>4, <2>1
  <2>3. r = k % m
    OBVIOUS
  <2> HIDE DEF r
  <2>4. PICK j \in Int : k - r = m * j
    BY <2>1 DEF Divides
  <2>5. r * b = k * b - j * (m * b)
    <3>1. r = k - j * m
      BY <1>4, <2>2, <2>4
    <3>2. (k - j * m) * b = k * b - j * (m * b)
      BY <1>4
    <3> QED
      BY <3>1, <3>2
  <2>6. k * b \in Int /\ m * b \in Int /\ j * (m * b) \in Int
    BY <1>4
  <2>7. Divides(p, j * (m * b))
    BY <1>1, <1>4, <2>6, DividesProduct
  <2>8. Divides(p, r * b)
    BY <1>1, <1>5, <2>5, <2>6, <2>7, DividesSum
  <2>9. r = 0
    <3>1. r \notin I
      BY <1>3, <1>4, <2>2
    <3> QED
      BY <1>4, <2>1, <2>8, <3>1 DEF Positive
  <2> QED
    BY <1>4, <2>3, <2>9, ZeroRemainder
<1>6. m = 1 \/ m = p
  <2>1. Divides(p, p * b)
    BY <1>1, DividesItself
  <2>2. Divides(m, p)
    BY <1>1, <1>5, <2>1
  <2>3. m \in 1 .. p
    BY <1>1, <1>2, <1>3, <1>4 DEF Positive
  <2> QED
    BY <2>2, <2>3, PrimeDivisor
<1>7. CASE m = 1
  <2>1. 1 * b = b
    OBVIOUS
  <2> QED
    BY <1>4, <1>7, <2>1
<1>8. CASE m = p
  BY <1>5, <1>8
<1> QED
  BY <1>6, <1>7, <1>8

(* Two primes together.                                                    *)
LEMMA BothDivide ==
    ASSUME NEW p \in Prime, NEW q \in Prime, p # q, NEW x \in Int,
           Divides(p, x), Divides(q, x)
    PROVE  Divides(p * q, x)
<1>1. /\ p \in Positive /\ p \in Int /\ p > 1
      /\ q \in Positive /\ q \in Int /\ q > 1
  BY PrimeTyped
<1>2. PICK y \in Int : x = p * y
  BY DEF Divides
<1>3. ~Divides(q, p)
  <2>1. SUFFICES ASSUME Divides(q, p) PROVE FALSE
    OBVIOUS
  <2>2. p % q = 0
    BY <1>1, <2>1, ZeroRemainder
  <2>3. q <= p
    BY <1>1, <2>2
  <2>4. q \in 1 .. p
    BY <1>1, <2>3
  <2> QED
    BY <1>1, <2>1, <2>4, PrimeDivisor
<1>4. PICK z \in Int : y = q * z
  BY <1>1, <1>2, <1>3, Euclid DEF Divides
<1>5. x = (p * q) * z
  BY <1>1, <1>2, <1>4
<1> QED
  BY <1>5 DEF Divides

-----------------------------------------------------------------------------
(* Powers, up to a limit.                                                  *)

Powers(f, a, N) ==
    /\ \A i \in 0 .. N : f[i] \in Int
    /\ f[0] = 1
    /\ \A i \in 1 .. N : f[i] = f[i - 1] * a

LEMMA PowersExist ==
    ASSUME NEW a \in Int, NEW N \in Nat
    PROVE  \E f : Powers(f, a, N)
<1> DEFINE F == [x \in Int \X (1 .. N) |-> x[1] * a]
<1>1. \A x \in Int, i \in 1 .. N : F[<<x, i>>] = x * a
  OBVIOUS
<1> HIDE DEF F
<1>2. StaysIn(F, Int, N)
  <2>1. ASSUME NEW x \in Int, NEW i \in 1 .. N PROVE F[<<x, i>>] \in Int
    <3>1. x * a \in Int
      OBVIOUS
    <3> QED
      BY <1>1, <3>1
  <2> QED
    BY <2>1 DEF StaysIn
<1>3. PICK f \in [0 .. N -> Int] : Recurs(f, 1, F, N)
  <2>1. 1 \in Int
    OBVIOUS
  <2> QED
    BY <1>2, <2>1, RecursionExists
<1>4. ASSUME NEW i \in 1 .. N PROVE f[i] = f[i - 1] * a
  <2>1. i - 1 \in 0 .. N
    OBVIOUS
  <2>2. f[i - 1] \in Int /\ f[i] = F[<<f[i - 1], i>>]
    BY <1>3, <2>1 DEF Recurs
  <2> QED
    BY <1>1, <2>2
<1>5. f[0] = 1 /\ \A i \in 0 .. N : f[i] \in Int
  BY <1>3 DEF Recurs
<1> QED
  BY <1>4, <1>5 DEF Powers

LEMMA PowersBelow ==
    ASSUME NEW f, NEW a \in Int, NEW N \in Nat, Powers(f, a, N), NEW M \in 0 .. N
    PROVE  Powers(f, a, M)
BY DEF Powers

LEMMA PowersSum ==
    ASSUME NEW f, NEW a \in Int, NEW N \in Nat, Powers(f, a, N),
           NEW i \in 0 .. N, NEW j \in 0 .. N - i
    PROVE  f[i + j] = f[i] * f[j]
<1> DEFINE J == {k \in 0 .. N - i : f[i + k] = f[i] * f[k]}
<1>1. 0 \in J
  BY DEF Powers
<1>2. ASSUME NEW k \in 1 .. N - i, k - 1 \in J PROVE k \in J
  <2>1. /\ k \in 1 .. N /\ k - 1 \in 0 .. N /\ i + k \in 1 .. N
        /\ i + k - 1 = i + (k - 1) /\ k \in 0 .. N - i
    OBVIOUS
  <2>2. /\ f[i] \in Int /\ f[k - 1] \in Int /\ f[k] = f[k - 1] * a
        /\ f[i + k] = f[i + (k - 1)] * a
    BY <2>1 DEF Powers
  <2>3. f[i + k] = (f[i] * f[k - 1]) * a
    BY <1>2, <2>2
  <2>4. f[i + k] = f[i] * f[k]
    BY <2>2, <2>3
  <2> QED
    BY <2>1, <2>4
<1> HIDE DEF J
<1>3. N - i \in Nat
  OBVIOUS
<1>4. j \in J
  BY <1>1, <1>2, <1>3, IndexInduction
<1> QED
  BY <1>4 DEF J

LEMMA MultiplesOrdered ==
    ASSUME NEW d \in Nat, NEW x \in Nat, NEW y \in Nat, x <= y
    PROVE  d * x <= d * y
<1>1. y - x \in Nat
  OBVIOUS
<1>2. d * (y - x) >= 0
  BY <1>1
<1>3. d * (y - x) = d * y - d * x /\ d * x \in Nat /\ d * y \in Nat
  BY <1>1
<1> QED
  BY <1>2, <1>3

LEMMA PowerOfPower ==
    ASSUME NEW d \in Nat, NEW e \in Nat, NEW N \in Nat, N = d * e, e # 0,
           NEW a \in Int, NEW f, Powers(f, a, N), NEW g, Powers(g, f[d], e)
    PROVE  g[e] = f[N]
<1> DEFINE J == {j \in 0 .. e : g[j] = f[d * j]}
<1>1. 0 \in J
  BY DEF Powers
<1>2. ASSUME NEW j \in 1 .. e, j - 1 \in J PROVE j \in J
  <2>1. /\ j \in 0 .. e /\ j - 1 \in Nat /\ d * (j - 1) \in Nat
        /\ d * j = d * (j - 1) + d /\ d * j \in Nat
    OBVIOUS
  <2>2. d * j <= N
    BY MultiplesOrdered
  <2>3. d * (j - 1) \in 0 .. N /\ d \in 0 .. N - d * (j - 1)
    BY <2>1, <2>2
  <2>4. f[d * (j - 1) + d] = f[d * (j - 1)] * f[d]
    BY <2>1, <2>3, PowersSum
  <2>5. g[j] = g[j - 1] * f[d]
    BY DEF Powers
  <2>6. g[j] = f[d * j]
    BY <1>2, <2>1, <2>4, <2>5
  <2> QED
    BY <2>1, <2>6
<1> HIDE DEF J
<1>3. \A j \in 0 .. e : j \in J
  BY <1>1, <1>2, IndexInduction
<1>4. e \in J
  BY <1>3
<1> QED
  BY <1>4 DEF J

LEMMA PowersOfSame ==
    ASSUME NEW d \in Int, NEW a \in Int, NEW b \in Int, Divides(d, a - b),
           NEW N \in Nat, NEW f, NEW g, Powers(f, a, N), Powers(g, b, N)
    PROVE  \A i \in 0 .. N : Divides(d, f[i] - g[i])
<1> DEFINE J == {i \in 0 .. N : Divides(d, f[i] - g[i])}
<1>1. 0 \in J
  <2>1. f[0] - g[0] = d * 0 /\ 0 \in Int /\ 0 \in 0 .. N
    BY DEF Powers
  <2>2. Divides(d, f[0] - g[0])
    BY <2>1 DEF Divides
  <2> QED
    BY <2>1, <2>2
<1>2. ASSUME NEW i \in 1 .. N, i - 1 \in J PROVE i \in J
  <2>1. i - 1 \in 0 .. N /\ i \in 0 .. N
    OBVIOUS
  <2>2. /\ f[i - 1] \in Int /\ g[i - 1] \in Int
        /\ f[i] = f[i - 1] * a /\ g[i] = g[i - 1] * b
    BY <2>1 DEF Powers
  <2>3. Divides(d, f[i - 1] * a - g[i - 1] * b)
    BY <1>2, <2>2, DividesProducts
  <2> QED
    BY <2>1, <2>2, <2>3
<1> HIDE DEF J
<1>3. \A i \in 0 .. N : i \in J
  BY <1>1, <1>2, IndexInduction
<1> QED
  BY <1>3 DEF J

LEMMA PowerOfRemainder ==
    ASSUME NEW d \in Nat, NEW e \in Nat, NEW N \in Nat, N = d * e, e # 0,
           NEW a \in Int, NEW f, Powers(f, a, N),
           NEW m \in Int, NEW y \in Int, Divides(m, y - f[d]),
           NEW g, Powers(g, y, e)
    PROVE  Divides(m, g[e] - f[N])
<1>1. f[d] \in Int
  <2>1. 1 \in Nat /\ 1 <= e
    OBVIOUS
  <2>2. d * 1 <= N /\ d * 1 = d
    BY <2>1, MultiplesOrdered
  <2>3. d \in 0 .. N
    BY <2>2
  <2> QED
    BY <2>3 DEF Powers
<1>2. PICK h : Powers(h, f[d], e)
  BY <1>1, PowersExist
<1>3. h[e] = f[N]
  BY <1>2, PowerOfPower
<1>4. Divides(m, g[e] - h[e])
  <2>1. e \in 0 .. e
    OBVIOUS
  <2> QED
    BY <1>1, <1>2, <2>1, PowersOfSame
<1> QED
  BY <1>3, <1>4

(* What leaves 1 leaves 1 to every power.                                  *)
LEMMA PowerOfOne ==
    ASSUME NEW d \in Nat, NEW e \in Nat, NEW N \in Nat, N = d * e, e # 0,
           NEW a \in Int, NEW f, Powers(f, a, N), d \in 0 .. N,
           NEW m \in Int, Divides(m, f[d] - 1)
    PROVE  Divides(m, f[N] - 1)
<1> DEFINE ones == [i \in 0 .. e |-> 1]
<1>1. Powers(ones, 1, e) /\ ones[e] = 1 /\ 1 \in Int
  BY DEF Powers
<1> HIDE DEF ones
<1>2. f[d] \in Int /\ f[N] \in Int
  BY DEF Powers
<1>3. Divides(m, 1 - f[d])
  BY <1>1, <1>2, DividesBack
<1>4. Divides(m, ones[e] - f[N])
  BY <1>1, <1>3, PowerOfRemainder
<1> QED
  BY <1>1, <1>2, <1>4, DividesBack

(* Powers of a negative number alternate, which is what C's remainders     *)
(* keep.                                                                   *)
Signed(x, y) == (y >= 0 => x >= 0) /\ (y <= 0 => x <= 0)

LEMMA SignOfProduct ==
    ASSUME NEW x \in Int, NEW y \in Int
    PROVE  /\ x >= 0 /\ y >= 0 => x * y >= 0
           /\ x <= 0 /\ y >= 0 => x * y <= 0
           /\ x >= 0 /\ y <= 0 => x * y <= 0
           /\ x <= 0 /\ y <= 0 => x * y >= 0
OBVIOUS

LEMMA PowersSigned ==
    ASSUME NEW a \in Int, NEW N \in Nat, NEW f, Powers(f, a, N)
    PROVE  \A i \in 0 .. N : i % 2 = 1 => Signed(f[i], a)
<1> DEFINE J == {i \in 0 .. N :
                    /\ a >= 0 => f[i] >= 0
                    /\ a <= 0 /\ i % 2 = 0 => f[i] >= 0
                    /\ a <= 0 /\ i % 2 = 1 => f[i] <= 0}
<1>1. 0 \in J
  BY DEF Powers
<1>2. ASSUME NEW i \in 1 .. N, i - 1 \in J PROVE i \in J
  <2>1. i - 1 \in 0 .. N /\ i \in 0 .. N
    OBVIOUS
  <2>2. f[i - 1] \in Int /\ f[i] = f[i - 1] * a
    BY <2>1 DEF Powers
  <2>3. i % 2 = 0 => (i - 1) % 2 = 1
    OBVIOUS
  <2>4. i % 2 = 1 => (i - 1) % 2 = 0
    OBVIOUS
  <2>5. /\ f[i - 1] >= 0 /\ a >= 0 => f[i] >= 0
        /\ f[i - 1] <= 0 /\ a <= 0 => f[i] >= 0
        /\ f[i - 1] >= 0 /\ a <= 0 => f[i] <= 0
    BY <2>2, SignOfProduct
  <2> QED
    BY <1>2, <2>1, <2>3, <2>4, <2>5
<1> HIDE DEF J
<1>3. \A i \in 0 .. N : i \in J
  BY <1>1, <1>2, IndexInduction
<1> QED
  BY <1>3 DEF J, Signed

-----------------------------------------------------------------------------
(* Fermat's theorem: multiplying by a, which p does not divide, leads from *)
(* any of 1 .. p - 1 round an orbit, all orbits have as many elements as   *)
(* the order of a, and so that order divides p - 1.                        *)

LEMMA SmallNotDivided ==
    ASSUME NEW p \in Prime, NEW x \in 1 .. p - 1
    PROVE  ~Divides(p, x)
<1>1. p \in Positive /\ p \in Int /\ x \in Int /\ -p < x /\ x < p /\ x # 0
  BY PrimeTyped DEF Positive
<1> QED
  BY <1>1, DividesNothingSmall

LEMMA CommonFactor ==
    ASSUME NEW p \in Prime, NEW a \in Int, ~Divides(p, a),
           NEW x \in Int, NEW y \in Int, Divides(p, a * x - a * y)
    PROVE  Divides(p, x - y)
<1>1. a * x - a * y = a * (x - y) /\ x - y \in Int
  OBVIOUS
<1> QED
  BY <1>1, Euclid

LEMMA PowersNotDivided ==
    ASSUME NEW p \in Prime, NEW a \in Int, ~Divides(p, a),
           NEW N \in Nat, NEW f, Powers(f, a, N)
    PROVE  \A i \in 0 .. N : ~Divides(p, f[i])
<1> DEFINE J == {i \in 0 .. N : ~Divides(p, f[i])}
<1>1. 0 \in J
  <2>1. f[0] = 1 /\ 1 \in 1 .. p - 1
    BY PrimeTyped DEF Powers
  <2> QED
    BY <2>1, SmallNotDivided
<1>2. ASSUME NEW i \in 1 .. N, i - 1 \in J PROVE i \in J
  <2>1. i - 1 \in 0 .. N /\ i \in 0 .. N
    OBVIOUS
  <2>2. f[i - 1] \in Int /\ f[i] = f[i - 1] * a
    BY <2>1 DEF Powers
  <2> QED
    BY <1>2, <2>1, <2>2, Euclid
<1> HIDE DEF J
<1>3. \A i \in 0 .. N : i \in J
  BY <1>1, <1>2, IndexInduction
<1> QED
  BY <1>3 DEF J

LEMMA ProductIsResidue ==
    ASSUME NEW p \in Prime, NEW x \in 1 .. p - 1, NEW y \in Int, ~Divides(p, y)
    PROVE  (x * y) % p \in 1 .. p - 1
<1>1. p \in Positive /\ p \in Int /\ x \in Int /\ x * y \in Int
  BY PrimeTyped
<1>2. ~Divides(p, x * y)
  BY <1>1, Euclid, SmallNotDivided
<1>3. (x * y) % p # 0 /\ (x * y) % p \in 0 .. p - 1
  BY <1>1, <1>2, ZeroRemainder, DivisorOf
<1> QED
  BY <1>1, <1>3

(* The order of what f holds the powers of.                                *)
Order(k, f, p) ==
    /\ k \in 1 .. p - 1
    /\ Divides(p, f[k] - 1)
    /\ \A i \in 1 .. k - 1 : ~Divides(p, f[i] - 1)

LEMMA PowersCancel ==
    ASSUME NEW p \in Prime, NEW a \in Int, ~Divides(p, a),
           NEW N \in Nat, NEW f, Powers(f, a, N),
           NEW i \in 0 .. N, NEW j \in i .. N, Divides(p, f[j] - f[i])
    PROVE  Divides(p, f[j - i] - 1)
<1>1. j - i \in 0 .. N - i /\ j - i \in 0 .. N /\ i + (j - i) = j
  OBVIOUS
<1>2. f[i] \in Int /\ f[j - i] \in Int /\ f[j] = f[i] * f[j - i]
  BY <1>1, PowersSum DEF Powers
<1>3. ~Divides(p, f[i])
  BY PowersNotDivided
<1>4. Divides(p, f[i] * f[j - i] - f[i] * 1) /\ 1 \in Int
  <2>1. f[j] - f[i] = f[i] * f[j - i] - f[i] * 1
    BY <1>2
  <2> QED
    BY <2>1
<1> QED
  BY <1>2, <1>3, <1>4, CommonFactor

LEMMA OrderExists ==
    ASSUME NEW p \in Prime, NEW a \in Int, ~Divides(p, a),
           NEW f, Powers(f, a, p - 1)
    PROVE  \E k : Order(k, f, p)
<1>1. p \in Positive /\ p \in Int /\ p > 1 /\ p - 1 \in Nat
  BY PrimeTyped DEF Positive
<1> DEFINE g == [i \in 0 .. p - 1 |-> f[i] % p]
<1>2. ASSUME NEW i \in 0 .. p - 1
      PROVE  f[i] \in Int /\ ~Divides(p, f[i]) /\ f[i] % p \in 1 .. p - 1
  <2>1. f[i] \in Int /\ ~Divides(p, f[i])
    BY <1>1, PowersNotDivided DEF Powers
  <2>2. f[i] % p # 0 /\ f[i] % p \in 0 .. p - 1
    BY <1>1, <2>1, ZeroRemainder, DivisorOf
  <2> QED
    BY <1>1, <2>1, <2>2
<1>3. PICK x, y \in 0 .. p - 1 : x # y /\ g[x] = g[y]
  <2>1. /\ IsFiniteSet(0 .. p - 1) /\ Cardinality(0 .. p - 1) = p
        /\ IsFiniteSet(1 .. p - 1) /\ Cardinality(1 .. p - 1) = p - 1
    BY <1>1, FS_Interval
  <2>2. g \in [0 .. p - 1 -> 1 .. p - 1]
    BY <1>2
  <2> HIDE DEF g
  <2>3. Cardinality(1 .. p - 1) < Cardinality(0 .. p - 1)
    BY <1>1, <2>1
  <2> QED
    BY <2>1, <2>2, <2>3, FS_PigeonHole
<1>4. f[x] % p = f[y] % p
  BY <1>3
<1> HIDE DEF g
<1>5. Divides(p, f[x] - f[y]) /\ Divides(p, f[y] - f[x])
  BY <1>1, <1>2, <1>4, SameRemainder
<1> DEFINE I == {k \in 1 .. p - 1 : Divides(p, f[k] - 1)}
<1>6. I # {}
  <2>1. CASE x < y
    <3>1. y \in x .. p - 1 /\ y - x \in 1 .. p - 1
      BY <1>1, <2>1
    <3> QED
      BY <1>1, <1>5, <3>1, PowersCancel
  <2>2. CASE y < x
    <3>1. x \in y .. p - 1 /\ x - y \in 1 .. p - 1
      BY <1>1, <2>2
    <3> QED
      BY <1>1, <1>5, <3>1, PowersCancel
  <2>3. x < y \/ y < x
    BY <1>3
  <2> QED
    BY <2>1, <2>2, <2>3
<1>7. PICK k \in I : \A i \in I : k <= i
  <2>1. I \subseteq Nat
    BY <1>1
  <2> HIDE DEF I
  <2> QED
    BY <1>6, <2>1, LeastNatural
<1>8. ASSUME NEW i \in 1 .. k - 1 PROVE ~Divides(p, f[i] - 1)
  <2>1. i \in 1 .. p - 1 /\ ~(k <= i)
    BY <1>1
  <2> QED
    BY <1>7, <2>1
<1> QED
  BY <1>7, <1>8 DEF Order

Orbit(x, f, k, p) == {(x * f[i]) % p : i \in 0 .. k - 1}

ClosedUnder(S, a, p) == \A x \in S : (x * a) % p \in S

LEMMA OrbitSize ==
    ASSUME NEW p \in Prime, NEW a \in Int, ~Divides(p, a),
           NEW f, Powers(f, a, p - 1), NEW k, Order(k, f, p),
           NEW x \in 1 .. p - 1
    PROVE  IsFiniteSet(Orbit(x, f, k, p)) /\ Cardinality(Orbit(x, f, k, p)) = k
<1>1. /\ p \in Positive /\ p \in Int /\ p - 1 \in Nat /\ x \in Int
      /\ k \in 1 .. p - 1 /\ k \in Int
  BY PrimeTyped DEF Positive, Order
<1>2. \A i \in 0 .. k - 1 : i \in 0 .. p - 1 /\ f[i] \in Int /\ x * f[i] \in Int
  <2>1. \A i \in 0 .. k - 1 : i \in 0 .. p - 1
    BY <1>1
  <2>2. \A i \in 0 .. p - 1 : f[i] \in Int
    BY DEF Powers
  <2> QED
    BY <1>1, <2>1, <2>2
<1>3. ~Divides(p, x)
  BY SmallNotDivided
<1>4. ASSUME NEW i \in 0 .. k - 1, NEW j \in 0 .. k - 1, i < j
      PROVE  (x * f[i]) % p # (x * f[j]) % p
  <2>1. SUFFICES ASSUME (x * f[i]) % p = (x * f[j]) % p PROVE FALSE
    OBVIOUS
  <2>2. Divides(p, x * f[j] - x * f[i])
    BY <1>1, <1>2, <2>1, SameRemainder
  <2>3. Divides(p, f[j] - f[i])
    BY <1>1, <1>2, <1>3, <2>2, CommonFactor
  <2>4. i \in 0 .. p - 1 /\ j \in i .. p - 1 /\ j - i \in 1 .. k - 1
    BY <1>1, <1>4
  <2>5. Divides(p, f[j - i] - 1)
    BY <1>1, <2>3, <2>4, PowersCancel
  <2> QED
    BY <2>4, <2>5 DEF Order
<1> DEFINE g == [i \in 0 .. k - 1 |-> (x * f[i]) % p]
<1>5. ASSUME NEW i \in 0 .. k - 1, NEW j \in 0 .. k - 1, g[i] = g[j] PROVE i = j
  <2>1. (x * f[i]) % p = (x * f[j]) % p
    BY <1>5
  <2>2. ~(i < j) /\ ~(j < i)
    BY <1>4, <2>1
  <2> QED
    BY <2>2
<1>6. g \in Bijection(0 .. k - 1, Orbit(x, f, k, p))
  BY <1>5 DEF Bijection, Injection, Surjection, IsInjective, Orbit
<1>7. ExistsBijection(0 .. k - 1, Orbit(x, f, k, p))
  BY <1>6 DEF ExistsBijection
<1>8. IsFiniteSet(0 .. k - 1) /\ Cardinality(0 .. k - 1) = k
  <2>1. k - 1 \in Int /\ 0 \in Int /\ ~(0 > k - 1) /\ (k - 1) - 0 + 1 = k
    BY <1>1
  <2> QED
    BY <2>1, FS_Interval
<1> QED
  BY <1>7, <1>8, FS_Bijection

LEMMA RemainderTimes ==
    ASSUME NEW d \in Positive, NEW x \in Int, NEW y \in Int
    PROVE  ((x % d) * y) % d = (x * y) % d
<1> DEFINE r == x % d
<1>1. r \in Int /\ Divides(d, r - x)
  <2>1. r \in 0 .. d - 1 /\ Divides(d, r - x)
    BY DivisorOf
  <2> QED
    BY <2>1 DEF Positive
<1> HIDE DEF r
<1>2. Divides(d, (r - x) * y)
  <2>1. d \in Int /\ r - x \in Int
    BY <1>1 DEF Positive
  <2> QED
    BY <1>1, <2>1, DividesProduct
<1>3. (r - x) * y = r * y - x * y /\ r * y \in Int /\ x * y \in Int
  BY <1>1
<1>4. (r * y) % d = (x * y) % d
  BY <1>2, <1>3, SameRemainder
<1> QED
  BY <1>4 DEF r

LEMMA OrbitInside ==
    ASSUME NEW p \in Prime, NEW a \in Int, NEW S \in SUBSET (1 .. p - 1),
           ClosedUnder(S, a, p), NEW x \in S, NEW N \in Nat, NEW f, Powers(f, a, N)
    PROVE  \A i \in 0 .. N : (x * f[i]) % p \in S
<1>1. p \in Positive /\ p \in Int /\ x \in 1 .. p - 1 /\ x \in Int
  BY PrimeTyped
<1> DEFINE J == {i \in 0 .. N : (x * f[i]) % p \in S}
<1>2. 0 \in J
  <2>1. x * f[0] = x /\ x % p = x
    BY <1>1 DEF Powers
  <2> QED
    BY <2>1
<1>3. ASSUME NEW i \in 1 .. N, i - 1 \in J PROVE i \in J
  <2>1. i - 1 \in 0 .. N /\ i \in 0 .. N
    OBVIOUS
  <2>2. f[i - 1] \in Int /\ f[i] = f[i - 1] * a
    BY <2>1 DEF Powers
  <2>3. (((x * f[i - 1]) % p) * a) % p \in S
    BY <1>3 DEF ClosedUnder
  <2>4. x * f[i - 1] \in Int /\ (x * f[i - 1]) * a = x * f[i]
    BY <1>1, <2>2
  <2>5. (((x * f[i - 1]) % p) * a) % p = (x * f[i]) % p
    <3> DEFINE z == x * f[i - 1]
    <3>1. z \in Int /\ z * a = x * f[i]
      BY <2>4
    <3> HIDE DEF z
    <3>2. ((z % p) * a) % p = (z * a) % p
      BY <1>1, <3>1, RemainderTimes
    <3> QED
      BY <3>1, <3>2 DEF z
  <2> QED
    BY <2>1, <2>3, <2>5
<1> HIDE DEF J
<1>4. \A i \in 0 .. N : i \in J
  BY <1>2, <1>3, IndexInduction
<1> QED
  BY <1>4 DEF J

(* What multiplication leads into the orbit of x was inside already: a is  *)
(* also the power before 1 + k.                                            *)
LEMMA RestClosed ==
    ASSUME NEW p \in Prime, NEW a \in Int, ~Divides(p, a),
           NEW f, Powers(f, a, p - 1), NEW k, Order(k, f, p),
           NEW S \in SUBSET (1 .. p - 1), ClosedUnder(S, a, p), NEW x \in S
    PROVE  ClosedUnder(S \ Orbit(x, f, k, p), a, p)
<1>1. /\ p \in Positive /\ p \in Int /\ p - 1 \in Nat
      /\ x \in 1 .. p - 1 /\ x \in Int
      /\ k \in 1 .. p - 1 /\ k \in Int /\ Divides(p, f[k] - 1)
  BY PrimeTyped DEF Positive, Order
<1>2. \A i \in 0 .. k : i \in 0 .. p - 1 /\ f[i] \in Int
  <2>1. \A i \in 0 .. k : i \in 0 .. p - 1
    BY <1>1
  <2> QED
    BY <2>1 DEF Powers
<1>3. ASSUME NEW y \in S, NEW i \in 1 .. k, Divides(p, y * a - x * f[i])
      PROVE  y \in Orbit(x, f, k, p)
  <2>1. i - 1 \in 0 .. k - 1 /\ i - 1 \in 0 .. k /\ i \in 1 .. p - 1
    BY <1>1
  <2>2. f[i - 1] \in Int /\ f[i] = f[i - 1] * a
    BY <1>2, <2>1 DEF Powers
  <2>3. y \in 1 .. p - 1 /\ y \in Int /\ x * f[i - 1] \in Int
    BY <1>1, <2>2
  <2>4. y * a - x * f[i] = a * y - a * (x * f[i - 1])
    BY <1>1, <2>2, <2>3
  <2>5. Divides(p, y - x * f[i - 1])
    BY <1>1, <1>3, <2>3, <2>4, CommonFactor
  <2>6. y % p = (x * f[i - 1]) % p
    BY <1>1, <2>3, <2>5, SameRemainder
  <2>7. y % p = y
    BY <1>1, <2>3
  <2> QED
    BY <2>1, <2>6, <2>7 DEF Orbit
<1>4. ASSUME NEW y \in S, NEW i \in 0 .. k - 1, (y * a) % p = (x * f[i]) % p
      PROVE  y \in Orbit(x, f, k, p)
  <2>1. i \in 0 .. k /\ f[i] \in Int /\ f[k] \in Int /\ k \in 0 .. k
    BY <1>1, <1>2
  <2>2. /\ y \in 1 .. p - 1 /\ y \in Int /\ y * a \in Int
        /\ x * f[i] \in Int /\ x * f[k] \in Int
    BY <1>1, <2>1
  <2>3. Divides(p, y * a - x * f[i])
    BY <1>1, <1>4, <2>2, SameRemainder
  <2>4. CASE i # 0
    <3>1. i \in 1 .. k
      BY <1>1, <2>4
    <3> QED
      BY <1>3, <2>3, <3>1
  <2>5. CASE i = 0
    <3>1. x * f[i] = x * 1 /\ x * 1 \in Int /\ 1 \in Int
      BY <1>1, <2>5 DEF Powers
    <3>2. Divides(p, 1 - f[k])
      BY <1>1, <2>1, <3>1, DividesBack
    <3>3. 1 - f[k] \in Int /\ x * (1 - f[k]) = x * 1 - x * f[k]
      BY <1>1, <2>1
    <3>4. Divides(p, x * (1 - f[k]))
      BY <1>1, <3>2, <3>3, DividesProduct
    <3>5. Divides(p, x * 1 - x * f[k])
      BY <3>3, <3>4
    <3>6. Divides(p, y * a - x * f[k])
      BY <1>1, <2>2, <2>3, <3>1, <3>5, DividesThrough
    <3>7. k \in 1 .. k
      BY <1>1
    <3> QED
      BY <1>3, <3>6, <3>7
  <2> QED
    BY <2>4, <2>5
<1>5. ASSUME NEW y \in S, (y * a) % p \in Orbit(x, f, k, p)
      PROVE  y \in Orbit(x, f, k, p)
  <2>1. PICK i \in 0 .. k - 1 : (y * a) % p = (x * f[i]) % p
    BY <1>5 DEF Orbit
  <2> QED
    BY <1>4, <2>1
<1> QED
  BY <1>5 DEF ClosedUnder

(* A set that is closed under multiplication consists of whole orbits.     *)
LEMMA OrderDividesSize ==
    ASSUME NEW p \in Prime, NEW a \in Int, ~Divides(p, a),
           NEW f, Powers(f, a, p - 1), NEW k, Order(k, f, p),
           NEW S \in SUBSET (1 .. p - 1), ClosedUnder(S, a, p)
    PROVE  Divides(k, Cardinality(S))
<1>1. /\ p \in Positive /\ p \in Int /\ p - 1 \in Nat
      /\ k \in 1 .. p - 1 /\ k \in Int /\ k - 1 \in Nat
  BY PrimeTyped DEF Positive, Order
<1> DEFINE Closed == {T \in SUBSET (1 .. p - 1) : ClosedUnder(T, a, p)}
           I == {Cardinality(T) : T \in {X \in Closed : ~Divides(k, Cardinality(X))}}
<1>2. \A T \in Closed : IsFiniteSet(T) /\ Cardinality(T) \in Nat
  <2>1. IsFiniteSet(1 .. p - 1)
    BY <1>1, FS_Interval
  <2>2. \A T \in Closed : IsFiniteSet(T)
    BY <2>1, FS_Subset
  <2> QED
    BY <2>2, FS_CardinalityType
<1>3. SUFFICES ASSUME ~Divides(k, Cardinality(S)) PROVE FALSE
  OBVIOUS
<1>4. PICK T \in Closed : /\ ~Divides(k, Cardinality(T))
                          /\ \A X \in Closed : Cardinality(X) < Cardinality(T)
                                => Divides(k, Cardinality(X))
  <2>1. I \subseteq Nat /\ I # {}
    BY <1>2, <1>3
  <2>2. PICK m \in I : \A i \in I : m <= i
    <3> HIDE DEF I
    <3> QED
      BY <2>1, LeastNatural
  <2>3. PICK T \in Closed : m = Cardinality(T) /\ ~Divides(k, Cardinality(T))
    BY <2>2
  <2>4. ASSUME NEW X \in Closed, Cardinality(X) < m
        PROVE  Divides(k, Cardinality(X))
    <3>1. Cardinality(X) \notin I
      <4>1. Cardinality(X) \in Nat /\ m \in Nat
        BY <1>2, <2>3
      <4> QED
        BY <2>2, <2>4, <4>1
    <3> QED
      BY <3>1
  <2> QED
    BY <2>3, <2>4
<1>5. T # {}
  <2>1. SUFFICES ASSUME T = {} PROVE FALSE
    OBVIOUS
  <2>2. Cardinality(T) = k * 0 /\ 0 \in Int
    BY <1>1, <2>1, FS_EmptySet
  <2> QED
    BY <1>4, <2>2 DEF Divides
<1>6. PICK x : x \in T
  BY <1>5
<1> DEFINE O == Orbit(x, f, k, p)
<1>7. x \in 1 .. p - 1 /\ T \subseteq 1 .. p - 1 /\ ClosedUnder(T, a, p)
  BY <1>6
<1>8. IsFiniteSet(O) /\ Cardinality(O) = k
  BY <1>7, OrbitSize
<1>9. O \subseteq T
  <2>1. \A i \in 0 .. p - 1 : (x * f[i]) % p \in T
    BY <1>1, <1>6, <1>7, OrbitInside
  <2>2. \A i \in 0 .. k - 1 : i \in 0 .. p - 1
    BY <1>1
  <2> QED
    BY <2>1, <2>2 DEF Orbit
<1>10. T \ O \in Closed
  BY <1>6, <1>7, RestClosed
<1> HIDE DEF O, Closed
<1>11. /\ Cardinality(T) \in Nat /\ Cardinality(T \ O) \in Nat
       /\ Cardinality(T \ O) = Cardinality(T) - k
  <2>1. T \cap O = O
    BY <1>9
  <2> QED
    BY <1>2, <1>8, <1>10, <2>1, FS_Difference
<1>12. Divides(k, Cardinality(T \ O))
  BY <1>1, <1>4, <1>10, <1>11
<1>13. PICK j \in Int : Cardinality(T \ O) = k * j
  BY <1>12 DEF Divides
<1>14. Cardinality(T) = k * (j + 1) /\ j + 1 \in Int
  BY <1>1, <1>11, <1>13
<1> QED
  BY <1>4, <1>14 DEF Divides

LEMMA Fermat ==
    ASSUME NEW p \in Prime, NEW a \in Int, ~Divides(p, a),
           NEW f, Powers(f, a, p - 1)
    PROVE  Divides(p, f[p - 1] - 1)
<1>1. p \in Positive /\ p \in Int /\ p > 1 /\ p - 1 \in Nat
  BY PrimeTyped DEF Positive
<1>2. PICK k : Order(k, f, p)
  BY OrderExists
<1>3. k \in 1 .. p - 1 /\ k \in Nat /\ k > 0 /\ Divides(p, f[k] - 1)
  BY <1>1, <1>2 DEF Order
<1>4. Divides(k, p - 1)
  <2> DEFINE R == 1 .. p - 1
  <2>1. ClosedUnder(R, a, p)
    BY ProductIsResidue DEF ClosedUnder
  <2>2. Cardinality(R) = p - 1
    BY <1>1, FS_Interval
  <2>3. R \in SUBSET (1 .. p - 1)
    OBVIOUS
  <2> HIDE DEF R
  <2>4. Divides(k, Cardinality(R))
    BY <1>2, <2>1, <2>3, OrderDividesSize
  <2> QED
    BY <2>2, <2>4
<1>5. PICK q \in Int : p - 1 = k * q
  BY <1>4 DEF Divides
<1>6. q \in Nat /\ q # 0
  <2>1. ~(q <= 0)
    <3>1. ASSUME q <= 0 PROVE k * q <= 0
      BY <1>3, <3>1
    <3> QED
      BY <1>1, <1>5, <3>1
  <2> QED
    BY <2>1
<1>7. Divides(p, f[p - 1] - 1)
  <2>1. PICK N \in Nat : N = p - 1
    BY <1>1
  <2>2. k \in Nat /\ q \in Nat /\ q # 0 /\ N = k * q /\ Powers(f, a, N) /\ p \in Int
    BY <1>1, <1>3, <1>5, <1>6, <2>1
  <2>3. Divides(p, f[N] - 1)
    BY <1>3, <2>2, PowerOfOne
  <2> QED
    BY <2>1, <2>3
<1> QED
  BY <1>7

(* The exponent of a round trip is one more than a multiple of p - 1.      *)
LEMMA ExponentKeeps ==
    ASSUME NEW p \in Prime, NEW c \in Int, NEW t \in Nat, NEW N \in Nat,
           N = (p - 1) * t + 1, NEW f, Powers(f, c, N)
    PROVE  Divides(p, f[N] - c)
<1>1. p \in Positive /\ p \in Int /\ p > 1 /\ p - 1 \in Nat
  BY PrimeTyped DEF Positive
<1>2. (p - 1) * t \in Nat /\ N >= 1 /\ N - 1 = (p - 1) * t
  BY <1>1
<1>3. N - 1 \in 0 .. N /\ N \in 1 .. N
  BY <1>2
<1>4. f[N - 1] \in Int /\ f[N] = f[N - 1] * c
  BY <1>3 DEF Powers
<1>5. CASE Divides(p, c)
  <2>1. Divides(p, f[N - 1] * c)
    BY <1>1, <1>4, <1>5, DividesProduct
  <2>2. f[N] \in Int
    BY <1>4
  <2> QED
    BY <1>1, <1>4, <1>5, <2>1, <2>2, DividesSum
<1>6. ASSUME ~Divides(p, c) PROVE Divides(p, f[N - 1] - 1)
  <2>1. CASE t = 0
    <3>1. f[N - 1] - 1 = p * 0 /\ 0 \in Int
      <4>1. N - 1 = 0
        BY <1>1, <1>2, <2>1
      <4> QED
        BY <1>1, <4>1 DEF Powers
    <3> QED
      BY <3>1 DEF Divides
  <2>2. CASE t # 0
    <3>1. p - 1 \in 0 .. N /\ N - 1 \in 0 .. N
      <4>1. (p - 1) * 1 <= (p - 1) * t
        <5>1. 1 \in Nat /\ 1 <= t
          BY <2>2
        <5> QED
          BY <1>1, <5>1, MultiplesOrdered
      <4> QED
        BY <1>1, <1>2, <4>1
    <3>2. Powers(f, c, p - 1) /\ Powers(f, c, N - 1) /\ f[p - 1] \in Int
      BY <3>1, PowersBelow DEF Powers
    <3>3. Divides(p, f[p - 1] - 1)
      BY <1>6, <3>2, Fermat
    <3>4. PICK d \in Nat : d = p - 1
      BY <1>1
    <3>5. PICK M \in Nat : M = N - 1
      BY <1>2
    <3>6. /\ M = d * t /\ t # 0 /\ p \in Int
          /\ Powers(f, c, M) /\ Divides(p, f[d] - 1)
      BY <1>1, <1>2, <2>2, <3>2, <3>3, <3>4, <3>5
    <3>7. Divides(p, f[M] - 1)
      BY <3>6, PowerOfOne
    <3> QED
      BY <3>5, <3>7
  <2> QED
    BY <2>1, <2>2
<1>7. CASE ~Divides(p, c)
  <2>1. f[N - 1] - 1 \in Int /\ Divides(p, f[N - 1] - 1)
    BY <1>4, <1>6, <1>7
  <2>2. Divides(p, (f[N - 1] - 1) * c)
    BY <1>1, <2>1, DividesProduct
  <2>3. (f[N - 1] - 1) * c = f[N] - c
    BY <1>4
  <2> QED
    BY <2>2, <2>3
<1> QED
  BY <1>5, <1>7

-----------------------------------------------------------------------------
(* The remainders of C.                                                    *)

(* r is what C leaves of x by m.                                           *)
Leaves(r, x, m) ==
    /\ r \in Int
    /\ -m < r /\ r < m
    /\ Divides(m, r - x)
    /\ Signed(r, x)

LEMMA RemainderLeaves ==
    ASSUME NEW m \in Positive, NEW x \in Int
    PROVE  Leaves(Remainder(x, m), x, m)
<1>1. m \in Int /\ m > 0 /\ -x \in Int
  BY DEF Positive
<1>2. CASE x >= 0
  <2>1. Remainder(x, m) = x % m
    BY <1>2 DEF Remainder
  <2>2. x % m \in 0 .. m - 1 /\ Divides(m, (x % m) - x)
    BY DivisorOf
  <2>3. x = 0 => x % m = 0
    BY <1>1
  <2> QED
    BY <1>1, <1>2, <2>1, <2>2, <2>3 DEF Leaves, Signed
<1>3. CASE x < 0
  <2> DEFINE r == (-x) % m
  <2>1. r \in 0 .. m - 1 /\ Divides(m, (-x) - r)
    BY <1>1, DivisorOf
  <2>2. Remainder(x, m) = -r
    BY <1>3 DEF Remainder
  <2> HIDE DEF r
  <2>3. (-x) - r = (-r) - x /\ -r \in Int /\ -m < -r /\ -r < m /\ -r <= 0
    BY <1>1, <2>1
  <2> QED
    BY <1>3, <2>1, <2>2, <2>3 DEF Leaves, Signed
<1> QED
  BY <1>2, <1>3

LEMMA LeavesOne ==
    ASSUME NEW m \in Positive, NEW x \in Int, NEW r, NEW s,
           Leaves(r, x, m), Leaves(s, x, m)
    PROVE  r = s
<1>1. /\ m \in Int /\ r \in Int /\ s \in Int
      /\ -m < r - s /\ r - s < m /\ r - s \in Int
  BY DEF Leaves, Signed, Positive
<1>2. Divides(m, r - x) /\ Divides(m, x - s)
  BY <1>1, DividesBack DEF Leaves
<1>3. Divides(m, r - s)
  BY <1>1, <1>2, DividesThrough
<1>4. r - s = 0
  BY <1>1, <1>3, DividesNothingSmall
<1> QED
  BY <1>1, <1>4

(* u has the remainders of x and lies on its side of zero.                 *)
Follows(u, x, m) == u \in Int /\ Divides(m, u - x) /\ Signed(u, x)

LEMMA ProductFollows ==
    ASSUME NEW m \in Positive, NEW x \in Int, NEW y \in Int, NEW u, NEW v,
           Follows(u, x, m), Follows(v, y, m)
    PROVE  Follows(u * v, x * y, m)
<1>1. u \in Int /\ v \in Int /\ m \in Int /\ u * v \in Int /\ x * y \in Int
  BY DEF Follows, Positive
<1>2. Divides(m, u * v - x * y)
  BY <1>1, DividesProducts DEF Follows
<1>3. /\ x >= 0 /\ y >= 0 => u * v >= 0
      /\ x <= 0 /\ y >= 0 => u * v <= 0
      /\ x >= 0 /\ y <= 0 => u * v <= 0
      /\ x <= 0 /\ y <= 0 => u * v >= 0
  BY <1>1, SignOfProduct DEF Follows, Signed
<1>4. /\ x * y >= 0 => \/ x >= 0 /\ y >= 0
                       \/ x <= 0 /\ y <= 0
      /\ x * y <= 0 => \/ x <= 0 /\ y >= 0
                       \/ x >= 0 /\ y <= 0
  <2>1. ASSUME x > 0, y > 0 PROVE x * y > 0
    BY <2>1
  <2>2. ASSUME x > 0, y < 0 PROVE x * y < 0
    BY <2>2
  <2>3. ASSUME x < 0, y > 0 PROVE x * y < 0
    BY <2>3
  <2>4. ASSUME x < 0, y < 0 PROVE x * y > 0
    BY <2>4
  <2> QED
    BY <1>1, <2>1, <2>2, <2>3, <2>4
<1>5. Signed(u * v, x * y)
  BY <1>3, <1>4 DEF Signed
<1> QED
  BY <1>1, <1>2, <1>5 DEF Follows

LEMMA RemainderFollows ==
    ASSUME NEW m \in Positive, NEW x \in Int, NEW u, Follows(u, x, m)
    PROVE  Remainder(u, m) = Remainder(x, m)
<1>1. u \in Int /\ m \in Int /\ Divides(m, u - x) /\ Signed(u, x)
  BY DEF Follows, Positive
<1>2. Leaves(Remainder(u, m), u, m) /\ Leaves(Remainder(x, m), x, m)
  BY <1>1, RemainderLeaves
<1> DEFINE r == Remainder(u, m)
<1>3. r \in Int /\ -m < r /\ r < m /\ Divides(m, r - u) /\ Signed(r, u)
  BY <1>2 DEF Leaves
<1> HIDE DEF r
<1>4. Divides(m, r - x)
  BY <1>1, <1>3, DividesThrough
<1>5. Signed(r, x)
  BY <1>1, <1>3 DEF Signed
<1>6. Leaves(r, x, m)
  BY <1>3, <1>4, <1>5 DEF Leaves
<1>7. r = Remainder(x, m)
  BY <1>2, <1>6, LeavesOne
<1> QED
  BY <1>7 DEF r

LEMMA LeavesFollows ==
    ASSUME NEW m \in Positive, NEW x \in Int
    PROVE  Follows(Remainder(x, m), x, m) /\ Follows(x, x, m)
<1>1. x - x = m * 0 /\ 0 \in Int
  BY DEF Positive
<1>2. Divides(m, x - x)
  BY <1>1 DEF Divides
<1> QED
  BY <1>2, RemainderLeaves DEF Leaves, Follows, Signed

-----------------------------------------------------------------------------
(* Power squares where it can; it leaves what multiplying e times leaves.  *)

LEMMA PowerIs ==
    ASSUME NEW m \in Positive, NEW b \in Int, NEW e \in Nat,
           NEW f, Powers(f, b, e)
    PROVE  Power(b, e, m) = IF e = 0 THEN 1 ELSE Remainder(f[e], m)
<1> DEFINE body(h) ==
              [i \in 0 .. e |->
                  CASE i = 0     -> 1
                    [] i % 2 = 1 -> Remainder(h[i - 1] * b, m)
                    [] OTHER     -> LET half == h[i \div 2]
                                    IN  Remainder(half * half, m)]
           residue == CHOOSE h : h = body(h)
           g == [i \in 0 .. e |-> IF i = 0 THEN 1 ELSE Remainder(f[i], m)]
<1>1. Power(b, e, m) = residue[e]
  BY DEF Power
<1>2. /\ g[0] = 1
      /\ \A i \in 1 .. e : g[i] = Remainder(f[i], m)
  OBVIOUS
<1>3. \A i \in 0 .. e : Follows(g[i], f[i], m)
  <2>1. \A i \in 0 .. e : f[i] \in Int
    BY DEF Powers
  <2>2. \A i \in 0 .. e : Follows(Remainder(f[i], m), f[i], m) /\ Follows(f[i], f[i], m)
    BY <2>1, LeavesFollows
  <2>3. f[0] = 1 /\ 0 \in 0 .. e
    BY DEF Powers
  <2>4. \A i \in 0 .. e : i = 0 \/ i \in 1 .. e
    OBVIOUS
  <2> HIDE DEF g
  <2> QED
    BY <1>2, <2>2, <2>3, <2>4
<1>4. ASSUME NEW i \in 1 .. e
      PROVE  /\ i % 2 = 1 => g[i] = Remainder(g[i - 1] * b, m)
             /\ i % 2 # 1 => g[i] = Remainder(g[i \div 2] * g[i \div 2], m)
  <2> HIDE DEF g
  <2>1. CASE i % 2 = 1
    <3>1. i - 1 \in 0 .. e /\ f[i] = f[i - 1] * b
      BY DEF Powers
    <3>2. Follows(g[i - 1], f[i - 1], m) /\ f[i - 1] \in Int /\ Follows(b, b, m)
      BY <1>3, <3>1, LeavesFollows DEF Powers
    <3>3. Follows(g[i - 1] * b, f[i - 1] * b, m) /\ f[i - 1] * b \in Int
      BY <3>2, ProductFollows
    <3>4. Remainder(g[i - 1] * b, m) = Remainder(f[i - 1] * b, m)
      BY <3>3, RemainderFollows
    <3> QED
      BY <1>2, <2>1, <3>1, <3>4
  <2>2. CASE i % 2 # 1
    <3>1. PICK j \in 1 .. e : j = i \div 2 /\ i = j + j
      BY <2>2
    <3>2. j \in 0 .. e /\ j \in 0 .. e - j
      BY <3>1
    <3>3. f[i] = f[j] * f[j]
      BY <3>1, <3>2, PowersSum
    <3>4. Follows(g[j], f[j], m) /\ f[j] \in Int
      BY <1>3, <3>2 DEF Powers
    <3>5. Follows(g[j] * g[j], f[j] * f[j], m) /\ f[j] * f[j] \in Int
      BY <3>4, ProductFollows
    <3>6. Remainder(g[j] * g[j], m) = Remainder(f[j] * f[j], m)
      BY <3>5, RemainderFollows
    <3> QED
      BY <1>2, <2>2, <3>1, <3>3, <3>6
  <2> QED
    BY <2>1, <2>2
<1>5. g = body(g)
  <2>1. g = [i \in 0 .. e |-> g[i]]
    OBVIOUS
  <2> HIDE DEF g
  <2>2. ASSUME NEW i \in 0 .. e PROVE g[i] = body(g)[i]
    <3>1. CASE i = 0
      BY <1>2, <3>1
    <3>2. CASE i # 0
      <4>1. i \in 1 .. e
        BY <3>2
      <4> QED
        BY <1>4, <3>2, <4>1
    <3> QED
      BY <3>1, <3>2
  <2> QED
    BY <2>1, <2>2
<1>6. residue = body(residue)
  <2> HIDE DEF body, g
  <2> QED
    BY <1>5
<1> HIDE DEF residue, g
<1>7. /\ residue[0] = 1
      /\ \A i \in 1 .. e :
            /\ i % 2 = 1 => residue[i] = Remainder(residue[i - 1] * b, m)
            /\ i % 2 # 1 =>
                  residue[i] = Remainder(residue[i \div 2] * residue[i \div 2], m)
  <2>1. \A i \in 0 .. e : residue[i] = body(residue)[i]
    BY <1>6
  <2>2. body(residue)[0] = 1
    OBVIOUS
  <2>3. ASSUME NEW i \in 1 .. e
        PROVE  /\ i % 2 = 1 => body(residue)[i] = Remainder(residue[i - 1] * b, m)
               /\ i % 2 # 1 => body(residue)[i] =
                     Remainder(residue[i \div 2] * residue[i \div 2], m)
    OBVIOUS
  <2> HIDE DEF body
  <2>4. 0 \in 0 .. e /\ \A i \in 1 .. e : i \in 0 .. e
    OBVIOUS
  <2> QED
    BY <2>1, <2>2, <2>3, <2>4
<1> HIDE DEF body
<1> DEFINE J == {i \in 0 .. e : \A j \in 0 .. i : residue[j] = g[j]}
<1>8. 0 \in J
  BY <1>2, <1>7
<1>9. ASSUME NEW i \in 1 .. e, i - 1 \in J PROVE i \in J
  <2>1. i - 1 \in 0 .. i - 1 /\ i \in 0 .. e
    OBVIOUS
  <2>2. i \div 2 \in 0 .. i - 1
    OBVIOUS
  <2>3. residue[i] = g[i]
    <3>1. CASE i % 2 = 1
      BY <1>4, <1>7, <1>9, <2>1, <3>1
    <3>2. CASE i % 2 # 1
      BY <1>4, <1>7, <1>9, <2>2, <3>2
    <3> QED
      BY <3>1, <3>2
  <2>4. \A j \in 0 .. i : j \in 0 .. i - 1 \/ j = i
    OBVIOUS
  <2> QED
    BY <1>9, <2>1, <2>3, <2>4
<1>10. e \in J
  <2> HIDE DEF J
  <2>1. \A i \in 0 .. e : i \in J
    BY <1>8, <1>9, IndexInduction
  <2> QED
    BY <2>1
<1>11. residue[e] = g[e]
  BY <1>10
<1> QED
  BY <1>1, <1>2, <1>11

-----------------------------------------------------------------------------
(* There and back.                                                         *)

LEMMA EvenProduct ==
    ASSUME NEW x \in Nat, NEW y \in Nat, x % 2 = 0
    PROVE  (x * y) % 2 = 0
<1>1. PICK k \in Int : x = 2 * k
  OBVIOUS
<1>2. x * y = 2 * (k * y) /\ k * y \in Int
  BY <1>1
<1>3. Divides(2, x * y)
  BY <1>2 DEF Divides
<1>4. 2 \in Positive /\ x * y \in Int
  BY DEF Positive
<1> QED
  BY <1>3, <1>4, ZeroRemainder

LEMMA OddFactors ==
    ASSUME NEW d \in Nat, NEW e \in Nat, (d * e) % 2 = 1
    PROVE  d % 2 = 1 /\ e % 2 = 1
<1>1. d % 2 # 0
  <2>1. ASSUME d % 2 = 0 PROVE (d * e) % 2 = 0
    BY <2>1, EvenProduct
  <2> QED
    BY <2>1
<1>2. e % 2 # 0
  <2>1. ASSUME e % 2 = 0 PROVE (e * d) % 2 = 0
    BY <2>1, EvenProduct
  <2>2. e * d = d * e
    OBVIOUS
  <2> QED
    BY <2>1, <2>2
<1> QED
  BY <1>1, <1>2

(* What Make_Private_Key makes sure of.                                    *)
LEMMA KeysFit ==
    ASSUME NEW d \in Nat, NEW e \in Nat, NEW k \in Positive, k % 2 = 0,
           (d * e) % k = 1
    PROVE  /\ d % 2 = 1 /\ e % 2 = 1
           /\ \E t \in Nat : d * e = k * t + 1
<1>1. k \in Nat /\ k > 0 /\ d * e \in Nat
  BY DEF Positive
<1>2. PICK x \in Nat : x = d * e
  BY <1>1
<1>3. PICK t \in Int : x - 1 = k * t
  <2>1. Divides(k, x - (x % k)) /\ x % k = 1
    BY <1>2, DivisorOf
  <2> QED
    BY <2>1 DEF Divides
<1>4. t \in Nat
  <2>1. x # 0
    <3>1. SUFFICES ASSUME x = 0 PROVE FALSE
      OBVIOUS
    <3>2. 0 % k = 1 /\ 0 % k = 0
      BY <1>1, <1>2, <3>1
    <3> QED
      BY <3>2
  <2>2. ~(t <= -1)
    <3>1. ASSUME t <= -1 PROVE k * t <= -k
      BY <1>1, <3>1
    <3> QED
      BY <1>1, <1>3, <2>1, <3>1
  <2> QED
    BY <2>2
<1>5. (d * e) % 2 = 1
  <2>1. PICK j \in Int : k = 2 * j
    BY <1>1
  <2>2. x = 2 * (j * t) + 1 /\ j * t \in Int
    BY <1>3, <2>1
  <2>3. x % 2 = 1
    <3>1. PICK z \in Int : z = j * t
      BY <2>2
    <3>2. x = 2 * z + 1
      BY <2>2, <3>1
    <3> QED
      BY <3>2
  <2> QED
    BY <1>2, <2>3
<1>6. d * e = k * t + 1
  BY <1>1, <1>2, <1>3
<1> QED
  BY <1>4, <1>5, <1>6, OddFactors

LEMMA PowersReturn ==
    ASSUME NEW p \in Prime, NEW q \in Prime, p # q,
           NEW c \in Int, NEW t \in Nat, NEW N \in Nat,
           N = ((p - 1) * (q - 1)) * t + 1, NEW f, Powers(f, c, N)
    PROVE  Divides(p * q, f[N] - c)
<1>1. /\ p \in Int /\ p > 1 /\ p - 1 \in Nat
      /\ q \in Int /\ q > 1 /\ q - 1 \in Nat
  BY PrimeTyped DEF Positive
<1>2. PICK x \in Nat : x = (q - 1) * t
  BY <1>1
<1>3. PICK y \in Nat : y = (p - 1) * t
  BY <1>1
<1>4. N = (p - 1) * x + 1 /\ N = (q - 1) * y + 1
  BY <1>1, <1>2, <1>3
<1>5. Divides(p, f[N] - c)
  BY <1>4, ExponentKeeps
<1>6. Divides(q, f[N] - c)
  BY <1>4, ExponentKeeps
<1>7. f[N] - c \in Int
  BY DEF Powers
<1> QED
  BY <1>5, <1>6, <1>7, BothDivide

LEMMA TwicePower ==
    ASSUME NEW m \in Positive, NEW c \in Int, -m < c, c < m,
           NEW d \in Nat, NEW e \in Nat, d % 2 = 1, e % 2 = 1,
           NEW N \in Nat, N = d * e,
           NEW f, Powers(f, c, N), Divides(m, f[N] - c)
    PROVE  Power(Power(c, d, m), e, m) = c
<1>1. m \in Int /\ d # 0 /\ e # 0 /\ e \in 0 .. e
  BY DEF Positive
<1>2. d \in 0 .. N /\ N \in 0 .. N
  <2>1. 1 \in Nat /\ 1 <= e
    BY <1>1
  <2>2. d * 1 <= N /\ d * 1 = d
    BY <2>1, MultiplesOrdered
  <2> QED
    BY <1>1, <2>2
<1>3. Powers(f, c, d) /\ f[d] \in Int /\ f[N] \in Int
  BY <1>1, <1>2, PowersBelow DEF Powers
<1>4. PICK y : y = Power(c, d, m)
  OBVIOUS
<1>5. Follows(y, f[d], m)
  <2>1. Power(c, d, m) = Remainder(f[d], m)
    BY <1>1, <1>3, PowerIs
  <2> QED
    BY <1>3, <1>4, <2>1, LeavesFollows
<1>6. y \in Int /\ Divides(m, y - f[d]) /\ Signed(y, f[d])
  BY <1>5 DEF Follows
<1>7. PICK g : Powers(g, y, e)
  BY <1>6, PowersExist
<1>8. g[e] \in Int
  BY <1>1, <1>7 DEF Powers
<1>9. Divides(m, g[e] - c)
  <2>1. Divides(m, g[e] - f[N])
    BY <1>1, <1>6, <1>7, PowerOfRemainder
  <2> QED
    BY <1>1, <1>3, <1>8, <2>1, DividesThrough
<1>10. Signed(g[e], c)
  <2>1. Signed(g[e], y)
    BY <1>1, <1>6, <1>7, PowersSigned
  <2>2. Signed(f[d], c)
    <3>1. d \in 0 .. d
      OBVIOUS
    <3> QED
      BY <1>3, <3>1, PowersSigned
  <2> QED
    BY <1>3, <1>6, <1>8, <2>1, <2>2 DEF Signed
<1>11. Follows(g[e], c, m)
  BY <1>8, <1>9, <1>10 DEF Follows
<1>12. Power(y, e, m) = Remainder(c, m)
  <2>1. Power(y, e, m) = Remainder(g[e], m)
    BY <1>1, <1>6, <1>7, PowerIs
  <2> QED
    BY <1>11, <2>1, RemainderFollows
<1>13. Remainder(c, m) = c
  <2>1. Leaves(c, c, m)
    BY LeavesFollows DEF Leaves, Follows
  <2> QED
    BY <2>1, RemainderLeaves, LeavesOne
<1> QED
  BY <1>4, <1>12, <1>13

(* d and e are two exponents of a key of primes p and q.                   *)
KeyOf(p, q, m, d, e) ==
    /\ p # q /\ p % 2 = 1
    /\ m \in Int /\ m = p * q /\ m > 128
    /\ (d * e) % ((p - 1) * (q - 1)) = 1

LEMMA ByteArrives ==
    ASSUME NEW p \in Prime, NEW q \in Prime, NEW m,
           NEW d \in Nat, NEW e \in Nat, KeyOf(p, q, m, d, e),
           NEW c \in -128 .. 127
    PROVE  AsChar(mod(mod(c, d, m), e, m)) = c
<1>1. /\ p \in Int /\ p > 1 /\ q \in Int /\ q > 1
      /\ m \in Positive /\ m = p * q /\ m > 128 /\ p # q /\ p % 2 = 1
  BY PrimeTyped DEF Positive, KeyOf
<1>2. PICK k \in Positive : k = (p - 1) * (q - 1) /\ (d * e) % k = 1
  <2>1. p - 1 > 0 /\ q - 1 > 0 /\ p - 1 \in Int /\ q - 1 \in Int
    BY <1>1
  <2>2. (p - 1) * (q - 1) > 0 /\ (p - 1) * (q - 1) \in Int
    BY <2>1
  <2> QED
    BY <2>2 DEF Positive, KeyOf
<1>3. k % 2 = 0
  <2>1. PICK j \in Int : p - 1 = 2 * j
    BY <1>1
  <2>2. k = 2 * (j * (q - 1)) /\ j * (q - 1) \in Int
    BY <1>1, <1>2, <2>1
  <2>3. 2 \in Positive /\ k \in Int /\ Divides(2, k)
    BY <2>2 DEF Positive, Divides
  <2> QED
    BY <2>3, ZeroRemainder
<1>4. d % 2 = 1 /\ e % 2 = 1 /\ \E t \in Nat : d * e = k * t + 1
  BY <1>2, <1>3, KeysFit
<1>5. PICK t \in Nat : d * e = k * t + 1
  BY <1>4
<1>6. PICK N \in Nat : N = d * e
  OBVIOUS
<1>7. c \in Int
  OBVIOUS
<1>8. PICK f : Powers(f, c, N)
  BY <1>7, PowersExist
<1>9. N = ((p - 1) * (q - 1)) * t + 1
  BY <1>2, <1>5, <1>6
<1>10. Divides(m, f[N] - c)
  BY <1>1, <1>7, <1>8, <1>9, PowersReturn
<1>11. -m < c /\ c < m
  BY <1>1
<1>12. Power(Power(c, d, m), e, m) = c
  BY <1>1, <1>4, <1>6, <1>7, <1>8, <1>10, <1>11, TwicePower
<1>13. AsChar(c) = c
  BY DEF AsChar
<1> QED
  BY <1>12, <1>13 DEF mod

-----------------------------------------------------------------------------
(* Keys.                                                                   *)

PrimesDrawn == \A i \in {1, 2} : prime[i] \in Nat /\ prime[i] % 2 = 1

KeysSound ==
    /\ pc # "primes" => PrimesDrawn
    /\ pc \in {"private", "keys", "sent"} => public \in Nat
    /\ pc \in {"keys", "sent"} => private \in Int /\ private >= 0
                                  /\ (public * private) % e_pi = 1
    /\ pc = "sent" => plain \in Chars /\ received \in {ToClient(plain), ToServer(plain)}

LEMMA StepKeepsKeys == KeysSound /\ [Next]_vars => KeysSound'
<1> SUFFICES ASSUME KeysSound, [Next]_vars PROVE KeysSound'
  OBVIOUS
<1>1. CASE Make_Random_Prime_Number
  <2>1. PICK p, q \in {k \in Random : ~IsNotPrime(k)} : prime' = <<p, q>>
    BY <1>1 DEF Make_Random_Prime_Number
  <2>2. p \in Nat /\ q \in Nat /\ p % 2 = 1 /\ q % 2 = 1
    BY LimitAssumption DEF Random, IsNotPrime
  <2> QED
    BY <1>1, <2>1, <2>2 DEF Make_Random_Prime_Number, KeysSound, PrimesDrawn
<1>2. CASE Make_Public_Key
  BY <1>2, LimitAssumption DEF Make_Public_Key, KeysSound, PrimesDrawn, Random
<1>3. CASE Make_Private_Key
  <2>1. e_pi \in Int
    BY <1>3 DEF Make_Private_Key, KeysSound, PrimesDrawn, e_pi
  <2>2. PICK d \in 0 .. e_pi - 1 : (public * d) % e_pi = 1 /\ private' = d
    BY <1>3 DEF Make_Private_Key
  <2>3. e_pi' = e_pi /\ public' = public /\ prime' = prime
    BY <1>3 DEF Make_Private_Key, e_pi
  <2>4. pc = "private" /\ pc' = "keys"
    BY <1>3 DEF Make_Private_Key
  <2> QED
    BY <2>1, <2>2, <2>3, <2>4 DEF KeysSound, PrimesDrawn
<1>4. CASE Transmit
  <2>1. PICK c \in Chars : plain' = c /\ received' \in {ToClient(c), ToServer(c)}
    BY <1>4 DEF Transmit
  <2>2. /\ pc = "keys" /\ pc' = "sent"
        /\ prime' = prime /\ public' = public /\ private' = private
    BY <1>4 DEF Transmit
  <2>3. ToClient(c)' = ToClient(c) /\ ToServer(c)' = ToServer(c) /\ e_pi' = e_pi
    BY <2>2 DEF ToClient, ToServer, n, e_pi
  <2>4. received' \in {ToClient(plain)', ToServer(plain)'}
    BY <2>1, <2>2 DEF ToClient, ToServer, n
  <2> QED
    BY <2>1, <2>2, <2>3, <2>4 DEF KeysSound, PrimesDrawn
<1>5. CASE NextLogin
  BY <1>5 DEF NextLogin, KeysSound
<1>6. CASE UNCHANGED vars
  BY <1>6 DEF vars, KeysSound, PrimesDrawn, e_pi, ToClient, ToServer, n
<1> QED
  BY <1>1, <1>2, <1>3, <1>4, <1>5, <1>6 DEF Next, LoopOn

LEMMA KeysSoundRoundTrip == KeysSound => RoundTrip
<1> SUFFICES ASSUME KeysSound, pc = "sent", IsPrime(prime[1]), IsPrime(prime[2]),
                    prime[1] # prime[2], n > 128
             PROVE  received = plain
  BY DEF RoundTrip
<1>1. /\ prime[1] \in Prime /\ prime[2] \in Prime /\ prime[1] % 2 = 1
      /\ public \in Nat /\ private \in Nat
  <2>1. /\ prime[1] \in Nat /\ prime[2] \in Nat /\ prime[1] % 2 = 1
        /\ public \in Nat /\ private \in Nat
    BY DEF KeysSound, PrimesDrawn
  <2>2. prime[1] > 1 /\ prime[2] > 1
    BY DEF IsPrime
  <2> QED
    BY <2>1, <2>2 DEF Prime, Positive
<1>2. plain \in -128 .. 127 /\ received \in {ToClient(plain), ToServer(plain)}
  BY CharsAssumption DEF KeysSound
<1>3. PICK p \in Prime, q \in Prime : p = prime[1] /\ q = prime[2]
  BY <1>1
<1>4. PICK d \in Nat, e \in Nat, c \in -128 .. 127 :
         d = private /\ e = public /\ c = plain
  BY <1>1, <1>2
<1>5. KeyOf(p, q, n, d, e) /\ KeyOf(p, q, n, e, d)
  <2>1. p * q \in Int
    BY DEF Prime, Positive
  <2>2. p # q /\ p % 2 = 1 /\ n = p * q /\ n > 128
    BY <1>1, <1>3 DEF n
  <2>3. d * e = e * d
    OBVIOUS
  <2>4. (e * d) % ((p - 1) * (q - 1)) = 1
    BY <1>3, <1>4 DEF KeysSound, e_pi
  <2> QED
    BY <2>1, <2>2, <2>3, <2>4 DEF KeyOf
<1>6. AsChar(mod(mod(c, d, n), e, n)) = c
  BY <1>5, ByteArrives
<1>7. AsChar(mod(mod(c, e, n), d, n)) = c
  BY <1>5, ByteArrives
<1> QED
  BY <1>2, <1>4, <1>6, <1>7 DEF ToClient, ToServer

(* Make_Cyper_text and Make_Plain_text, in either direction: under a key   *)
(* of two different primes whose product exceeds 128 every byte arrives as *)
(* it was sent, the negative ones included, whatever key was drawn.        *)
THEOREM BytesArrive == Spec => []RoundTrip
<1>1. Init => KeysSound
  BY DEF Init, KeysSound
<1> QED
  BY <1>1, StepKeepsKeys, KeysSoundRoundTrip, PTL DEF Spec
=============================================================================

----------------------------- MODULE WireProofs -----------------------------
(***************************************************************************)
(* Proofs about the two wire forms of an integer, for bytes of any number  *)
(* of bits, words of any number of bytes and inputs of any length.         *)
(***************************************************************************)
EXTENDS MCWire, WellFoundedInduction, TLAPS

----------------------------------------------------------------------------
(* Numbers and their digits.                                               *)

\* A set of naturals that is not empty has a least element.
LEMMA Least ==
  ASSUME NEW T \in SUBSET Nat, T # {}
  PROVE  \E x \in T : \A y \in T : x <= y
<1>1. PICK x \in T : \A y \in T : ~(<<y, x>> \in OpToRel(<, Nat))
  BY NatLessThanWellFounded, WFMin
<1>2. \A y \in T : x <= y
  <2> SUFFICES ASSUME NEW y \in T PROVE x <= y
    OBVIOUS
  <2>1. ~(y < x)
    BY <1>1 DEF OpToRel
  <2> QED BY <2>1
<1> QED BY <1>2

\* Induction over the set of the numbers that have a property.
LEMMA Induction ==
  ASSUME NEW T \in SUBSET Nat, 0 \in T, \A N \in T : N + 1 \in T
  PROVE  T = Nat
<1> SUFFICES ASSUME Nat \ T # {} PROVE FALSE
  OBVIOUS
<1>1. PICK x \in Nat \ T : \A y \in Nat \ T : x <= y
  BY Least
<1>2. x # 0 /\ x - 1 \in Nat
  BY <1>1
<1>3. x - 1 \in T
  BY <1>1, <1>2
<1>4. (x - 1) + 1 = x
  BY <1>1
<1> QED BY <1>1, <1>3, <1>4

\* Functions are defined by recursion.
LEMMA Recursion ==
  ASSUME NEW c \in Nat, NEW g \in [Nat -> [Nat -> Nat]]
  PROVE  \E f \in [Nat -> Nat] : f[0] = c /\ \A N \in Nat : f[N + 1] = g[N][f[N]]
<1> DEFINE Begins(N) ==
             {f \in [0..N -> Nat] : f[0] = c /\ \A k \in 0..(N - 1) : f[k + 1] = g[k][f[k]]}
<1>1. ASSUME NEW N \in Nat, NEW f \in Begins(N) PROVE Begins(N + 1) # {}
  <2>10. f \in [0..N -> Nat]
    OBVIOUS
  <2>11. N \in 0..N
    <3> HIDE DEF Begins
    <3> QED OBVIOUS
  <2>1. f[N] \in Nat /\ g[N] \in [Nat -> Nat]
    <3> HIDE DEF Begins
    <3> QED BY <2>10, <2>11
  <2>2. PICK x \in Nat : x = g[N][f[N]]
    BY <2>1
  <2> DEFINE h == [k \in 0..(N + 1) |-> IF k = N + 1 THEN x ELSE f[k]]
  <2>3. ASSUME NEW k \in 0..(N + 1), k # N + 1 PROVE k \in 0..N /\ f[k] \in Nat
    <3> HIDE DEF Begins
    <3>1. k \in 0..N
      BY <2>3
    <3> QED BY <3>1, <2>10
  <2>4. h \in [0..(N + 1) -> Nat]
    BY <2>3
  <2>5. h[0] = c
    BY <2>3
  <2>6. ASSUME NEW k \in 0..N PROVE h[k + 1] = g[k][h[k]]
    <3>1. h[k] = f[k]
      OBVIOUS
    <3>2. CASE k = N
      BY <2>2, <3>1, <3>2
    <3>3. CASE k # N
      <4>1. k \in 0..(N - 1) /\ h[k + 1] = f[k + 1]
        BY <3>3
      <4> QED BY <3>1, <4>1
    <3> QED BY <3>2, <3>3
  <2>7. (N + 1) - 1 = N
    OBVIOUS
  <2>12. h \in Begins(N + 1)
    <3> HIDE DEF h
    <3> QED BY <2>4, <2>5, <2>6, <2>7
  <2> QED BY <2>12
<1>7. \A N \in Nat : Begins(N) # {}
  <2> DEFINE T == {N \in Nat : Begins(N) # {}}
  <2>1. 0 \in T
    <3>1. [k \in 0..0 |-> c] \in Begins(0)
      OBVIOUS
    <3> QED BY <3>1
  <2>2. ASSUME NEW N \in T PROVE N + 1 \in T
    <3> HIDE DEF Begins
    <3>1. N \in Nat /\ N + 1 \in Nat /\ Begins(N) # {}
      OBVIOUS
    <3> QED BY <1>1, <3>1
  <2> HIDE DEF T, Begins
  <2>3. T = Nat
    BY <2>1, <2>2, Induction DEF T
  <2> QED BY <2>3 DEF T
<1>2. ASSUME NEW m \in Nat, NEW N \in Nat, NEW f \in Begins(m), NEW h \in Begins(N)
      PROVE  \A k \in Nat : k <= m /\ k <= N => f[k] = h[k]
  <2> DEFINE T == {k \in Nat : k <= m /\ k <= N => f[k] = h[k]}
  <2>1. 0 \in T
    OBVIOUS
  <2>2. ASSUME NEW k \in T PROVE k + 1 \in T
    <3> SUFFICES ASSUME k + 1 <= m, k + 1 <= N PROVE f[k + 1] = h[k + 1]
      OBVIOUS
    <3>1. k \in 0..(m - 1) /\ k \in 0..(N - 1) /\ f[k] = h[k]
      OBVIOUS
    <3> QED BY <3>1
  <2> HIDE DEF T
  <2>3. T = Nat
    BY <2>1, <2>2, Induction DEF T
  <2> QED BY <2>3 DEF T
<1> DEFINE G == [N \in Nat |-> (CHOOSE f \in Begins(N) : TRUE)[N]]
<1>3. ASSUME NEW N \in Nat PROVE \E f \in Begins(N) : G[N] = f[N]
  BY <1>7
<1> HIDE DEF G
<1>4. G[0] = c
  BY <1>3
<1>5. ASSUME NEW N \in Nat PROVE G[N] \in Nat /\ G[N + 1] = g[N][G[N]]
  <2>1. PICK f \in Begins(N) : G[N] = f[N]
    BY <1>3
  <2>2. PICK h \in Begins(N + 1) : G[N + 1] = h[N + 1]
    <3>1. N + 1 \in Nat
      OBVIOUS
    <3> HIDE DEF Begins
    <3> QED BY <1>3, <3>1
  <2>3. h[N] = f[N]
    <3>1. N + 1 \in Nat /\ N <= N /\ N <= N + 1
      OBVIOUS
    <3> HIDE DEF Begins
    <3> QED BY <1>2, <3>1
  <2>4. h[N + 1] = g[N][h[N]]
    OBVIOUS
  <2>5. f[N] \in Nat
    OBVIOUS
  <2> QED BY <2>1, <2>2, <2>3, <2>4, <2>5
<1>6. G \in [Nat -> Nat]
  BY <1>5 DEF G
<1> QED BY <1>4, <1>5, <1>6

LEMMA Pow2Facts ==
  /\ Pow2 \in [Nat -> Nat] /\ Pow2[0] = 1 /\ \A N \in Nat : Pow2[N + 1] = 2 * Pow2[N]
<1> DEFINE g == [N \in Nat |-> [x \in Nat |-> 2 * x]]
<1>1. PICK f \in [Nat -> Nat] : f[0] = 1 /\ \A N \in Nat : f[N + 1] = g[N][f[N]]
  <2>1. PICK step \in [Nat -> [Nat -> Nat]] : step = g
    <3>1. g \in [Nat -> [Nat -> Nat]]
      OBVIOUS
    <3> HIDE DEF g
    <3> QED BY <3>1
  <2>2. \E f \in [Nat -> Nat] : f[0] = 1 /\ \A N \in Nat : f[N + 1] = step[N][f[N]]
    <3> HIDE DEF g
    <3>1. 1 \in Nat
      OBVIOUS
    <3> QED BY <3>1, Recursion
  <2> HIDE DEF g
  <2> QED BY <2>1, <2>2
<1>2. f = [k \in Nat |-> IF k = 0 THEN 1 ELSE 2 * f[k - 1]]
  <2>1. ASSUME NEW k \in Nat, k # 0 PROVE f[k] = 2 * f[k - 1]
    <3>1. k - 1 \in Nat /\ (k - 1) + 1 = k
      BY <2>1
    <3> QED BY <1>1, <3>1
  <2> QED BY <1>1, <2>1
<1>3. Pow2 = [k \in Nat |-> IF k = 0 THEN 1 ELSE 2 * Pow2[k - 1]]
  BY <1>2 DEF Pow2
<1> DEFINE T == {N \in Nat : Pow2[N] \in Nat}
<1>4. Pow2[0] = 1 /\ \A N \in Nat : Pow2[N + 1] = 2 * Pow2[N]
  <2>1. Pow2[0] = 1
    BY <1>3
  <2>2. ASSUME NEW N \in Nat PROVE Pow2[N + 1] = 2 * Pow2[N]
    <3>1. N + 1 # 0 /\ N + 1 \in Nat /\ (N + 1) - 1 = N
      OBVIOUS
    <3> QED BY <1>3, <3>1
  <2> QED BY <2>1, <2>2
<1>5. T = Nat
  <2>1. 0 \in T /\ \A N \in T : N + 1 \in T
    BY <1>4
  <2> HIDE DEF T
  <2> QED BY <2>1, Induction DEF T
<1>6. Pow2 \in [Nat -> Nat]
  BY <1>3, <1>5
<1> QED BY <1>4, <1>6

LEMMA Pow2Positive ==
  \A N \in Nat : Pow2[N] \in Nat \ {0}
<1> DEFINE T == {N \in Nat : Pow2[N] \in Nat \ {0}}
<1>1. 0 \in T /\ \A N \in T : N + 1 \in T
  BY Pow2Facts
<1> HIDE DEF T
<1>2. T = Nat
  BY <1>1, Induction DEF T
<1> QED BY <1>2 DEF T

LEMMA Pow2Sum ==
  \A x, y \in Nat : Pow2[x + y] = Pow2[x] * Pow2[y]
<1> SUFFICES ASSUME NEW x \in Nat PROVE \A y \in Nat : Pow2[x + y] = Pow2[x] * Pow2[y]
  OBVIOUS
<1> DEFINE T == {y \in Nat : Pow2[x + y] = Pow2[x] * Pow2[y]}
<1>1. 0 \in T
  BY Pow2Facts
<1>2. ASSUME NEW y \in T PROVE y + 1 \in T
  <2>0. y \in Nat /\ Pow2[x + y] = Pow2[x] * Pow2[y]
    OBVIOUS
  <2>1. Pow2[x + y + 1] = 2 * Pow2[x + y]
    BY Pow2Facts, <2>0
  <2>2. Pow2[y + 1] = 2 * Pow2[y]
    BY Pow2Facts, <2>0
  <2>3. PICK p \in Nat, q \in Nat : p = Pow2[x] /\ q = Pow2[y]
    BY Pow2Positive, <2>0
  <2>4. Pow2[x + y + 1] = p * Pow2[y + 1]
    <3>1. Pow2[x + y + 1] = 2 * (p * q)
      BY <2>0, <2>1, <2>3
    <3>2. p * Pow2[y + 1] = p * (2 * q)
      BY <2>2, <2>3
    <3> QED BY <3>1, <3>2
  <2>5. x + y + 1 = x + (y + 1)
    BY <2>0
  <2> QED BY <2>0, <2>3, <2>4, <2>5
<1> HIDE DEF T
<1>3. T = Nat
  BY <1>1, <1>2, Induction DEF T
<1> QED BY <1>3 DEF T

LEMMA NumeralFacts ==
  ASSUME NEW b \in Nat, NEW N \in Nat, NEW d, \A k \in 0..(N - 1) : d[k] \in Nat
  PROVE  /\ Numeral(d, b, 0) = 0
         /\ \A m \in 0..N : Numeral(d, b, m) \in Nat
         /\ \A m \in 0..(N - 1) :
                Numeral(d, b, m + 1) = Numeral(d, b, m) + d[m] * Pow2[b * m]
<1> DEFINE digit(m) == IF m < N THEN d[m] ELSE 0
<1> DEFINE g == [m \in Nat |-> [x \in Nat |-> x + digit(m) * Pow2[b * m]]]
<1>1. PICK G \in [Nat -> Nat] : G[0] = 0 /\ \A m \in Nat : G[m + 1] = g[m][G[m]]
  <2>1. PICK step \in [Nat -> [Nat -> Nat]] : step = g
    <3>1. ASSUME NEW m \in Nat PROVE digit(m) * Pow2[b * m] \in Nat
      <4>1. digit(m) \in Nat /\ b * m \in Nat
        OBVIOUS
      <4> HIDE DEF digit
      <4>2. Pow2[b * m] \in Nat
        BY <4>1, Pow2Positive
      <4> QED BY <4>1, <4>2
    <3>2. g \in [Nat -> [Nat -> Nat]]
      <4> HIDE DEF digit
      <4> QED BY <3>1
    <3> HIDE DEF g
    <3> QED BY <3>2
  <2>2. \E f \in [Nat -> Nat] : f[0] = 0 /\ \A m \in Nat : f[m + 1] = step[m][f[m]]
    <3> HIDE DEF g
    <3>1. 0 \in Nat
      OBVIOUS
    <3> QED BY <3>1, Recursion
  <2> HIDE DEF g
  <2> QED BY <2>1, <2>2
<1>2. ASSUME NEW m \in 0..(N - 1) PROVE G[m + 1] = G[m] + d[m] * Pow2[b * m]
  <2>1. m \in Nat /\ digit(m) = d[m]
    OBVIOUS
  <2> HIDE DEF digit
  <2> QED BY <1>1, <2>1
<1> HIDE DEF g, digit
<1>3. ASSUME NEW m \in 0..N PROVE Numeral(d, b, m) = G[m]
  <2> DEFINE sum == CHOOSE f : f = [k \in 0..m |-> IF k = 0 THEN 0 ELSE f[k - 1] + d[k - 1] * Pow2[b * (k - 1)]]
  <2>1. Numeral(d, b, m) = sum[m]
    BY DEF Numeral
  <2>2. sum = [k \in 0..m |-> IF k = 0 THEN 0 ELSE sum[k - 1] + d[k - 1] * Pow2[b * (k - 1)]]
    <3>1. PICK f : f = [k \in 0..m |-> G[k]]
      OBVIOUS
    <3>2. ASSUME NEW k \in 0..m, k # 0 PROVE f[k] = f[k - 1] + d[k - 1] * Pow2[b * (k - 1)]
      <4>1. k - 1 \in 0..(N - 1) /\ k - 1 \in 0..m /\ (k - 1) + 1 = k
        BY <3>2
      <4> QED BY <1>2, <3>1, <4>1
    <3>3. f = [k \in 0..m |-> IF k = 0 THEN 0 ELSE f[k - 1] + d[k - 1] * Pow2[b * (k - 1)]]
      BY <1>1, <3>1, <3>2
    <3> QED BY <3>3
  <2> HIDE DEF sum
  <2> DEFINE T == {k \in Nat : k <= m => sum[k] = G[k]}
  <2>3. 0 \in T
    BY <1>1, <2>2
  <2>4. ASSUME NEW k \in T PROVE k + 1 \in T
    <3> SUFFICES ASSUME k + 1 <= m PROVE sum[k + 1] = G[k + 1]
      OBVIOUS
    <3>1. k \in 0..(N - 1) /\ k + 1 \in 0..m /\ k + 1 # 0 /\ (k + 1) - 1 = k
      OBVIOUS
    <3>2. sum[k + 1] = sum[k] + d[k] * Pow2[b * k]
      BY <2>2, <3>1
    <3>3. sum[k] = G[k]
      BY <3>1
    <3> QED BY <1>2, <3>1, <3>2, <3>3
  <2> HIDE DEF T
  <2>5. T = Nat
    BY <2>3, <2>4, Induction DEF T
  <2> QED BY <2>1, <2>5 DEF T
<1>4. \A m \in 0..N : Numeral(d, b, m) \in Nat
  BY <1>3
<1>5. Numeral(d, b, 0) = 0
  BY <1>1, <1>3
<1>6. ASSUME NEW m \in 0..(N - 1)
      PROVE  Numeral(d, b, m + 1) = Numeral(d, b, m) + d[m] * Pow2[b * m]
  <2>1. m \in 0..N /\ m + 1 \in 0..N
    OBVIOUS
  <2> QED BY <1>2, <1>3, <2>1
<1> QED BY <1>4, <1>5, <1>6

LEMMA DivideUnique ==
  ASSUME NEW v \in Int, NEW d \in Nat \ {0}, NEW q \in Int, NEW r \in 0..(d - 1), v = d * q + r
  PROVE  v \div d = q /\ v % d = r
<1>1. v = d * (v \div d) + (v % d) /\ v \div d \in Int /\ v % d \in 0..(d - 1)
  OBVIOUS
<1>2. PICK p \in Int, s \in 0..(d - 1) : p = v \div d /\ s = v % d
  BY <1>1
<1>3. d * (p - q) = r - s
  BY <1>1, <1>2
<1>4. PICK e \in Int : e = p - q
  OBVIOUS
<1>5. d * e < d /\ d * e > -d
  BY <1>3, <1>4
<1>6. e = 0
  <2>1. CASE e >= 1
    <3>1. d * e >= d
      BY <2>1
    <3> QED BY <1>5, <3>1
  <2>2. CASE e <= -1
    <3>1. d * e <= -d
      BY <2>2
    <3> QED BY <1>5, <3>1
  <2> QED BY <2>1, <2>2
<1> QED BY <1>2, <1>3, <1>4, <1>6

\* What a digit more does to a number.
LEMMA DigitAbove ==
  ASSUME NEW low \in Nat, NEW p \in Nat, low < p, NEW digit \in Nat
  PROVE  /\ (low + digit * p) \div p = digit
         /\ \A base \in Nat : digit < base => low + digit * p < p * base
<1>1. (low + digit * p) \div p = digit
  <2>1. low + digit * p = p * digit + low /\ low + digit * p \in Int /\ low \in 0..(p - 1) /\ p \in Nat \ {0}
    OBVIOUS
  <2> QED BY <2>1, DivideUnique
<1>2. ASSUME NEW base \in Nat, digit < base PROVE low + digit * p < p * base
  <2>1. PICK more \in Nat : base = digit + 1 + more
    <3>1. base - digit - 1 \in Nat /\ base = digit + 1 + (base - digit - 1)
      BY <1>2
    <3> QED BY <3>1
  <2>2. p * base = p * digit + p + p * more
    BY <2>1
  <2>3. p * more \in Nat /\ p * digit = digit * p /\ p * digit \in Nat
    OBVIOUS
  <2> QED BY <2>2, <2>3
<1> QED BY <1>1, <1>2

LEMMA DigitsBelow ==
  ASSUME NEW v \in Int, NEW p \in Nat \ {0}, NEW base \in Nat \ {0}
  PROVE  v % (p * base) = (v % p) + (((v \div p) % base) * p)
<1>1. PICK q \in Int, r \in 0..(p - 1) : q = v \div p /\ r = v % p /\ v = p * q + r
  OBVIOUS
<1>2. PICK h \in Int, t \in 0..(base - 1) : h = q \div base /\ t = q % base /\ q = base * h + t
  OBVIOUS
<1>3. p * base \in Nat \ {0}
  OBVIOUS
<1>4. r + t * p \in 0..(p * base - 1)
  <2>1. r \in Nat /\ t \in Nat /\ r < p /\ t < base
    OBVIOUS
  <2>2. r + t * p < p * base
    BY <2>1, DigitAbove
  <2>3. r + t * p \in Nat /\ p * base \in Nat
    OBVIOUS
  <2> QED BY <2>2, <2>3
<1>5. v = (p * base) * h + (r + t * p)
  <2>1. p * q = p * (base * h) + p * t
    BY <1>2
  <2>2. p * (base * h) = (p * base) * h /\ p * t = t * p
    OBVIOUS
  <2> QED BY <1>1, <2>1, <2>2
<1>6. v % (p * base) = r + t * p
  BY <1>3, <1>4, <1>5, DivideUnique
<1> QED BY <1>1, <1>2, <1>6

LEMMA MultipleAbove ==
  ASSUME NEW low \in Int, NEW p \in Nat \ {0}, NEW m \in Int
  PROVE  (low + p * m) \div p = (low \div p) + m /\ (low + p * m) % p = low % p
<1>1. PICK q \in Int, r \in 0..(p - 1) : q = low \div p /\ r = low % p /\ low = p * q + r
  OBVIOUS
<1>2. p * (q + m) = p * q + p * m
  OBVIOUS
<1>3. low + p * m = p * (q + m) + r
  BY <1>1, <1>2
<1>4. low + p * m \in Int /\ q + m \in Int
  OBVIOUS
<1>5. (low + p * m) \div p = q + m /\ (low + p * m) % p = r
  BY <1>3, <1>4, DivideUnique
<1> QED BY <1>1, <1>5

LEMMA Pow2Step ==
  ASSUME NEW b \in Nat, NEW m \in Nat
  PROVE  /\ Pow2[b * m] \in Nat \ {0} /\ Pow2[b] \in Nat \ {0}
         /\ Pow2[b * (m + 1)] = Pow2[b * m] * Pow2[b]
<1>1. b * m \in Nat /\ b * (m + 1) = b * m + b
  OBVIOUS
<1> QED BY <1>1, Pow2Positive, Pow2Sum

\* Numbers with as many digits are the numbers below a power of the base.
LEMMA NumeralBound ==
  ASSUME NEW b \in Nat, NEW N \in Nat, NEW d, \A k \in 0..(N - 1) : d[k] \in 0..(Pow2[b] - 1)
  PROVE  \A m \in 0..N : Numeral(d, b, m) \in 0..(Pow2[b * m] - 1)
<1> DEFINE T == {m \in Nat : m <= N => Numeral(d, b, m) \in 0..(Pow2[b * m] - 1)}
<1>0. Pow2[b] \in Nat \ {0} /\ \A k \in 0..(N - 1) : d[k] \in Nat
  BY Pow2Positive
<1>1. 0 \in T
  <2>1. b * 0 = 0 /\ 0 \in 0..N
    OBVIOUS
  <2>2. Numeral(d, b, 0) = 0 /\ Pow2[b * 0] = 1
    <3> HIDE DEF T
    <3> QED BY <1>0, <2>1, NumeralFacts, Pow2Facts
  <2> QED BY <2>2
<1>2. ASSUME NEW m \in T PROVE m + 1 \in T
  <2> SUFFICES ASSUME m + 1 <= N PROVE Numeral(d, b, m + 1) \in 0..(Pow2[b * (m + 1)] - 1)
    OBVIOUS
  <2>1. m \in Nat /\ m \in 0..(N - 1) /\ Numeral(d, b, m) \in 0..(Pow2[b * m] - 1)
    OBVIOUS
  <2>2. Numeral(d, b, m + 1) = Numeral(d, b, m) + d[m] * Pow2[b * m]
    BY <1>0, <2>1, NumeralFacts
  <2>3. PICK p \in Nat \ {0}, base \in Nat \ {0}, low \in Nat, digit \in Nat :
            /\ p = Pow2[b * m] /\ base = Pow2[b] /\ low = Numeral(d, b, m) /\ digit = d[m]
            /\ low < p /\ digit < base
    <3>1. Pow2[b * m] \in Nat \ {0} /\ d[m] \in 0..(Pow2[b] - 1)
      BY <2>1, Pow2Step
    <3> HIDE DEF T
    <3> QED BY <1>0, <2>1, <3>1
  <2> HIDE DEF T
  <2>4. low + digit * p < p * base /\ low + digit * p \in Nat
    BY <2>3, DigitAbove
  <2>5. Pow2[b * (m + 1)] = p * base
    BY <2>1, <2>3, Pow2Step
  <2>6. Numeral(d, b, m + 1) = low + digit * p
    BY <2>2, <2>3
  <2>7. p * base \in Nat
    OBVIOUS
  <2> HIDE DEF T
  <2> QED BY <2>4, <2>5, <2>6, <2>7
<1> HIDE DEF T
<1>3. T = Nat
  BY <1>1, <1>2, Induction DEF T
<1> QED BY <1>3 DEF T

\* The digits of the number that the digits make.
LEMMA NumeralDigit ==
  ASSUME NEW b \in Nat, NEW N \in Nat, NEW d, \A k \in 0..(N - 1) : d[k] \in 0..(Pow2[b] - 1),
         NEW u \in 0..(N - 1)
  PROVE  (Numeral(d, b, N) \div Pow2[b * u]) % Pow2[b] = d[u]
<1> DEFINE Right(m) == (Numeral(d, b, m) \div Pow2[b * u]) % Pow2[b] = d[u]
<1> DEFINE T == {j \in Nat : u + 1 + j <= N => Right(u + 1 + j)}
<1>0. Pow2[b] \in Nat \ {0} /\ \A k \in 0..(N - 1) : d[k] \in Nat
  BY Pow2Positive
<1>1. 0 \in T
  <2> SUFFICES ASSUME u + 1 <= N PROVE Right(u + 1)
    OBVIOUS
  <2>1. u \in Nat /\ u \in 0..N /\ d[u] \in 0..(Pow2[b] - 1)
    OBVIOUS
  <2>2. Numeral(d, b, u + 1) = Numeral(d, b, u) + d[u] * Pow2[b * u]
    BY <1>0, NumeralFacts
  <2>3. Numeral(d, b, u) \in 0..(Pow2[b * u] - 1)
    BY <2>1, NumeralBound
  <2>4. PICK p \in Nat \ {0}, base \in Nat \ {0}, low \in Nat, digit \in Nat :
            /\ p = Pow2[b * u] /\ base = Pow2[b] /\ low = Numeral(d, b, u) /\ digit = d[u]
            /\ low < p /\ digit < base
    BY <1>0, <2>1, <2>3, Pow2Step
  <2> HIDE DEF T
  <2>8. low \in Nat /\ p \in Nat /\ low < p /\ digit \in Nat
    BY <2>4
  <2>5. (low + digit * p) \div p = digit
    BY <2>8, DigitAbove, Zenon
  <2>6. digit % base = digit
    BY <2>4
  <2> QED BY <2>2, <2>4, <2>5, <2>6
<1>2. ASSUME NEW j \in T PROVE j + 1 \in T
  <2> SUFFICES ASSUME u + 1 + (j + 1) <= N PROVE Right(u + 1 + (j + 1))
    OBVIOUS
  <2>1. PICK m \in Nat : m = u + 1 + j /\ m \in 0..N /\ m \in 0..(N - 1) /\ m + 1 = u + 1 + (j + 1)
    OBVIOUS
  <2>2. Right(m) /\ j \in Nat
    BY <2>1
  <2>3. Numeral(d, b, m + 1) = Numeral(d, b, m) + d[m] * Pow2[b * m]
    BY <1>0, <2>1, NumeralFacts
  <2>4. Numeral(d, b, m) \in Nat
    BY <1>0, <2>1, NumeralFacts
  <2>5. u \in Nat /\ b * u \in Nat /\ b * j \in Nat /\ b * m = b * u + (b * j + b)
    <3>1. m = u + (j + 1) /\ u \in Nat /\ j \in Nat
      BY <2>1, <2>2
    <3>2. b * m = b * u + b * (j + 1) /\ b * (j + 1) = b * j + b
      BY <3>1
    <3> QED BY <3>1, <3>2
  <2> HIDE DEF T, Right
  <2>6. Pow2[b * m] = Pow2[b * u] * (Pow2[b * j] * Pow2[b])
    <3>4. b * j + b \in Nat /\ b * u \in Nat
      BY <2>5
    <3>1. Pow2[b * u + (b * j + b)] = Pow2[b * u] * Pow2[b * j + b]
      BY <3>4, Pow2Sum, Zenon
    <3>2. Pow2[b * j + b] = Pow2[b * j] * Pow2[b]
      BY <2>5, Pow2Sum
    <3> QED BY <2>5, <3>1, <3>2
  <2>7. PICK p \in Nat \ {0}, base \in Nat \ {0}, far \in Nat, low \in Nat, digit \in Nat :
            /\ p = Pow2[b * u] /\ base = Pow2[b] /\ far = Pow2[b * j]
            /\ low = Numeral(d, b, m) /\ digit = d[m]
    BY <1>0, <2>1, <2>4, <2>5, Pow2Positive
  <2>8. PICK q \in Int, much \in Int : q = low \div p /\ much = digit * far
    OBVIOUS
  <2>9. digit * (p * (far * base)) = p * (base * much)
    <3>1. digit * (p * (far * base)) = p * (digit * (far * base))
      OBVIOUS
    <3>2. digit * (far * base) = base * (digit * far)
      OBVIOUS
    <3> QED BY <2>8, <3>1, <3>2
  <2>10. PICK above \in Int : above = base * much
    OBVIOUS
  <2>11. (low + p * above) \div p = q + above
    <3>1. low \in Int
      OBVIOUS
    <3>2. (low + p * above) \div p = (low \div p) + above
      BY <3>1, MultipleAbove
    <3> QED BY <2>8, <3>2
  <2>12. (q + base * much) % base = q % base
    BY MultipleAbove
  <2>13. Numeral(d, b, m + 1) = low + p * above
    BY <2>3, <2>6, <2>7, <2>9, <2>10
  <2> QED BY <2>1, <2>2, <2>7, <2>8, <2>10, <2>11, <2>12, <2>13 DEF Right
<1> HIDE DEF T, Right
<1>3. T = Nat
  BY <1>1, <1>2, Induction DEF T
<1>4. N - u - 1 \in T /\ u + 1 + (N - u - 1) = N
  BY <1>3
<1>5. Right(N)
  BY <1>4 DEF T
<1> QED BY <1>5 DEF Right

\* The number that the digits of a number make.
LEMMA NumeralOfDigits ==
  ASSUME NEW b \in Nat, NEW N \in Nat, NEW v \in Int, NEW d,
         \A k \in 0..(N - 1) : d[k] = (v \div Pow2[b * k]) % Pow2[b]
  PROVE  Numeral(d, b, N) = v % Pow2[b * N]
<1> DEFINE T == {m \in Nat : m <= N => Numeral(d, b, m) = v % Pow2[b * m]}
<1>0. Pow2[b] \in Nat \ {0} /\ \A k \in 0..(N - 1) : d[k] \in Nat
  <2> SUFFICES ASSUME NEW k \in 0..(N - 1) PROVE d[k] \in Nat /\ Pow2[b] \in Nat \ {0}
    BY Pow2Positive
  <2>1. k \in Nat /\ d[k] = (v \div Pow2[b * k]) % Pow2[b]
    OBVIOUS
  <2>2. PICK p \in Nat \ {0}, base \in Nat \ {0} : p = Pow2[b * k] /\ base = Pow2[b]
    BY <2>1, Pow2Step
  <2>3. (v \div p) % base \in Nat
    OBVIOUS
  <2> QED BY <2>1, <2>2, <2>3
<1>1. 0 \in T
  <2>1. b * 0 = 0 /\ 0 \in 0..N /\ v % 1 = 0
    OBVIOUS
  <2> QED BY <1>0, <2>1, NumeralFacts, Pow2Facts
<1>2. ASSUME NEW m \in T PROVE m + 1 \in T
  <2> SUFFICES ASSUME m + 1 <= N PROVE Numeral(d, b, m + 1) = v % Pow2[b * (m + 1)]
    OBVIOUS
  <2>1. m \in Nat /\ m \in 0..(N - 1) /\ Numeral(d, b, m) = v % Pow2[b * m]
    OBVIOUS
  <2>2. Numeral(d, b, m + 1) = Numeral(d, b, m) + d[m] * Pow2[b * m]
    BY <1>0, <2>1, NumeralFacts
  <2>3. PICK p \in Nat \ {0}, base \in Nat \ {0} : p = Pow2[b * m] /\ base = Pow2[b]
    BY <2>1, Pow2Step
  <2>4. v % (p * base) = (v % p) + (((v \div p) % base) * p)
    BY DigitsBelow
  <2>5. Pow2[b * (m + 1)] = p * base
    BY <2>1, <2>3, Pow2Step
  <2>6. d[m] = (v \div p) % base
    BY <2>1, <2>3
  <2> HIDE DEF T
  <2> QED BY <2>1, <2>2, <2>3, <2>4, <2>5, <2>6
<1> HIDE DEF T
<1>3. T = Nat
  BY <1>1, <1>2, Induction DEF T
<1> QED BY <1>3 DEF T

LEMMA Pow2Split ==
  ASSUME NEW b \in Nat, NEW N \in Nat, NEW u \in 0..(N - 1)
  PROVE  \E far \in Nat \ {0} : Pow2[b * N] = Pow2[b * u] * (Pow2[b] * far)
<1>1. PICK rest \in Nat : rest = N - u - 1
  OBVIOUS
<1>2. b * u \in Nat /\ b * rest \in Nat /\ b * N = b * u + (b + b * rest) /\ b + b * rest \in Nat
  <2>1. N = u + (rest + 1)
    BY <1>1
  <2>2. b * N = b * u + b * (rest + 1) /\ b * (rest + 1) = b * rest + b
    BY <2>1
  <2> QED BY <2>2
<1>3. Pow2[b * N] = Pow2[b * u] * Pow2[b + b * rest]
  BY <1>2, Pow2Sum
<1>4. Pow2[b + b * rest] = Pow2[b] * Pow2[b * rest]
  BY <1>2, Pow2Sum
<1>5. Pow2[b * rest] \in Nat \ {0}
  BY <1>2, Pow2Positive
<1> QED BY <1>3, <1>4, <1>5

\* Cutting a number off above its digit u does not change the digit.
LEMMA DigitOfRest ==
  ASSUME NEW b \in Nat, NEW N \in Nat, NEW u \in 0..(N - 1), NEW v \in Int
  PROVE  /\ ((v % Pow2[b * N]) \div Pow2[b * u]) % Pow2[b] = (v \div Pow2[b * u]) % Pow2[b]
         /\ (v \div Pow2[b * u]) % Pow2[b] \in 0..(Pow2[b] - 1)
<1>1. u \in Nat
  OBVIOUS
<1>2. PICK p \in Nat \ {0}, base \in Nat \ {0}, far \in Nat \ {0} :
          p = Pow2[b * u] /\ base = Pow2[b] /\ Pow2[b * N] = p * (base * far)
  <2>1. PICK far \in Nat \ {0} : Pow2[b * N] = Pow2[b * u] * (Pow2[b] * far)
    BY Pow2Split
  <2>2. Pow2[b * u] \in Nat \ {0} /\ Pow2[b] \in Nat \ {0}
    BY <1>1, Pow2Step
  <2> QED BY <2>1, <2>2
<1>3. p * (base * far) \in Nat \ {0}
  OBVIOUS
<1>4. PICK q \in Int, r \in Int :
          r = v % (p * (base * far)) /\ v = (p * (base * far)) * q + r
  BY <1>3
<1>5. PICK m \in Int : m = far * q
  OBVIOUS
<1>6. (p * (base * far)) * q = p * (base * m)
  <2>1. (p * (base * far)) * q = p * ((base * far) * q) /\ (base * far) * q = base * (far * q)
    OBVIOUS
  <2> QED BY <1>5, <2>1
<1>7. PICK above \in Int, t \in Int : above = base * m /\ t = r \div p
  OBVIOUS
<1>8. v = r + p * above
  <2>1. PICK high \in Int : high = p * above
    OBVIOUS
  <2>2. (p * (base * far)) * q = high
    BY <1>6, <1>7, <2>1
  <2>3. v = high + r
    BY <1>4, <2>2
  <2> QED BY <2>1, <2>3
<1>9. (r + p * above) \div p = (r \div p) + above
  BY MultipleAbove
<1>10. (t + base * m) % base = t % base
  BY MultipleAbove
<1>11. (v \div p) % base = (r \div p) % base
  BY <1>7, <1>8, <1>9, <1>10
<1>12. (v \div p) % base \in 0..(base - 1)
  OBVIOUS
<1> QED BY <1>2, <1>4, <1>11, <1>12

----------------------------------------------------------------------------
(* Fixed width: what is stored and loaded.                                 *)

FixedTypeOK ==
    /\ order \in F!Endian /\ writer \in F!Endian /\ reader \in F!Endian
    /\ signed \in BOOLEAN /\ sentBy \in {"stream", "byte_io"} /\ readBy \in {"stream", "byte_io"}
    /\ fixedWidth \in 1..FixedWordBytes /\ n \in 1..fixedWidth /\ fixedValue \in Int

\* The k low bytes of v on the wire.
Bytes(v, k) == [j \in 1..k |-> F!Digit(v, IF order = "little" THEN j - 1 ELSE k - j)]

LEMMA FixedConstants ==
  /\ FixedByteBits \in Nat /\ FixedByteBits # 0 /\ FixedWordBytes \in Nat
  /\ Registers \subseteq 1..FixedWordBytes
BY MCWireAssumption DEF F!FixedAssumption

\* The instance has numbers of its own; they are the same.
LEMMA SameNumbers ==
  /\ F!Pow2 = Pow2
  /\ \A d, b, N : F!Numeral(d, b, N) = Numeral(d, b, N)
<1>1. F!Pow2 = Pow2
  BY DEF F!Pow2, Pow2
<1> QED BY <1>1 DEF F!Numeral, Numeral

LEMMA DigitInside ==
  ASSUME NEW v \in Int, NEW k \in Nat, NEW u \in 0..(k - 1)
  PROVE  /\ F!ByteAt(v % F!Range2(k), u) = F!Digit(v, u)
         /\ F!Digit(v % F!Range2(k), u) = F!Digit(v, u)
         /\ F!ByteAt(v, u) = F!Digit(v, u)
         /\ F!Digit(v, u) \in 0..(Pow2[FixedByteBits] - 1)
BY FixedConstants, SameNumbers, DigitOfRest DEF F!ByteAt, F!Digit, F!Range2

LEMMA RangeFacts ==
  ASSUME NEW k \in Nat, NEW v \in Int
  PROVE  /\ F!Range2(k) \in Nat \ {0} /\ v % F!Range2(k) \in 0..(F!Range2(k) - 1)
         /\ v % F!Range2(k) \in Int
<1>1. FixedByteBits * k \in Nat
  BY FixedConstants
<1>2. F!Range2(k) \in Nat \ {0}
  BY <1>1, SameNumbers, Pow2Positive DEF F!Range2
<1> QED BY <1>2

\* A swap puts digit k - 1 - u where digit u was.
LEMMA SwapDigit ==
  ASSUME NEW x \in Int, NEW k \in Nat, NEW u \in 0..(k - 1)
  PROVE  F!ByteAt(F!ByteSwap(x, k), u) = F!Digit(x, k - 1 - u)
<1> DEFINE d == [p \in 0..(k - 1) |-> F!ByteAt(x, k - 1 - p)]
<1>1. ASSUME NEW p \in 0..(k - 1)
      PROVE  d[p] = F!Digit(x, k - 1 - p) /\ d[p] \in 0..(Pow2[FixedByteBits] - 1)
  <2>1. k - 1 - p \in 0..(k - 1)
    OBVIOUS
  <2>2. d[p] = F!ByteAt(x, k - 1 - p)
    OBVIOUS
  <2> HIDE DEF d
  <2> QED BY <2>1, <2>2, DigitInside
<1>2. F!ByteSwap(x, k) = Numeral(d, FixedByteBits, k)
  BY SameNumbers DEF F!ByteSwap
<1> HIDE DEF d
<1>3. (Numeral(d, FixedByteBits, k) \div Pow2[FixedByteBits * u]) % Pow2[FixedByteBits] = d[u]
  BY <1>1, FixedConstants, NumeralDigit
<1> QED BY <1>1, <1>2, <1>3, SameNumbers DEF F!ByteAt

\* What set writes of a value of any sign.
LEMMA Stored ==
  ASSUME NEW v \in Int, NEW w \in Nat, NEW k \in 1..w, NEW host \in F!Endian, order \in F!Endian
  PROVE  F!StoreUint(host, v % F!Range2(w), k) = Bytes(v, k)
<1>1. PICK x \in Int : x = v % F!Range2(w)
  BY RangeFacts
<1>2. ASSUME NEW u \in 0..(k - 1) PROVE F!Digit(x, u) = F!Digit(v, u)
  BY <1>1, DigitInside
<1>3. PICK y \in Int : y = x % F!Range2(k)
  BY RangeFacts
<1>4. ASSUME NEW u \in 0..(k - 1) PROVE F!ByteAt(y, u) = F!Digit(v, u) /\ F!Digit(y, u) = F!Digit(v, u)
  <2>1. F!ByteAt(x % F!Range2(k), u) = F!Digit(x, u) /\ F!Digit(x % F!Range2(k), u) = F!Digit(x, u)
    BY DigitInside
  <2> QED BY <1>2, <1>3, <2>1
<1>5. CASE k \in Registers
  <2>1. F!StoreUint(host, x, k) = [j \in 1..k |-> F!ByteAt(F!Swapped(host, y, k), F!Place(host, k, j))]
    BY <1>3, <1>5 DEF F!StoreUint, F!Image
  <2>2. ASSUME NEW j \in 1..k
        PROVE  F!ByteAt(F!Swapped(host, y, k), F!Place(host, k, j))
                  = F!Digit(v, IF order = "little" THEN j - 1 ELSE k - j)
    <3>1. F!Place(host, k, j) \in 0..(k - 1) /\ j - 1 \in 0..(k - 1) /\ k - j \in 0..(k - 1)
      BY DEF F!Place
    <3>2. CASE order = host
      <4>1. F!Swapped(host, y, k) = y
        BY <3>2 DEF F!Swapped
      <4>2. F!Place(host, k, j) = IF order = "little" THEN j - 1 ELSE k - j
        BY <3>2 DEF F!Place
      <4> QED BY <1>4, <3>1, <4>1, <4>2
    <3>3. CASE order # host /\ k > 1
      <4>1. F!Swapped(host, y, k) = F!ByteSwap(y, k)
        BY <3>3 DEF F!Swapped
      <4>2. F!ByteAt(F!ByteSwap(y, k), F!Place(host, k, j)) = F!Digit(y, k - 1 - F!Place(host, k, j))
        BY <3>1, SwapDigit
      <4>3. k - 1 - F!Place(host, k, j) = IF order = "little" THEN j - 1 ELSE k - j
        BY <3>3 DEF F!Place, F!Endian
      <4> QED BY <1>4, <3>1, <4>1, <4>2, <4>3
    <3>4. CASE order # host /\ ~(k > 1)
      <4>1. F!Swapped(host, y, k) = y
        BY <3>4 DEF F!Swapped
      <4>2. F!Place(host, k, j) = IF order = "little" THEN j - 1 ELSE k - j
        BY <3>4 DEF F!Place
      <4> QED BY <1>4, <3>1, <4>1, <4>2
    <3> QED BY <3>2, <3>3, <3>4
  <2> QED BY <1>1, <2>1, <2>2 DEF Bytes
<1>6. CASE k \notin Registers
  <2>1. F!StoreUint(host, x, k)
           = [j \in 1..k |-> (x \div Pow2[F!ShiftOf(k, j - 1)]) % Pow2[FixedByteBits]]
    BY <1>6, SameNumbers DEF F!StoreUint
  <2>2. ASSUME NEW j \in 1..k
        PROVE  (x \div Pow2[F!ShiftOf(k, j - 1)]) % Pow2[FixedByteBits]
                  = F!Digit(v, IF order = "little" THEN j - 1 ELSE k - j)
    <3>1. j - 1 \in 0..(k - 1) /\ k - j \in 0..(k - 1) /\ k - 1 - (j - 1) = k - j
      OBVIOUS
    <3>2. F!ShiftOf(k, j - 1) = FixedByteBits * (IF order = "little" THEN j - 1 ELSE k - j)
      BY <3>1 DEF F!ShiftOf
    <3> QED BY <1>2, <3>1, <3>2, SameNumbers DEF F!Digit
  <2> QED BY <1>1, <2>1, <2>2 DEF Bytes
<1> QED BY <1>5, <1>6

LEMMA RangeDivides ==
  ASSUME NEW w \in Nat, NEW k \in 0..w
  PROVE  \E m \in Nat \ {0} : F!Range2(w) = F!Range2(k) * m
<1>1. PICK rest \in Nat : rest = w - k /\ w = k + rest
  OBVIOUS
<1>2. /\ FixedByteBits * k \in Nat /\ FixedByteBits * rest \in Nat
      /\ FixedByteBits * w = FixedByteBits * k + FixedByteBits * rest
  BY <1>1, FixedConstants
<1>3. Pow2[FixedByteBits * w] = Pow2[FixedByteBits * k] * Pow2[FixedByteBits * rest]
  BY <1>2, Pow2Sum
<1>4. Pow2[FixedByteBits * rest] \in Nat \ {0}
  BY <1>2, Pow2Positive
<1> QED BY <1>3, <1>4, SameNumbers DEF F!Range2

\* The loop of a load, byte by byte.
LEMMA ShiftedIs ==
  ASSUME NEW v \in Int, NEW k \in 1..FixedWordBytes, order \in F!Endian
  PROVE  F!Shifted(Bytes(v, k)) = v % F!Range2(k)
<1> DEFINE s == Bytes(v, k)
<1> DEFINE Word(f) == [j \in 0..k |->
             IF j = 0 THEN 0
             ELSE IF order = "little" THEN f[j - 1] + s[j] * Pow2[FixedByteBits * (j - 1)]
             ELSE (f[j - 1] * Pow2[FixedByteBits] + s[j]) % F!Range2(FixedWordBytes)]
<1>1. Len(s) = k /\ \A j \in 1..k : s[j] = F!Digit(v, IF order = "little" THEN j - 1 ELSE k - j)
  BY DEF Bytes
<1>2. PICK x \in Nat : x = v % F!Range2(k) /\ x < F!Range2(k)
  <2> HIDE DEF s, Word
  <2>1. k \in Nat
    OBVIOUS
  <2>2. PICK range \in Nat \ {0} : range = F!Range2(k)
    BY <2>1, RangeFacts
  <2>3. v % range \in Nat /\ v % range < range
    OBVIOUS
  <2> QED BY <2>2, <2>3
<1>3. \E f : f = Word(f) /\ f[k] = x
  <2>1. CASE order = "little"
    <3>1. PICK f : f = [j \in 0..k |-> v % Pow2[FixedByteBits * j]]
      OBVIOUS
    <3>2. f[0] = 0
      <4>1. FixedByteBits * 0 = 0 /\ v % 1 = 0
        BY FixedConstants
      <4>2. f[0] = v % Pow2[FixedByteBits * 0]
        BY <3>1
      <4> HIDE DEF s, Word
      <4> QED BY <4>1, <4>2, Pow2Facts
    <3>3. ASSUME NEW j \in 0..k, j # 0
          PROVE  f[j] = f[j - 1] + s[j] * Pow2[FixedByteBits * (j - 1)]
      <4>1. PICK l \in Nat : l = j - 1 /\ l + 1 = j /\ l \in 0..k /\ j \in 1..k
        BY <3>3
      <4>2. PICK p \in Nat \ {0}, base \in Nat \ {0} :
                p = Pow2[FixedByteBits * l] /\ base = Pow2[FixedByteBits] /\ Pow2[FixedByteBits * j] = p * base
        <5>1. /\ Pow2[FixedByteBits * l] \in Nat \ {0} /\ Pow2[FixedByteBits] \in Nat \ {0}
              /\ Pow2[FixedByteBits * (l + 1)] = Pow2[FixedByteBits * l] * Pow2[FixedByteBits]
          <6> HIDE DEF s, Word
          <6> QED BY FixedConstants, Pow2Step
        <5> HIDE DEF s, Word
        <5> QED BY <4>1, <5>1
      <4>3. v % (p * base) = (v % p) + (((v \div p) % base) * p)
        BY DigitsBelow
      <4>4. s[j] = (v \div p) % base
        BY <1>1, <2>1, <4>1, <4>2, SameNumbers DEF F!Digit
      <4>5. f[j] = v % (p * base) /\ f[j - 1] = v % p
        BY <3>1, <4>1, <4>2
      <4> QED BY <4>1, <4>2, <4>3, <4>4, <4>5
    <3>4. f = Word(f)
      BY <2>1, <3>1, <3>2, <3>3
    <3>5. f[k] = x
      BY <1>2, <3>1, SameNumbers DEF F!Range2
    <3> QED BY <3>4, <3>5
  <2>2. CASE order # "little"
    <3>1. PICK f : f = [j \in 0..k |-> x \div Pow2[FixedByteBits * (k - j)]]
      OBVIOUS
    <3>2. f[0] = 0
      <4>1. PICK range \in Nat \ {0} : range = F!Range2(k)
        BY RangeFacts
      <4>2. x \div range = 0
        BY <1>2, <4>1
      <4>3. Pow2[FixedByteBits * (k - 0)] = range
        BY <4>1, SameNumbers DEF F!Range2
      <4> QED BY <3>1, <4>2, <4>3
    <3>3. ASSUME NEW j \in 0..k, j # 0
          PROVE  f[j] = (f[j - 1] * Pow2[FixedByteBits] + s[j]) % F!Range2(FixedWordBytes)
      <4>1. PICK l \in Nat : l = k - j /\ k - (j - 1) = l + 1 /\ l \in 0..(k - 1) /\ j \in 1..k /\ j - 1 \in 0..k
        BY <3>3
      <4>2. PICK p \in Nat \ {0}, base \in Nat \ {0} :
                p = Pow2[FixedByteBits * l] /\ base = Pow2[FixedByteBits]
                /\ Pow2[FixedByteBits * (l + 1)] = p * base
        <5>1. /\ Pow2[FixedByteBits * l] \in Nat \ {0} /\ Pow2[FixedByteBits] \in Nat \ {0}
              /\ Pow2[FixedByteBits * (l + 1)] = Pow2[FixedByteBits * l] * Pow2[FixedByteBits]
          <6> HIDE DEF s, Word
          <6> QED BY FixedConstants, Pow2Step
        <5> HIDE DEF s, Word
        <5> QED BY <5>1
      <4>3. f[j] = x \div p /\ f[j - 1] = x \div (p * base)
        BY <3>1, <4>1, <4>2
      <4>4. PICK y \in Nat : y = x \div p /\ y <= x
        OBVIOUS
      <4>5. x \div (p * base) = y \div base
        BY <4>4
      <4>6. s[j] = y % base
        <5>1. s[j] = F!Digit(v, l)
          BY <1>1, <2>2, <4>1
        <5>2. F!Digit(v, l) = F!Digit(x, l)
          BY <1>2, <4>1, DigitInside
        <5>3. F!Digit(x, l) = (x \div p) % base
          BY <4>1, <4>2, SameNumbers DEF F!Digit
        <5> QED BY <4>4, <5>1, <5>2, <5>3
      <4>7. (y \div base) * base + (y % base) = y
        OBVIOUS
      <4>8. y < F!Range2(FixedWordBytes)
        <5>1. PICK m \in Nat \ {0}, range \in Nat \ {0} :
                  F!Range2(FixedWordBytes) = range * m /\ range = F!Range2(k)
          <6> HIDE DEF s, Word
          <6>1. k \in Nat /\ k \in 0..FixedWordBytes /\ FixedWordBytes \in Nat
            BY FixedConstants
          <6>2. F!Range2(k) \in Nat \ {0}
            BY <6>1, RangeFacts
          <6>3. PICK m \in Nat \ {0} : F!Range2(FixedWordBytes) = F!Range2(k) * m
            BY <6>1, RangeDivides
          <6> QED BY <6>2, <6>3
        <5>2. range <= range * m
          OBVIOUS
        <5>3. range * m \in Nat
          OBVIOUS
        <5> QED BY <1>2, <4>4, <5>1, <5>2, <5>3
      <4>9. PICK whole \in Nat \ {0} : whole = F!Range2(FixedWordBytes)
        BY FixedConstants, RangeFacts
      <4>10. y % whole = y
        BY <4>8, <4>9
      <4> QED BY <4>2, <4>3, <4>4, <4>5, <4>6, <4>7, <4>9, <4>10
    <3>4. f = Word(f)
      BY <2>2, <3>1, <3>2, <3>3
    <3>5. f[k] = x
      <4>1. FixedByteBits * (k - k) = 0 /\ x \div 1 = x
        BY FixedConstants
      <4>2. f[k] = x \div Pow2[FixedByteBits * (k - k)]
        BY <3>1
      <4> HIDE DEF s, Word
      <4> QED BY <4>1, <4>2, Pow2Facts
    <3> QED BY <3>4, <3>5
  <2> QED BY <2>1, <2>2
<1> DEFINE chosen == CHOOSE f : f = Word(f)
<1>4. F!Shifted(s) = chosen[k]
  <2> HIDE DEF s
  <2> QED BY <1>1, SameNumbers DEF F!Shifted
<1>5. chosen = Word(chosen)
  <2> HIDE DEF Word
  <2> QED BY <1>3
<1>6. PICK f : f = Word(f) /\ f[k] = x
  BY <1>3
<1> HIDE DEF chosen, s
<1> DEFINE T == {j \in Nat : j <= k => chosen[j] = f[j]}
<1>7. 0 \in T
  BY <1>5, <1>6
<1>8. ASSUME NEW j \in T PROVE j + 1 \in T
  <2> SUFFICES ASSUME j + 1 <= k PROVE chosen[j + 1] = f[j + 1]
    OBVIOUS
  <2>1. j \in Nat /\ j + 1 \in 0..k /\ j + 1 # 0 /\ (j + 1) - 1 = j /\ chosen[j] = f[j]
    OBVIOUS
  <2> HIDE DEF T
  <2> QED BY <1>5, <1>6, <2>1
<1> HIDE DEF T
<1>9. T = Nat
  BY <1>7, <1>8, Induction DEF T
<1>10. chosen[k] = f[k]
  BY <1>9 DEF T
<1> QED BY <1>2, <1>4, <1>6, <1>10 DEF s

\* What get loads is what the bytes say.
LEMMA Loaded ==
  ASSUME NEW v \in Int, NEW k \in 1..FixedWordBytes, NEW host \in F!Endian, order \in F!Endian
  PROVE  F!LoadUint(host, Bytes(v, k)) = v % F!Range2(k)
<1>1. Len(Bytes(v, k)) = k
  BY DEF Bytes
<1>2. CASE k \notin Registers
  BY <1>1, <1>2, ShiftedIs DEF F!LoadUint
<1>3. CASE k \in Registers
  <2> DEFINE d == [u \in 0..(k - 1) |-> Bytes(v, k)[F!Address(host, k, u)]]
  <2>1. F!Register(host, Bytes(v, k)) = Numeral(d, FixedByteBits, k)
    BY <1>1, SameNumbers DEF F!Register
  <2>2. F!LoadUint(host, Bytes(v, k)) = F!Swapped(host, Numeral(d, FixedByteBits, k), k)
    <3> HIDE DEF d
    <3> QED BY <1>1, <1>3, <2>1 DEF F!LoadUint
  <2>3. CASE order = host \/ ~(k > 1)
    <3>1. F!Swapped(host, Numeral(d, FixedByteBits, k), k) = Numeral(d, FixedByteBits, k)
      BY <2>3 DEF F!Swapped
    <3>2. ASSUME NEW u \in 0..(k - 1)
          PROVE  d[u] = (v \div Pow2[FixedByteBits * u]) % Pow2[FixedByteBits]
      <4>1. F!Address(host, k, u) \in 1..k
        BY DEF F!Address
      <4>2. (IF order = "little" THEN F!Address(host, k, u) - 1 ELSE k - F!Address(host, k, u)) = u
        BY <2>3 DEF F!Address
      <4>3. d[u] = F!Digit(v, u)
        BY <4>1, <4>2 DEF Bytes
      <4> QED BY <4>3, SameNumbers DEF F!Digit
    <3> HIDE DEF d
    <3>3. Numeral(d, FixedByteBits, k) = v % Pow2[FixedByteBits * k]
      BY <3>2, FixedConstants, NumeralOfDigits
    <3> QED BY <2>2, <3>1, <3>3, SameNumbers DEF F!Range2
  <2>4. CASE order # host /\ k > 1
    <3>1. ASSUME NEW u \in 0..(k - 1)
          PROVE  d[u] = F!Digit(v, k - 1 - u) /\ d[u] \in 0..(Pow2[FixedByteBits] - 1)
      <4>1. F!Address(host, k, u) \in 1..k /\ k - 1 - u \in 0..(k - 1)
        BY DEF F!Address
      <4>2. (IF order = "little" THEN F!Address(host, k, u) - 1 ELSE k - F!Address(host, k, u)) = k - 1 - u
        BY <2>4 DEF F!Address, F!Endian
      <4>3. d[u] = F!Digit(v, k - 1 - u)
        BY <4>1, <4>2 DEF Bytes
      <4> HIDE DEF d
      <4>4. F!Digit(v, k - 1 - u) \in 0..(Pow2[FixedByteBits] - 1)
        BY <4>1, DigitInside
      <4> QED BY <4>3, <4>4
    <3> DEFINE x == Numeral(d, FixedByteBits, k)
    <3> DEFINE e == [u \in 0..(k - 1) |-> F!ByteAt(x, k - 1 - u)]
    <3>2. F!Swapped(host, x, k) = Numeral(e, FixedByteBits, k)
      BY <2>4, SameNumbers DEF F!Swapped, F!ByteSwap
    <3>3. ASSUME NEW u \in 0..(k - 1)
          PROVE  e[u] = (v \div Pow2[FixedByteBits * u]) % Pow2[FixedByteBits]
      <4> HIDE DEF d
      <4>1. PICK l \in 0..(k - 1) : l = k - 1 - u /\ k - 1 - l = u
        OBVIOUS
      <4>2. (x \div Pow2[FixedByteBits * l]) % Pow2[FixedByteBits] = d[l]
        BY <3>1, FixedConstants, NumeralDigit
      <4>3. e[u] = F!ByteAt(x, l)
        BY <4>1
      <4> HIDE DEF e, x
      <4>4. F!ByteAt(x, l) = (x \div Pow2[FixedByteBits * l]) % Pow2[FixedByteBits]
        BY SameNumbers DEF F!ByteAt
      <4>5. e[u] = F!Digit(v, u)
        BY <3>1, <4>1, <4>2, <4>3, <4>4
      <4> QED BY <4>5, SameNumbers DEF F!Digit
    <3> HIDE DEF e
    <3>4. Numeral(e, FixedByteBits, k) = v % Pow2[FixedByteBits * k]
      BY <3>3, FixedConstants, NumeralOfDigits
    <3> QED BY <2>2, <3>2, <3>4, SameNumbers DEF F!Range2
  <2> QED BY <2>3, <2>4
<1> QED BY <1>2, <1>3

\* Both halves ask for the sign bit of the k bytes in a way of their own.
LEMMA TopBit ==
  ASSUME NEW k \in 1..FixedWordBytes, NEW x \in 0..(F!Range2(k) - 1)
  PROVE  F!ByteAt(x, k - 1) >= Pow2[FixedByteBits - 1] <=> 2 * x >= F!Range2(k)
<1>1. PICK l \in Nat : l = k - 1 /\ l + 1 = k
  OBVIOUS
<1>2. FixedByteBits - 1 \in Nat /\ (FixedByteBits - 1) + 1 = FixedByteBits
  BY FixedConstants
<1>3. PICK p \in Nat \ {0}, half \in Nat \ {0} :
          p = Pow2[FixedByteBits * l] /\ half = Pow2[FixedByteBits - 1]
  <2>1. Pow2[FixedByteBits * l] \in Nat \ {0} /\ Pow2[FixedByteBits - 1] \in Nat \ {0}
    BY <1>2, FixedConstants, Pow2Step, Pow2Positive
  <2> QED BY <2>1
<1>4. Pow2[FixedByteBits] = 2 * half
  BY <1>2, <1>3, Pow2Facts
<1>5. F!Range2(k) = p * (2 * half)
  <2>1. Pow2[FixedByteBits * (l + 1)] = Pow2[FixedByteBits * l] * Pow2[FixedByteBits]
    BY FixedConstants, Pow2Step
  <2> QED BY <1>1, <1>3, <1>4, <2>1, SameNumbers DEF F!Range2
<1>6. PICK y \in Nat : y = x
  BY RangeFacts
<1>7. PICK q \in Nat, r \in 0..(p - 1) : q = y \div p /\ y = p * q + r
  OBVIOUS
<1>8. PICK ph \in Nat : ph = p * half /\ p * (2 * half) = 2 * ph
  <2>1. p * (2 * half) = 2 * (p * half) /\ p * half \in Nat
    OBVIOUS
  <2> QED BY <2>1
<1>9. y < 2 * ph
  BY <1>5, <1>6, <1>8
<1>10. q >= half => y >= ph
  <2> SUFFICES ASSUME q >= half PROVE y >= ph
    OBVIOUS
  <2>1. p * q >= p * half
    OBVIOUS
  <2>2. p * q \in Nat
    OBVIOUS
  <2> QED BY <1>7, <1>8, <2>1, <2>2
<1>11. q < half => y < ph
  <2> SUFFICES ASSUME q < half PROVE y < ph
    OBVIOUS
  <2>1. p * (q + 1) <= p * half
    OBVIOUS
  <2>2. p * (q + 1) = p * q + p /\ p * q \in Nat
    OBVIOUS
  <2> QED BY <1>7, <1>8, <2>1, <2>2
<1>12. q < 2 * half
  <2> SUFFICES ASSUME q >= 2 * half PROVE FALSE
    OBVIOUS
  <2>1. p * q >= p * (2 * half)
    OBVIOUS
  <2>2. p * q \in Nat
    OBVIOUS
  <2> QED BY <1>7, <1>8, <1>9, <2>1, <2>2
<1>13. q % (2 * half) = q
  BY <1>12
<1>14. F!ByteAt(x, k - 1) = q
  BY <1>1, <1>3, <1>4, <1>6, <1>7, <1>13, SameNumbers DEF F!ByteAt
<1> QED BY <1>3, <1>5, <1>6, <1>8, <1>10, <1>11, <1>14

\* The sign, extended in the word and cut to the type.
LEMMA Extended ==
  ASSUME NEW k \in Nat, NEW w \in Nat, k > 0, k <= w, w <= FixedWordBytes,
         NEW x \in 0..(F!Range2(k) - 1), NEW word \in Int,
         word = IF k < FixedWordBytes /\ 2 * x >= F!Range2(k)
                THEN x + F!Range2(FixedWordBytes) - F!Range2(k) ELSE x
  PROVE  F!Signed(word % F!Range2(w), w) = F!Signed(x, k)
<1>1. FixedWordBytes \in Nat
  BY FixedConstants
<1>2. PICK rk \in Nat \ {0}, rw \in Nat \ {0}, all \in Nat \ {0}, m \in Nat \ {0}, l \in Nat \ {0} :
          /\ rk = F!Range2(k) /\ rw = F!Range2(w) /\ all = F!Range2(FixedWordBytes)
          /\ all = rw * m /\ rw = rk * l
  <2>1. F!Range2(k) \in Nat \ {0} /\ F!Range2(w) \in Nat \ {0} /\ F!Range2(FixedWordBytes) \in Nat \ {0}
    BY <1>1, RangeFacts
  <2>2. PICK m \in Nat \ {0} : F!Range2(FixedWordBytes) = F!Range2(w) * m
    BY <1>1, RangeDivides
  <2>3. PICK l \in Nat \ {0} : F!Range2(w) = F!Range2(k) * l
    BY RangeDivides
  <2> QED BY <2>1, <2>2, <2>3
<1>3. rk <= rw
  BY <1>2
<1>4. PICK y \in Nat : y = x /\ y < rk
  BY <1>2
<1>5. CASE 2 * y < rk
  <2>1. word = y
    BY <1>2, <1>4, <1>5
  <2>2. y % rw = y
    BY <1>3, <1>4
  <2> QED BY <1>2, <1>3, <1>4, <1>5, <2>1, <2>2 DEF F!Signed
<1>6. CASE 2 * y >= rk /\ k < FixedWordBytes
  <2>1. PICK cut \in Nat : cut = rw - (rk - y) /\ cut < rw /\ 2 * cut >= rw
    <3>1. rw - (rk - y) \in Nat
      BY <1>3, <1>4
    <3> QED BY <1>3, <1>4, <1>6, <3>1
  <2>2. word = rw * (m - 1) + cut
    <3>1. rw * (m - 1) = rw * m - rw
      OBVIOUS
    <3>2. word = y + all - rk
      BY <1>2, <1>4, <1>6
    <3> QED BY <1>2, <2>1, <3>1, <3>2
  <2>3. word % rw = cut
    <3>1. cut \in 0..(rw - 1) /\ m - 1 \in Int
      BY <2>1
    <3> QED BY <2>2, <3>1, DivideUnique
  <2> QED BY <1>2, <1>4, <1>6, <2>1, <2>3 DEF F!Signed
<1>7. CASE 2 * y >= rk /\ ~(k < FixedWordBytes)
  <2>1. w = k /\ rw = rk
    <3>1. w = k
      BY <1>1, <1>7
    <3> QED BY <1>2, <3>1
  <2>2. word = y /\ y % rw = y
    BY <1>2, <1>4, <1>7, <2>1
  <2> QED BY <1>2, <1>4, <2>1, <2>2
<1> QED BY <1>5, <1>6, <1>7

FixedInv ==
    /\ FixedTypeOK
    /\ wire # <<>> => wire = Bytes(fixedValue, n)
    /\ got # <<>> => /\ wire # <<>>
                     /\ got[1] = IF signed THEN F!Signed(fixedValue % F!Range2(n), n)
                                 ELSE fixedValue % F!Range2(n)

LEMMA FixedInit ==
  ASSUME MCInit
  PROVE  FixedInv
<1>1. CASE F!Init
  <2>1. fixedWidth \in 1..FixedWordBytes
    BY <1>1, FixedConstants DEF F!Init
  <2>2. PICK range \in Nat : range = F!Range2(fixedWidth)
    BY <2>1, RangeFacts
  <2>3. fixedValue \in Int
    BY <1>1, <2>2 DEF F!Init, F!Values
  <2> QED BY <1>1, <2>1, <2>3 DEF F!Init, FixedInv, FixedTypeOK
<1>2. CASE NothingToSend
  <2>1. FixedTypeOK
    <3>1. 1 \in 1..FixedWordBytes
      BY MCWireAssumption DEF F!FixedAssumption
    <3>2. order \in F!Endian /\ writer \in F!Endian /\ reader \in F!Endian
      BY <1>2 DEF NothingToSend, F!Endian
    <3>3. signed \in BOOLEAN
      BY <1>2 DEF NothingToSend
    <3>4. sentBy \in {"stream", "byte_io"} /\ readBy \in {"stream", "byte_io"}
      BY <1>2 DEF NothingToSend
    <3>5. n \in 1..fixedWidth /\ fixedValue \in Int /\ fixedWidth \in 1..FixedWordBytes
      BY <1>2, <3>1 DEF NothingToSend
    <3> QED BY <3>2, <3>3, <3>4, <3>5 DEF FixedTypeOK
  <2>2. PICK base \in Nat \ {0}, p \in Nat \ {0}, range \in Nat \ {0} :
            base = Pow2[FixedByteBits] /\ p = Pow2[FixedByteBits * 0] /\ range = F!Range2(1)
    <3>1. Pow2[FixedByteBits] \in Nat \ {0} /\ Pow2[FixedByteBits * 0] \in Nat \ {0}
      BY FixedConstants, Pow2Step
    <3>2. F!Range2(1) \in Nat \ {0}
      BY RangeFacts
    <3> QED BY <3>1, <3>2
  <2>3. (0 \div p) % base = 0 /\ 0 % range = 0
    OBVIOUS
  <2>4. F!Digit(0, 0) = 0
    BY <2>2, <2>3, SameNumbers DEF F!Digit
  <2>5. wire = Bytes(fixedValue, n)
    <3>1. \A j \in 1..1 : Bytes(0, 1)[j] = 0
      BY <1>2, <2>4 DEF NothingToSend, Bytes
    <3>2. Bytes(0, 1) = [j \in 1..1 |-> 0]
      BY <3>1 DEF Bytes
    <3>3. <<0>> = [j \in 1..1 |-> 0]
      OBVIOUS
    <3> QED BY <1>2, <3>2, <3>3 DEF NothingToSend
  <2>6. wire # <<>> /\ got[1] = fixedValue % F!Range2(n) /\ ~signed
    BY <1>2, <2>2, <2>3 DEF NothingToSend
  <2> QED BY <2>1, <2>5, <2>6 DEF FixedInv
<1> QED BY <1>1, <1>2 DEF MCInit

LEMMA FixedStep ==
  ASSUME FixedInv, [MCNext]_<<vars, fixedVars>>
  PROVE  FixedInv'
<1>1. CASE UNCHANGED fixedVars
  BY <1>1 DEF FixedInv, FixedTypeOK, fixedVars, Bytes, F!Digit, F!Signed, F!Range2
<1>2. CASE F!Set
  <2>1. FixedTypeOK'
    BY <1>2 DEF F!Set, FixedInv, FixedTypeOK
  <2>2. FixedTypeOK /\ got = <<>>
    BY <1>2 DEF F!Set, FixedInv
  <2>3. wire' = F!StoreUint(writer, fixedValue % F!Range2(fixedWidth), n)
    BY <1>2, <2>2 DEF F!Set, F!store_uint, FixedTypeOK
  <2>4. wire' = Bytes(fixedValue, n)
    <3>1. fixedWidth \in Nat
      BY <2>2, FixedConstants DEF FixedTypeOK
    <3> QED BY <2>2, <2>3, <3>1, Stored DEF FixedTypeOK
  <2>5. Bytes(fixedValue, n)' = Bytes(fixedValue, n)
    BY <1>2 DEF F!Set, Bytes, F!Digit
  <2>6. got' = <<>>
    BY <1>2, <2>2 DEF F!Set
  <2> QED BY <2>1, <2>4, <2>5, <2>6 DEF FixedInv
<1>3. CASE F!Get
  <2>1. FixedTypeOK'
    BY <1>3 DEF F!Get, FixedInv, FixedTypeOK
  <2>2. FixedTypeOK /\ wire = Bytes(fixedValue, n) /\ wire # <<>>
    BY <1>3 DEF F!Get, FixedInv
  <2>3. PICK k \in Nat, w \in Nat, v \in Int :
            /\ k = n /\ w = fixedWidth /\ v = fixedValue
            /\ k > 0 /\ k <= w /\ w <= FixedWordBytes /\ k \in 1..FixedWordBytes
    BY <2>2, FixedConstants DEF FixedTypeOK
  <2>4. PICK x \in 0..(F!Range2(k) - 1) : x = v % F!Range2(k)
    BY RangeFacts
  <2>5. F!LoadUint(reader, wire) = x
    BY <2>2, <2>3, <2>4, Loaded DEF FixedTypeOK
  <2> DEFINE word == IF ~signed THEN x
                     ELSE IF readBy = "stream" THEN F!SignExtend(x, k) ELSE F!ExtendTop(x, k)
  <2>6. got' = <<IF signed THEN F!Signed(word % F!Range2(w), w) ELSE word % F!Range2(w)>>
    BY <1>3, <2>2, <2>3, <2>5 DEF F!Get, F!load_uint, FixedTypeOK
  <2>7. got'[1] = IF signed THEN F!Signed(x, k) ELSE x
    <3>1. CASE signed
      <4>1. word = IF k < FixedWordBytes /\ 2 * x >= F!Range2(k)
                   THEN x + F!Range2(FixedWordBytes) - F!Range2(k) ELSE x
        BY <2>3, <3>1, TopBit, SameNumbers DEF F!SignExtend, F!ExtendTop
      <4>2. word \in Int
        <5>1. F!Range2(FixedWordBytes) \in Int /\ F!Range2(k) \in Int
          BY FixedConstants, RangeFacts
        <5> HIDE DEF word
        <5> QED BY <4>1, <5>1
      <4> HIDE DEF word
      <4>3. F!Signed(word % F!Range2(w), w) = F!Signed(x, k)
        BY <2>3, <4>1, <4>2, Extended
      <4> QED BY <2>6, <3>1, <4>3
    <3>2. CASE ~signed
      <4>1. PICK rk \in Nat \ {0}, rw \in Nat \ {0}, l \in Nat \ {0} :
                rk = F!Range2(k) /\ rw = F!Range2(w) /\ rw = rk * l
        <5>1. F!Range2(k) \in Nat \ {0} /\ F!Range2(w) \in Nat \ {0}
          BY RangeFacts
        <5>2. PICK l \in Nat \ {0} : F!Range2(w) = F!Range2(k) * l
          BY <2>3, RangeDivides
        <5> QED BY <5>1, <5>2
      <4>2. rk <= rw
        BY <4>1
      <4>3. x % rw = x
        BY <4>1, <4>2
      <4> QED BY <2>6, <3>2, <4>1, <4>3
    <3> QED BY <3>1, <3>2
  <2>8. wire' = Bytes(fixedValue, n)' /\ wire' # <<>>
    BY <1>3, <2>2 DEF F!Get, Bytes, F!Digit
  <2>9. signed' = signed /\ n' = k /\ fixedValue' = v
    BY <1>3, <2>3 DEF F!Get
  <2>10. got'[1] = IF signed' THEN F!Signed(fixedValue % F!Range2(n), n)'
                  ELSE (fixedValue % F!Range2(n))'
    BY <2>4, <2>7, <2>9 DEF F!Signed, F!Range2
  <2> HIDE DEF word
  <2> QED BY <2>1, <2>8, <2>10 DEF FixedInv
<1> QED BY <1>1, <1>2, <1>3 DEF MCNext, F!Next, fixedVars, vars

\* FixedWire: whatever the machines and the half of the library, the bytes
\* set writes are those WIRE_FORMAT.md has for the value (set, write).
THEOREM WireIsCanonicalHolds == MCSpec => []WireIsCanonical
<1>1. MCInit => FixedInv
  BY FixedInit
<1>2. FixedInv /\ [MCNext]_<<vars, fixedVars>> => FixedInv'
  BY FixedStep
<1>3. FixedInv => WireIsCanonical
  <2> SUFFICES ASSUME FixedInv, wire # <<>>
               PROVE  Len(wire) = n /\ \A j \in 1..n :
                         wire[j] = F!Digit(fixedValue, IF order = "little" THEN j - 1 ELSE n - j)
    BY DEF WireIsCanonical, F!WireIsCanonical
  <2>1. n \in Nat /\ wire = Bytes(fixedValue, n)
    BY FixedConstants DEF FixedInv, FixedTypeOK
  <2> QED BY <2>1 DEF Bytes
<1> QED BY <1>1, <1>2, <1>3, PTL DEF MCSpec

\* FixedWire: get returns what set was given, cut to the bytes there are and
\* with its sign, on any machine and with either half of the library at
\* either end (get, read).
THEOREM ReadsBackHolds == MCSpec => []ReadsBack
<1>1. MCInit => FixedInv
  BY FixedInit
<1>2. FixedInv /\ [MCNext]_<<vars, fixedVars>> => FixedInv'
  BY FixedStep
<1>3. FixedInv => ReadsBack
  BY DEF FixedInv, ReadsBack, F!ReadsBack
<1> QED BY <1>1, <1>2, <1>3, PTL DEF MCSpec

----------------------------------------------------------------------------
(* Compact: what bytes denote.                                             *)

LEMMA Pow2Monotone ==
  ASSUME NEW x \in Nat, NEW y \in Nat, x <= y
  PROVE  Pow2[x] <= Pow2[y]
<1>1. PICK z \in Nat : y = x + z
  <2>1. y - x \in Nat /\ y = x + (y - x)
    OBVIOUS
  <2> QED BY <2>1
<1>2. PICK p \in Nat \ {0}, q \in Nat \ {0} : p = Pow2[x] /\ q = Pow2[z]
  BY Pow2Positive
<1>3. p <= p * q
  OBVIOUS
<1> QED BY <1>1, <1>2, <1>3, Pow2Sum

LEMMA NumeralAgrees ==
  ASSUME NEW b \in Nat, NEW N \in Nat, NEW d, NEW e,
         \A k \in 0..(N - 1) : d[k] \in Nat /\ d[k] = e[k]
  PROVE  Numeral(d, b, N) = Numeral(e, b, N)
<1> DEFINE T == {m \in Nat : m <= N => Numeral(d, b, m) = Numeral(e, b, m)}
<1>1. \A k \in 0..(N - 1) : d[k] \in Nat
  OBVIOUS
<1>2. \A k \in 0..(N - 1) : e[k] \in Nat
  OBVIOUS
<1>3. Numeral(d, b, 0) = 0 /\ Numeral(e, b, 0) = 0
  <2> HIDE DEF T
  <2> QED BY <1>1, <1>2, NumeralFacts
<1>4. 0 \in T
  BY <1>3
<1>5. ASSUME NEW m \in T PROVE m + 1 \in T
  <2> SUFFICES ASSUME m + 1 <= N PROVE Numeral(d, b, m + 1) = Numeral(e, b, m + 1)
    OBVIOUS
  <2>1. m \in Nat /\ m \in 0..(N - 1) /\ Numeral(d, b, m) = Numeral(e, b, m) /\ d[m] = e[m]
    OBVIOUS
  <2> HIDE DEF T
  <2>2. Numeral(d, b, m + 1) = Numeral(d, b, m) + d[m] * Pow2[b * m]
    BY <1>1, <2>1, NumeralFacts
  <2>3. Numeral(e, b, m + 1) = Numeral(e, b, m) + e[m] * Pow2[b * m]
    BY <1>2, <2>1, NumeralFacts
  <2> QED BY <2>1, <2>2, <2>3
<1> HIDE DEF T
<1>6. T = Nat
  BY <1>4, <1>5, Induction DEF T
<1> QED BY <1>6 DEF T

DigitOf(x, b, u) == (x \div Pow2[b * u]) % Pow2[b]

LEMMA NumeralDigits ==
  ASSUME NEW b \in Nat, NEW N \in Nat, NEW d, \A k \in 0..(N - 1) : d[k] \in 0..(Pow2[b] - 1)
  PROVE  \A u \in 0..(N - 1) : DigitOf(Numeral(d, b, N), b, u) = d[u]
BY NumeralDigit DEF DigitOf

PayloadBits == ByteBits - 1

\* The last of the groups of a word has one bit left.
LEMMA CompactConstants ==
  /\ PayloadBits \in Nat /\ PayloadBits >= 2 /\ PayloadBits = ByteBits - 1
  /\ Group = Pow2[PayloadBits] /\ Group \in Nat /\ Group >= 4
  /\ MaxBytes \in Nat /\ MaxBytes >= 2
  /\ WordBits \in Nat /\ WordBits = PayloadBits * (MaxBytes - 1) + 1
  /\ ByteBits \in Nat /\ WordBytes \in Nat /\ WordBytes # 0
<1>1. ByteBits \in Nat /\ ByteBits > 2 /\ WordBytes \in Nat /\ WordBytes # 0
  BY CompactAssumption
<1>2. PICK p \in Nat : p = PayloadBits /\ p >= 2 /\ p = ByteBits - 1
  BY <1>1 DEF PayloadBits
<1>3. PICK w \in Nat : w = WordBits /\ w >= 3
  <2>1. ByteBits * WordBytes >= ByteBits
    BY <1>1
  <2>2. ByteBits * WordBytes \in Nat
    BY <1>1
  <2> QED BY <1>1, <2>1, <2>2 DEF WordBits
<1>4. PICK c \in Nat : c = w - 1 /\ c % p = 0 /\ c >= 2
  BY <1>2, <1>3, CompactAssumption DEF WordBits
<1>5. PICK q \in Nat : q = c \div p /\ c = p * q
  BY <1>2, <1>4
<1>6. q # 0
  BY <1>2, <1>4, <1>5
<1>7. MaxBytes = q + 1
  BY <1>2, <1>3, <1>4, <1>5 DEF MaxBytes
<1>8. Group = Pow2[p] /\ Pow2[p] \in Nat /\ Pow2[p] >= 4
  <2>1. Pow2[1] = 2 /\ Pow2[2] = 4
    <3>1. Pow2[0 + 1] = 2 * Pow2[0] /\ Pow2[1 + 1] = 2 * Pow2[1]
      BY Pow2Facts
    <3> QED BY <3>1, Pow2Facts
  <2>2. Pow2[2] <= Pow2[p] /\ Pow2[p] \in Nat
    BY <1>2, Pow2Monotone, Pow2Positive
  <2> QED BY <1>2, <2>1, <2>2 DEF Group
<1>9. MaxBytes \in Nat /\ MaxBytes >= 2 /\ MaxBytes - 1 = q
  BY <1>6, <1>7
<1>10. WordBits = p * q + 1
  BY <1>3, <1>4, <1>5
<1> QED BY <1>1, <1>2, <1>3, <1>8, <1>9, <1>10

LEMMA WordIsTwice ==
  /\ Pow2[WordBits] = 2 * Pow2[PayloadBits * (MaxBytes - 1)]
  /\ PayloadBits * (MaxBytes - 1) \in Nat
<1>1. PICK x \in Nat : x = PayloadBits * (MaxBytes - 1)
  <2>1. PICK p \in Nat, q \in Nat : p = PayloadBits /\ q = MaxBytes - 1
    BY CompactConstants
  <2>2. p * q \in Nat
    OBVIOUS
  <2> QED BY <2>1, <2>2
<1> QED BY <1>1, CompactConstants, Pow2Facts

LEMMA ByteFacts ==
  ASSUME NEW byte \in Byte
  PROVE  /\ byte \in Nat /\ Payload(byte) \in 0..(Group - 1)
         /\ More(byte) => byte = Payload(byte) + Group
         /\ ~More(byte) => byte = Payload(byte)
<1>1. PICK g \in Nat : g = Group /\ g > 0
  BY CompactConstants
<1>2. byte \in Nat /\ byte < 2 * g
  BY <1>1 DEF Byte
<1>3. byte % g \in 0..(g - 1)
  BY <1>1, <1>2
<1>4. byte >= g => byte = (byte % g) + g
  BY <1>1, <1>2
<1>5. byte < g => byte = byte % g
  BY <1>1, <1>2
<1> QED BY <1>1, <1>2, <1>3, <1>4, <1>5 DEF Payload, More

\* What the first k bytes of s denote.
ValueOf(s, k) == Numeral([u \in 0..(Len(s) - 1) |-> Payload(s[u + 1])], PayloadBits, k)

LEMMA ValueFacts ==
  ASSUME NEW s \in Seq(Byte)
  PROVE  /\ Denotation(s) = ValueOf(s, Len(s))
         /\ ValueOf(s, 0) = 0
         /\ \A k \in 0..Len(s) : ValueOf(s, k) \in 0..(Pow2[PayloadBits * k] - 1)
         /\ \A k \in 0..(Len(s) - 1) :
               /\ ValueOf(s, k + 1) = ValueOf(s, k) + Payload(s[k + 1]) * Pow2[PayloadBits * k]
               /\ (ValueOf(s, Len(s)) \div Pow2[PayloadBits * k]) % Group = Payload(s[k + 1])
<1> DEFINE d == [u \in 0..(Len(s) - 1) |-> Payload(s[u + 1])]
<1>1. ASSUME NEW k \in 0..(Len(s) - 1)
      PROVE  d[k] = Payload(s[k + 1]) /\ d[k] \in 0..(Pow2[PayloadBits] - 1)
  <2>1. d[k] = Payload(s[k + 1])
    OBVIOUS
  <2>2. s[k + 1] \in Byte
    <3>1. k + 1 \in 1..Len(s)
      OBVIOUS
    <3> HIDE DEF d
    <3> QED BY <3>1
  <2> HIDE DEF d
  <2> QED BY <2>1, <2>2, ByteFacts, CompactConstants
<1>2. Denotation(s) = Numeral(d, PayloadBits, Len(s)) /\ \A k : ValueOf(s, k) = Numeral(d, PayloadBits, k)
  BY DEF Denotation, ValueOf, PayloadBits
<1> HIDE DEF d
<1>3. Len(s) \in Nat /\ \A k \in 0..(Len(s) - 1) : d[k] \in Nat
  BY <1>1
<1>7. PICK b \in Nat, len \in Nat : b = PayloadBits /\ len = Len(s)
  BY <1>3, CompactConstants
<1>8. \A k \in 0..(len - 1) : d[k] \in Nat
  BY <1>3, <1>7
<1>9. \A k \in 0..(len - 1) : d[k] \in 0..(Pow2[b] - 1)
  BY <1>1, <1>7
<1>4. /\ Numeral(d, PayloadBits, 0) = 0
      /\ \A k \in 0..(Len(s) - 1) : Numeral(d, PayloadBits, k + 1)
             = Numeral(d, PayloadBits, k) + d[k] * Pow2[PayloadBits * k]
  <2>1. Numeral(d, b, 0) = 0
    BY <1>8, NumeralFacts
  <2>2. \A k \in 0..(len - 1) : Numeral(d, b, k + 1) = Numeral(d, b, k) + d[k] * Pow2[b * k]
    BY <1>8, NumeralFacts
  <2> QED BY <1>7, <2>1, <2>2
<1>5. \A k \in 0..Len(s) : Numeral(d, PayloadBits, k) \in 0..(Pow2[PayloadBits * k] - 1)
  BY <1>1, <1>3, CompactConstants, NumeralBound
<1>6. \A u \in 0..(len - 1) : DigitOf(Numeral(d, b, len), b, u) = d[u]
  BY <1>9, NumeralDigits
<1>10. \A k \in 0..(Len(s) - 1) :
           (Numeral(d, PayloadBits, Len(s)) \div Pow2[PayloadBits * k]) % Pow2[PayloadBits] = d[k]
  BY <1>6, <1>7 DEF DigitOf
<1> QED BY <1>1, <1>2, <1>4, <1>5, <1>10, CompactConstants

\* More bytes never denote less.
LEMMA ValueMonotone ==
  ASSUME NEW s \in Seq(Byte), NEW k \in 0..Len(s), NEW l \in k..Len(s)
  PROVE  ValueOf(s, k) <= ValueOf(s, l)
<1> DEFINE T == {m \in Nat : k + m <= Len(s) => ValueOf(s, k) <= ValueOf(s, k + m)}
<1>1. 0 \in T
  BY ValueFacts
<1>2. ASSUME NEW m \in T PROVE m + 1 \in T
  <2> SUFFICES ASSUME k + (m + 1) <= Len(s) PROVE ValueOf(s, k) <= ValueOf(s, k + (m + 1))
    OBVIOUS
  <2>1. m \in Nat /\ k + m <= Len(s) /\ ValueOf(s, k) <= ValueOf(s, k + m)
    OBVIOUS
  <2>2. PICK j \in 0..(Len(s) - 1) : j = k + m /\ j + 1 = k + (m + 1) /\ j \in Nat /\ j \in 0..Len(s)
    OBVIOUS
  <2> HIDE DEF T
  <2>3. ValueOf(s, j + 1) = ValueOf(s, j) + Payload(s[j + 1]) * Pow2[PayloadBits * j]
    BY ValueFacts
  <2>4. PICK x \in Nat, y \in Nat, p \in Nat, q \in Nat :
            x = ValueOf(s, k) /\ y = ValueOf(s, j) /\ p = Payload(s[j + 1]) /\ q = Pow2[PayloadBits * j]
    <3>1. ValueOf(s, k) \in Nat /\ ValueOf(s, j) \in Nat
      BY <2>2, ValueFacts
    <3>2. s[j + 1] \in Byte
      OBVIOUS
    <3>3. Payload(s[j + 1]) \in Nat
      BY <3>2, ByteFacts
    <3>4. Pow2[PayloadBits * j] \in Nat
      BY <2>2, CompactConstants, Pow2Step
    <3> QED BY <3>1, <3>3, <3>4
  <2>5. p * q \in Nat
    OBVIOUS
  <2> QED BY <2>1, <2>2, <2>3, <2>4, <2>5
<1> HIDE DEF T
<1>3. T = Nat
  BY <1>1, <1>2, Induction DEF T
<1>4. l - k \in Nat /\ k + (l - k) = l /\ l <= Len(s)
  OBVIOUS
<1>5. k + (l - k) <= Len(s) => ValueOf(s, k) <= ValueOf(s, k + (l - k))
  BY <1>3, <1>4 DEF T
<1> QED BY <1>4, <1>5

\* A byte of the payload that is not empty is worth its place.
LEMMA LastCounts ==
  ASSUME NEW s \in Seq(Byte), NEW k \in 1..Len(s), Payload(s[k]) # 0
  PROVE  ValueOf(s, k) >= Pow2[PayloadBits * (k - 1)]
<1>1. PICK l \in 0..(Len(s) - 1) : l = k - 1 /\ l + 1 = k /\ l \in Nat /\ l \in 0..Len(s)
  OBVIOUS
<1>2. ValueOf(s, l + 1) = ValueOf(s, l) + Payload(s[l + 1]) * Pow2[PayloadBits * l]
  BY ValueFacts
<1>3. PICK x \in Nat, p \in Nat, q \in Nat :
          x = ValueOf(s, l) /\ p = Payload(s[l + 1]) /\ q = Pow2[PayloadBits * l] /\ p # 0
  <2>1. ValueOf(s, l) \in Nat
    BY <1>1, ValueFacts
  <2>2. Payload(s[l + 1]) \in Nat
    BY <1>1, ByteFacts
  <2>3. Pow2[PayloadBits * l] \in Nat
    BY <1>1, CompactConstants, Pow2Step
  <2>4. Payload(s[l + 1]) # 0
    BY <1>1
  <2> QED BY <2>1, <2>2, <2>3, <2>4
<1>4. p * q >= q
  BY <1>3
<1>5. x + p * q \in Nat /\ x + p * q >= q
  BY <1>4
<1> QED BY <1>1, <1>2, <1>3, <1>5

\* ZigZag goes both ways.
LEMMA ZigZagBack ==
  ASSUME NEW w \in Nat, w > 0, NEW v \in 0..(Pow2[ByteBits * w] - 1), width = w
  PROVE  UnZigZag(v) \in Int /\ ZigZag(UnZigZag(v)) = v
<1>1. PICK all \in Nat, half \in Nat \ {0} : all = Pow2[Bits] /\ all = 2 * half
  <2>1. PICK x \in Nat : x + 1 = ByteBits * w
    <3>1. ByteBits * w >= 1 /\ ByteBits * w \in Nat
      <4>1. PICK bits \in Nat : bits = ByteBits /\ bits >= 1
        BY CompactAssumption
      <4>2. bits * w >= 1
        BY <4>1
      <4> QED BY <4>1, <4>2
    <3>2. ByteBits * w - 1 \in Nat /\ (ByteBits * w - 1) + 1 = ByteBits * w
      BY <3>1
    <3> QED BY <3>2
  <2>2. Pow2[x + 1] = 2 * Pow2[x] /\ Pow2[x] \in Nat \ {0}
    BY Pow2Facts, Pow2Positive
  <2> QED BY <2>1, <2>2 DEF Bits
<1>2. v \in Nat /\ v < all /\ v % all = v
  BY <1>1 DEF Bits
<1>3. PICK k \in Nat : v = 2 * k \/ v = 2 * k + 1
  <2>1. PICK y \in Nat : y = v
    BY <1>2
  <2>2. y \div 2 \in Nat /\ (y = 2 * (y \div 2) \/ y = 2 * (y \div 2) + 1)
    OBVIOUS
  <2> QED BY <2>1, <2>2
<1>4. CASE v = 2 * k
  <2>1. v % 2 = 0 /\ v \div 2 = k /\ k < half
    BY <1>1, <1>2, <1>4
  <2>2. UnZigZag(v) = k
    BY <1>1, <1>2, <2>1 DEF UnZigZag
  <2>3. k % all = k /\ v % all = v /\ 2 * k < all
    BY <1>1, <1>2, <1>4, <2>1
  <2> QED BY <1>1, <1>4, <2>2, <2>3 DEF ZigZag
<1>5. CASE v = 2 * k + 1
  <2>1. v % 2 = 1 /\ v \div 2 = k /\ k < half
    BY <1>1, <1>2, <1>5
  <2>2. UnZigZag(v) = -1 - k
    BY <1>1, <1>2, <2>1 DEF UnZigZag
  <2>3. PICK raw \in Nat : raw = all - 1 - k /\ 2 * raw >= all
    <3>1. all - 1 - k \in Nat /\ 2 * (all - 1 - k) >= all
      BY <1>1, <2>1
    <3> QED BY <3>1
  <2>4. (-1 - k) % all = raw
    BY <1>1, <2>1, <2>3
  <2>5. (2 * raw) % all = 2 * raw - all
    BY <1>1, <2>1, <2>3
  <2>6. ZigZag(-1 - k) = all - 1 - (2 * raw - all)
    BY <1>1, <2>3, <2>4, <2>5 DEF ZigZag
  <2> QED BY <1>1, <1>5, <2>2, <2>3, <2>6
<1> QED BY <1>3, <1>4, <1>5

----------------------------------------------------------------------------
(* Compact: the encoder.                                                   *)

Fits(m, v) == v < Pow2[PayloadBits * m]
SizeOf(v) == CHOOSE m \in Nat : m # 0 /\ Fits(m, v) /\ \A l \in Nat : l # 0 /\ Fits(l, v) => m <= l
Canonical(v) ==
    [j \in 1..SizeOf(v) |->
        IF j < SizeOf(v) THEN DigitOf(v, PayloadBits, j - 1) + Group
        ELSE DigitOf(v, PayloadBits, j - 1)]

LEMMA SizeFacts ==
  ASSUME NEW v \in 0..MaxWord
  PROVE  /\ SizeOf(v) \in Nat /\ SizeOf(v) # 0 /\ Fits(SizeOf(v), v)
         /\ \A l \in Nat : l # 0 /\ Fits(l, v) => SizeOf(v) <= l
<1> DEFINE T == {m \in Nat : m # 0 /\ Fits(m, v)}
<1>1. MaxBytes \in T
  <2>1. MaxBytes \in Nat /\ MaxBytes # 0 /\ MaxBytes - 1 \in Nat /\ (MaxBytes - 1) + 1 = MaxBytes
    BY CompactConstants
  <2>2. Pow2[PayloadBits * MaxBytes] = Pow2[PayloadBits * (MaxBytes - 1)] * Pow2[PayloadBits]
    BY <2>1, CompactConstants, Pow2Step
  <2>3. PICK p \in Nat, g \in Nat, w \in Nat :
            p = Pow2[PayloadBits * (MaxBytes - 1)] /\ g = Pow2[PayloadBits] /\ g >= 4 /\ w = Pow2[WordBits]
    BY CompactConstants, WordIsTwice, Pow2Positive
  <2>4. 2 * p <= p * g
    BY <2>3
  <2>5. w <= p * g
    BY <2>3, <2>4, WordIsTwice
  <2>6. v < w
    BY <2>3 DEF MaxWord
  <2> QED BY <2>1, <2>2, <2>3, <2>5, <2>6 DEF Fits
<1>2. T \in SUBSET Nat /\ T # {}
  BY <1>1
<1>3. \E m \in T : \A l \in T : m <= l
  <2> HIDE DEF T
  <2> QED BY <1>2, Least
<1>4. \E m \in Nat : m # 0 /\ Fits(m, v) /\ \A l \in Nat : l # 0 /\ Fits(l, v) => m <= l
  BY <1>3
<1> QED BY <1>4 DEF SizeOf

LEMMA DigitShift ==
  ASSUME NEW v \in Nat, NEW u \in Nat
  PROVE  /\ v \div Group \in Nat /\ v % Group \in 0..(Group - 1)
         /\ DigitOf(v, PayloadBits, 0) = v % Group
         /\ DigitOf(v, PayloadBits, u + 1) = DigitOf(v \div Group, PayloadBits, u)
         /\ Fits(u, v \div Group) <=> Fits(u + 1, v)
<1>1. PICK p \in Nat \ {0}, g \in Nat \ {0} :
          p = Pow2[PayloadBits * u] /\ g = Pow2[PayloadBits] /\ g = Group
          /\ Pow2[PayloadBits * (u + 1)] = p * g
  <2>1. /\ Pow2[PayloadBits * u] \in Nat \ {0} /\ Pow2[PayloadBits] \in Nat \ {0}
        /\ Pow2[PayloadBits * (u + 1)] = Pow2[PayloadBits * u] * Pow2[PayloadBits]
    BY CompactConstants, Pow2Step
  <2> QED BY <2>1, CompactConstants
<1>2. v \div g \in Nat /\ v % g \in 0..(g - 1)
  OBVIOUS
<1>3. DigitOf(v, PayloadBits, 0) = v % g
  <2>1. PayloadBits * 0 = 0 /\ v \div 1 = v
    BY CompactConstants
  <2> QED BY <1>1, <2>1, Pow2Facts DEF DigitOf
<1>4. (v \div g) \div p = v \div (p * g)
  <2>1. (v \div g) \div p = v \div (g * p) /\ g * p = p * g
    OBVIOUS
  <2> QED BY <2>1
<1>5. DigitOf(v, PayloadBits, u + 1) = DigitOf(v \div g, PayloadBits, u)
  BY <1>1, <1>4 DEF DigitOf
<1>6. v \div g < p <=> v < p * g
  <2>1. PICK q \in Nat, r \in Nat : q = v \div g /\ v = g * q + r /\ r < g
    BY <1>2
  <2>2. CASE q < p
    <3>1. PICK z \in Nat : p = q + 1 + z
      <4>1. p - q - 1 \in Nat /\ p = q + 1 + (p - q - 1)
        BY <2>2
      <4> QED BY <4>1
    <3>2. p * g = g * q + g + z * g
      BY <3>1
    <3>3. z * g \in Nat /\ g * q \in Nat
      OBVIOUS
    <3> QED BY <2>1, <2>2, <3>2, <3>3
  <2>3. CASE q >= p
    <3>1. g * q >= p * g
      BY <2>3
    <3>2. g * q \in Nat /\ p * g \in Nat
      OBVIOUS
    <3> QED BY <2>1, <2>3, <3>1, <3>2
  <2> QED BY <2>2, <2>3
<1> QED BY <1>1, <1>2, <1>3, <1>5, <1>6 DEF Fits

LEMMA SmallSize ==
  ASSUME NEW v \in 0..MaxWord
  PROVE  /\ v \div Group = 0 <=> Fits(1, v)
         /\ v \div Group = 0 => SizeOf(v) = 1
<1>1. PICK g \in Nat \ {0}, y \in Nat : g = Group /\ y = v
  <2>1. Pow2[WordBits] \in Nat
    BY CompactConstants, Pow2Positive
  <2>2. v \in Nat
    BY <2>1 DEF MaxWord
  <2> QED BY <2>2, CompactConstants
<1>2. y \div g = 0 <=> y < g
  OBVIOUS
<1>3. Fits(1, v) <=> y < g
  <2>1. PayloadBits * 1 = PayloadBits
    BY CompactConstants
  <2> QED BY <1>1, <2>1, CompactConstants DEF Fits
<1>4. Fits(1, v) => SizeOf(v) = 1
  <2> SUFFICES ASSUME Fits(1, v) PROVE SizeOf(v) = 1
    OBVIOUS
  <2>1. SizeOf(v) \in Nat /\ SizeOf(v) # 0 /\ SizeOf(v) <= 1
    BY SizeFacts
  <2> QED BY <2>1
<1> QED BY <1>1, <1>2, <1>3, <1>4

LEMMA RestFacts ==
  ASSUME NEW v \in 0..MaxWord, v \div Group # 0
  PROVE  /\ v \div Group \in 0..MaxWord /\ v \div Group < v
         /\ SizeOf(v) = SizeOf(v \div Group) + 1
<1>1. PICK g \in Nat, y \in Nat, w \in Nat :
          g = Group /\ y = v /\ g >= 4 /\ w = MaxWord /\ y <= w
  <2>1. Pow2[WordBits] \in Nat \ {0}
    BY CompactConstants, Pow2Positive
  <2>2. MaxWord \in Nat
    BY <2>1 DEF MaxWord
  <2> QED BY <2>2, CompactConstants
<1>2. PICK q \in Nat : q = y \div g /\ q < y
  <2>1. y \div g \in Nat /\ y \div g # 0
    BY <1>1
  <2>2. y \div g < y
    BY <1>1, <2>1
  <2> QED BY <2>1, <2>2
<1>3. q \in 0..MaxWord /\ q = v \div Group
  BY <1>1, <1>2
<1>4. PICK m \in Nat, l \in Nat : m = SizeOf(q) /\ l = SizeOf(v) /\ m # 0 /\ l # 0
  BY <1>3, SizeFacts
<1>5. Fits(m, q) /\ Fits(l, v)
  BY <1>3, <1>4, SizeFacts
<1>6. l <= m + 1
  <2>1. Fits(m + 1, v)
    BY <1>1, <1>3, <1>5, DigitShift
  <2>2. m + 1 \in Nat /\ m + 1 # 0
    OBVIOUS
  <2> QED BY <1>4, <2>1, <2>2, SizeFacts
<1>7. l # 1
  BY <1>3, <1>5, SmallSize
<1>8. m <= l - 1
  <2>1. PICK k \in Nat : k = l - 1 /\ k + 1 = l /\ k # 0
    BY <1>4, <1>7
  <2>2. Fits(k, q)
    BY <1>1, <1>3, <1>5, <2>1, DigitShift
  <2> QED BY <1>3, <1>4, <2>1, <2>2, SizeFacts
<1> QED BY <1>1, <1>2, <1>3, <1>4, <1>6, <1>8

\* The canonical form, byte by byte as the encoder makes it.
LEMMA CanonicalStep ==
  ASSUME NEW v \in 0..MaxWord
  PROVE  Canonical(v) = IF v \div Group = 0 THEN <<v % Group>>
                        ELSE <<(v % Group) + Group>> \o Canonical(v \div Group)
<1>1. v \in Nat
  <2>1. Pow2[WordBits] \in Nat
    BY CompactConstants, Pow2Positive
  <2> QED BY <2>1 DEF MaxWord
<1>2. DigitOf(v, PayloadBits, 0) = v % Group
  BY <1>1, DigitShift
<1>3. CASE v \div Group = 0
  <2>1. SizeOf(v) = 1
    BY <1>3, SmallSize
  <2>2. Canonical(v) = [j \in 1..1 |-> v % Group]
    BY <1>2, <2>1 DEF Canonical
  <2> QED BY <1>3, <2>2
<1>4. CASE v \div Group # 0
  <2>1. PICK rest \in 0..MaxWord, m \in Nat :
            rest = v \div Group /\ m = SizeOf(rest) /\ SizeOf(v) = m + 1 /\ m # 0
    BY <1>4, RestFacts, SizeFacts
  <2>2. PICK c : c = Canonical(rest)
    OBVIOUS
  <2>3. c = [j \in 1..m |-> IF j < m THEN DigitOf(rest, PayloadBits, j - 1) + Group
                            ELSE DigitOf(rest, PayloadBits, j - 1)]
    BY <2>1, <2>2 DEF Canonical
  <2>4. PICK h : h = (v % Group) + Group
    OBVIOUS
  <2>5. <<h>> \o c = [j \in 1..(m + 1) |-> IF j = 1 THEN h ELSE c[j - 1]]
    BY <2>3
  <2>6. ASSUME NEW j \in 1..(m + 1)
        PROVE  (IF j < m + 1 THEN DigitOf(v, PayloadBits, j - 1) + Group
                ELSE DigitOf(v, PayloadBits, j - 1)) = IF j = 1 THEN h ELSE c[j - 1]
    <3>1. CASE j = 1
      BY <1>2, <2>1, <2>4, <3>1
    <3>2. CASE j # 1
      <4>1. PICK l \in 1..m : l = j - 1 /\ l + 1 = j
        BY <3>2
      <4>2. PICK u \in Nat : u = l - 1 /\ u + 1 = l
        BY <4>1
      <4>3. DigitOf(v, PayloadBits, u + 1) = DigitOf(rest, PayloadBits, u)
        BY <1>1, <2>1, DigitShift
      <4>4. c[l] = IF l < m THEN DigitOf(rest, PayloadBits, u) + Group
                   ELSE DigitOf(rest, PayloadBits, u)
        BY <2>3, <4>2
      <4>5. j < m + 1 <=> l < m
        BY <4>1
      <4>6. j - 1 = u + 1
        BY <4>1, <4>2
      <4> QED BY <3>2, <4>1, <4>3, <4>4, <4>5, <4>6
    <3> QED BY <3>1, <3>2
  <2>7. Canonical(v) = [j \in 1..(m + 1) |-> IF j < m + 1 THEN DigitOf(v, PayloadBits, j - 1) + Group
                                             ELSE DigitOf(v, PayloadBits, j - 1)]
    BY <2>1 DEF Canonical
  <2>8. Canonical(v) = <<h>> \o c
    BY <2>5, <2>6, <2>7
  <2> QED BY <1>4, <2>1, <2>2, <2>4, <2>8
<1> QED BY <1>3, <1>4

\* The encoder emits the canonical form.
LEMMA EncodeIs ==
  \A v \in 0..MaxWord : Encode[v] = Canonical(v)
<1> DEFINE Loop(f) == [v \in 0..MaxWord |->
             IF v \div Group = 0 THEN <<v % Group>>
             ELSE <<(v % Group) + Group>> \o f[v \div Group]]
<1>1. Encode = CHOOSE f : f = Loop(f)
  BY DEF Encode
<1>2. \E f : f = Loop(f)
  <2>1. PICK f : f = [v \in 0..MaxWord |-> Canonical(v)]
    OBVIOUS
  <2>2. ASSUME NEW v \in 0..MaxWord
        PROVE  f[v] = IF v \div Group = 0 THEN <<v % Group>>
                      ELSE <<(v % Group) + Group>> \o f[v \div Group]
    <3>1. v \div Group # 0 => v \div Group \in 0..MaxWord
      BY RestFacts
    <3> QED BY <2>1, <3>1, CanonicalStep
  <2>3. f = Loop(f)
    BY <2>1, <2>2
  <2> QED BY <2>3
<1>3. Encode = Loop(Encode)
  <2> HIDE DEF Loop
  <2> QED BY <1>1, <1>2
<1>4. ASSUME NEW v \in 0..MaxWord
      PROVE  Encode[v] = IF v \div Group = 0 THEN <<v % Group>>
                         ELSE <<(v % Group) + Group>> \o Encode[v \div Group]
  BY <1>3
<1> HIDE DEF Loop
<1> SUFFICES ASSUME NEW w \in 0..MaxWord, Encode[w] # Canonical(w) PROVE FALSE
  OBVIOUS
<1>5. PICK most \in Nat : most = MaxWord
  <2>1. Pow2[WordBits] \in Nat \ {0}
    BY CompactConstants, Pow2Positive
  <2> QED BY <2>1 DEF MaxWord
<1> DEFINE T == {v \in 0..MaxWord : Encode[v] # Canonical(v)}
<1>6. T \in SUBSET Nat /\ T # {}
  BY <1>5
<1>7. PICK v \in T : \A y \in T : v <= y
  <2> HIDE DEF T
  <2> QED BY <1>6, Least
<1>8. v \in 0..MaxWord /\ v \in Nat
  BY <1>5
<1>9. v \div Group # 0 => Encode[v \div Group] = Canonical(v \div Group)
  <2> SUFFICES ASSUME v \div Group # 0, v \div Group \notin T
               PROVE  Encode[v \div Group] = Canonical(v \div Group)
    <3>1. v \div Group # 0 => v \div Group < v /\ v \div Group \in 0..MaxWord
      BY <1>8, RestFacts
    <3>2. PICK q : q = v \div Group
      OBVIOUS
    <3>3. q # 0 => q \notin T
      <4>1. q # 0 => q \in Nat /\ q < v
        BY <1>5, <3>1, <3>2
      <4> HIDE DEF T
      <4> QED BY <1>7, <1>8, <4>1
    <3> QED BY <3>2, <3>3
  <2>1. v \div Group \in 0..MaxWord
    BY <1>8, RestFacts
  <2> QED BY <2>1
<1>10. Encode[v] = Canonical(v)
  BY <1>4, <1>8, <1>9, CanonicalStep
<1> QED BY <1>10

\* A codeword is the canonical form of what it denotes.
LEMMA CodewordIs ==
  ASSUME NEW s \in Seq(Byte), Codeword(s), Denotation(s) \in 0..MaxWord
  PROVE  Encode[Denotation(s)] = s
<1>1. PICK len \in Nat, v \in Nat : len = Len(s) /\ v = Denotation(s) /\ len > 0
  <2>1. MaxWord \in Int
    BY CompactConstants, Pow2Positive DEF MaxWord
  <2>2. Len(s) \in Nat /\ Len(s) > 0
    BY DEF Codeword
  <2> QED BY <2>1, <2>2
<1>2. v = ValueOf(s, len)
  BY <1>1, ValueFacts
<1>3. Fits(len, v)
  <2>1. v \in 0..(Pow2[PayloadBits * len] - 1)
    BY <1>1, <1>2, ValueFacts
  <2>2. Pow2[PayloadBits * len] \in Nat
    BY CompactConstants, Pow2Step
  <2> QED BY <2>1, <2>2 DEF Fits
<1>4. ASSUME NEW l \in Nat, l # 0, Fits(l, v), l < len PROVE FALSE
  <2>1. len > 1 /\ s[len] \in Byte /\ ~More(s[len]) /\ s[len] # 0
    BY <1>1, <1>4 DEF Codeword
  <2>2. Payload(s[len]) # 0
    BY <2>1, ByteFacts
  <2>3. v >= Pow2[PayloadBits * (len - 1)]
    BY <1>1, <1>2, <2>2, LastCounts
  <2>4. PayloadBits * l \in Nat /\ PayloadBits * (len - 1) \in Nat /\ PayloadBits * l <= PayloadBits * (len - 1)
    <3>1. PICK b \in Nat, c \in Nat : b = PayloadBits /\ c = len - 1 /\ l <= c
      BY <1>1, <1>4, CompactConstants
    <3>2. b * l <= b * c /\ b * l \in Nat /\ b * c \in Nat
      BY <3>1
    <3> QED BY <3>1, <3>2
  <2>5. PICK p \in Nat, q \in Nat : p = Pow2[PayloadBits * l] /\ q = Pow2[PayloadBits * (len - 1)]
    BY <2>4, Pow2Positive
  <2>6. p <= q
    BY <2>4, <2>5, Pow2Monotone
  <2> QED BY <1>4, <2>3, <2>5, <2>6 DEF Fits
<1>5. SizeOf(v) = len
  <2>1. SizeOf(v) \in Nat /\ SizeOf(v) # 0 /\ Fits(SizeOf(v), v) /\ SizeOf(v) <= len
    BY <1>1, <1>3, SizeFacts
  <2> QED BY <1>4, <2>1
<1>6. ASSUME NEW j \in 1..len
      PROVE  s[j] = IF j < len THEN DigitOf(v, PayloadBits, j - 1) + Group
                    ELSE DigitOf(v, PayloadBits, j - 1)
  <2>1. PICK k \in 0..(Len(s) - 1) : k = j - 1 /\ k + 1 = j
    BY <1>1
  <2>2. DigitOf(v, PayloadBits, k) = Payload(s[j])
    <3>1. (ValueOf(s, Len(s)) \div Pow2[PayloadBits * k]) % Group = Payload(s[k + 1])
      BY ValueFacts
    <3> QED BY <1>1, <1>2, <2>1, <3>1, CompactConstants DEF DigitOf
  <2>3. s[j] \in Byte
    BY <1>1
  <2>4. j < len => More(s[j])
    BY <1>1 DEF Codeword
  <2>5. ~(j < len) => ~More(s[j])
    BY <1>1 DEF Codeword
  <2> QED BY <2>1, <2>2, <2>3, <2>4, <2>5, ByteFacts
<1>7. Canonical(v) = s
  <2>1. Canonical(v) = [j \in 1..len |-> IF j < len THEN DigitOf(v, PayloadBits, j - 1) + Group
                                         ELSE DigitOf(v, PayloadBits, j - 1)]
    BY <1>5 DEF Canonical
  <2>2. s = [j \in 1..len |-> s[j]]
    BY <1>1
  <2> QED BY <1>6, <2>1, <2>2
<1> QED BY <1>1, <1>7, EncodeIs

----------------------------------------------------------------------------
(* Compact: the decoder.                                                   *)

\* The first k bytes of s are a shortest encoding: the bytes before the last
\* announce another, the last does not, and it is not an empty group more.
Ends(s, k) ==
    /\ \A j \in 1..(k - 1) : More(s[j])
    /\ ~More(s[k]) /\ (k > 1 => s[k] # 0)

Within(s, k, w) == ValueOf(s, k) < Pow2[ByteBits * w]

LEMMA PrefixIs ==
  ASSUME NEW s \in Seq(Byte), NEW k \in 1..Len(s)
  PROVE  /\ SubSeq(s, 1, k) \in Seq(Byte) /\ Len(SubSeq(s, 1, k)) = k
         /\ Codeword(SubSeq(s, 1, k)) <=> Ends(s, k)
         /\ Denotation(SubSeq(s, 1, k)) = ValueOf(s, k)
<1>1. PICK t \in Seq(Byte) : /\ t = SubSeq(s, 1, k) /\ Len(t) = k
                             /\ \A j \in 1..k : t[j] = s[j]
  <2>1. SubSeq(s, 1, k) \in Seq(Byte) /\ Len(SubSeq(s, 1, k)) = k
    OBVIOUS
  <2>2. \A j \in 1..k : SubSeq(s, 1, k)[j] = s[j]
    OBVIOUS
  <2> QED BY <2>1, <2>2
<1>2. Codeword(t) <=> Ends(s, k)
  <2>1. t # <<>> /\ k \in 1..k /\ t[k] = s[k]
    BY <1>1
  <2>2. \A j \in 1..(k - 1) : t[j] = s[j]
    BY <1>1
  <2> QED BY <1>1, <2>1, <2>2 DEF Codeword, Ends
<1>3. Denotation(t) = ValueOf(s, k)
  <2> DEFINE d == [u \in 0..(Len(t) - 1) |-> Payload(t[u + 1])]
             e == [u \in 0..(Len(s) - 1) |-> Payload(s[u + 1])]
  <2>1. ASSUME NEW u \in 0..(k - 1) PROVE d[u] \in Nat /\ d[u] = e[u]
    <3>1. u + 1 \in 1..k /\ u \in 0..(Len(t) - 1) /\ u \in 0..(Len(s) - 1)
      BY <1>1
    <3>2. t[u + 1] = s[u + 1] /\ s[u + 1] \in Byte
      BY <1>1, <3>1
    <3>3. d[u] = Payload(t[u + 1]) /\ e[u] = Payload(s[u + 1])
      BY <3>1
    <3> HIDE DEF d, e
    <3> QED BY <3>2, <3>3, ByteFacts
  <2>2. Denotation(t) = Numeral(d, PayloadBits, k) /\ ValueOf(s, k) = Numeral(e, PayloadBits, k)
    BY <1>1 DEF Denotation, ValueOf, PayloadBits
  <2> HIDE DEF d, e
  <2> QED BY <2>1, <2>2, NumeralAgrees, CompactConstants
<1> QED BY <1>1, <1>2, <1>3

LEMMA BitsInWord ==
  ASSUME NEW w \in 1..WordBytes
  PROVE  /\ Pow2[ByteBits * w] \in Nat /\ Pow2[WordBits] \in Nat /\ Pow2[ByteBits * w] > 0
         /\ Pow2[ByteBits * w] <= Pow2[WordBits]
         /\ w >= WordBytes => Pow2[ByteBits * w] = Pow2[WordBits]
<1>1. PICK b \in Nat, c \in Nat, u \in Nat : b = ByteBits /\ c = WordBytes /\ u = w /\ u <= c
  BY CompactConstants
<1>2. b * u <= b * c /\ b * u \in Nat /\ b * c \in Nat /\ (u >= c => b * u = b * c)
  BY <1>1
<1>3. WordBits = b * c
  BY <1>1 DEF WordBits
<1> QED BY <1>1, <1>2, <1>3, Pow2Monotone, Pow2Positive

\* A group that fits what the word has left does not overflow it.
LEMMA GroupFits ==
  ASSUME NEW s \in Seq(Byte), NEW k \in 0..(Len(s) - 1), k < MaxBytes,
         k = MaxBytes - 1 => Payload(s[k + 1]) <= 1
  PROVE  /\ ValueOf(s, k) + Payload(s[k + 1]) * Pow2[PayloadBits * k] = ValueOf(s, k + 1)
         /\ ValueOf(s, k + 1) \in Nat /\ ValueOf(s, k + 1) < Pow2[WordBits]
<1>1. ValueOf(s, k + 1) = ValueOf(s, k) + Payload(s[k + 1]) * Pow2[PayloadBits * k]
  BY ValueFacts
<1>2. k \in 0..Len(s) /\ k + 1 \in 0..Len(s) /\ k \in Nat
  OBVIOUS
<1>3. PICK x \in Nat, p \in Nat, q \in Nat, y \in Nat :
          /\ x = ValueOf(s, k) /\ p = Payload(s[k + 1]) /\ q = Pow2[PayloadBits * k]
          /\ y = ValueOf(s, k + 1) /\ x < q
  <2>1. ValueOf(s, k) \in 0..(Pow2[PayloadBits * k] - 1) /\ Pow2[PayloadBits * k] \in Nat
    BY <1>2, ValueFacts, CompactConstants, Pow2Step
  <2>2. Payload(s[k + 1]) \in Nat
    <3>1. s[k + 1] \in Byte
      OBVIOUS
    <3> QED BY <3>1, ByteFacts
  <2>3. ValueOf(s, k + 1) \in Nat
    <3>1. ValueOf(s, k + 1) \in 0..(Pow2[PayloadBits * (k + 1)] - 1)
      BY <1>2, ValueFacts
    <3> QED BY <3>1
  <2> QED BY <2>1, <2>2, <2>3
<1>4. PICK word \in Nat : word = Pow2[WordBits]
  BY CompactConstants, Pow2Positive
<1>5. CASE k = MaxBytes - 1
  <2>1. p = 0 \/ p = 1
    BY <1>3, <1>5
  <2>2. word = 2 * q
    BY <1>3, <1>4, <1>5, WordIsTwice
  <2>3. y = x + p * q
    BY <1>1, <1>3
  <2>4. y < word
    BY <1>3, <2>1, <2>2, <2>3
  <2> QED BY <1>1, <1>3, <1>4, <2>4
<1>6. CASE k # MaxBytes - 1
  <2>1. PICK b \in Nat, c \in Nat, r \in Nat :
            b = PayloadBits /\ c = MaxBytes - 1 /\ r = k + 1 /\ r <= c
    BY <1>2, <1>6, CompactConstants
  <2>2. b * r <= b * c + 1 /\ b * r \in Nat /\ b * c + 1 \in Nat
    BY <2>1
  <2>3. Pow2[b * r] <= Pow2[b * c + 1] /\ Pow2[b * r] \in Nat
    BY <2>2, Pow2Monotone, Pow2Positive
  <2>4. WordBits = b * c + 1
    BY <2>1, CompactConstants
  <2>5. y \in 0..(Pow2[b * r] - 1)
    BY <1>2, <1>3, <2>1, ValueFacts
  <2>6. y < word
    BY <1>4, <2>3, <2>4, <2>5
  <2> QED BY <1>1, <1>3, <1>4, <2>6
<1> QED BY <1>5, <1>6

\* What the reader knows: the groups it took, and after an error that no
\* prefix of the input is the encoding of a value of the type.
CompactInv ==
    /\ input \in Seq(Byte) /\ width \in 1..WordBytes
    /\ kind \in {"unsigned", "signed", "bool"} /\ ("bool" \notin Kinds => kind # "bool")
    /\ i \in 0..MaxBytes /\ i <= Len(input) /\ shift = PayloadBits * i
    /\ \A j \in 1..i : More(input[j])
    /\ result # "ok" => value = ValueOf(input, i) /\ cursor = i /\ pos = 0 /\ out = <<>>
    /\ result = "ok" => /\ pos = i + 1 /\ pos <= Len(input) /\ cursor = pos /\ i < MaxBytes
                        /\ Ends(input, pos) /\ Within(input, pos, width)
                        /\ out = <<Decoded(ValueOf(input, pos))>>
    /\ result \notin {"reading", "ok"} =>
           \A k \in 1..Len(input) : Ends(input, k) => ~Within(input, k, width)
    /\ result = "insufficient_data" => i = Len(input) /\ i < MaxBytes

\* The last byte of an encoding is the first that announces no other.
LEMMA EndsOnce ==
  ASSUME NEW s \in Seq(Byte), NEW m \in Nat, m <= Len(s), \A j \in 1..m : More(s[j]),
         NEW k \in 1..Len(s), Ends(s, k)
  PROVE  k > m /\ (m < Len(s) /\ ~More(s[m + 1]) => k = m + 1)
<1>1. k \notin 1..m
  BY DEF Ends
<1>2. k > m
  BY <1>1
<1>3. ASSUME m < Len(s), ~More(s[m + 1]), k # m + 1 PROVE FALSE
  <2>1. m + 1 \in 1..(k - 1)
    BY <1>2, <1>3
  <2> QED BY <1>3, <2>1 DEF Ends
<1> QED BY <1>2, <1>3

\* Bytes behind those that fill the word denote more than it holds.
LEMMA BeyondTheWord ==
  ASSUME NEW s \in Seq(Byte), NEW k \in 1..Len(s), k > MaxBytes, Ends(s, k),
         NEW w \in 1..WordBytes
  PROVE  ~Within(s, k, w)
<1>1. s[k] \in Byte /\ ~More(s[k]) /\ s[k] # 0
  BY CompactConstants DEF Ends
<1>2. Payload(s[k]) # 0
  BY <1>1, ByteFacts
<1>3. ValueOf(s, k) >= Pow2[PayloadBits * (k - 1)]
  BY <1>2, LastCounts
<1>4. PICK b \in Nat, c \in Nat, r \in Nat :
          b = PayloadBits /\ c = MaxBytes - 1 /\ r = k - 1 /\ r >= c + 1 /\ b >= 2
  BY CompactConstants
<1>5. b * r >= b * c + 1 /\ b * r \in Nat /\ b * c + 1 \in Nat
  <2>1. b * r >= b * (c + 1)
    BY <1>4
  <2>2. b * (c + 1) = b * c + b /\ b * c \in Nat /\ b * r \in Nat
    BY <1>4
  <2> QED BY <1>4, <2>1, <2>2
<1>6. WordBits = b * c + 1
  BY <1>4, CompactConstants
<1>7. PICK x \in Nat, y \in Nat : x = Pow2[b * c + 1] /\ y = Pow2[b * r] /\ x <= y
  BY <1>5, Pow2Monotone, Pow2Positive
<1>8. Pow2[ByteBits * w] <= x /\ Pow2[ByteBits * w] \in Nat
  BY <1>6, <1>7, BitsInWord
<1>9. ValueOf(s, k) >= y /\ ValueOf(s, k) \in Nat
  <2>1. ValueOf(s, k) \in 0..(Pow2[PayloadBits * k] - 1)
    BY ValueFacts
  <2> QED BY <1>3, <1>4, <1>7, <2>1
<1> QED BY <1>7, <1>8, <1>9 DEF Within

\* So do they when the group that fills the word has more than its one bit.
LEMMA LastGroupTooLarge ==
  ASSUME NEW s \in Seq(Byte), NEW m \in Nat, m = MaxBytes - 1, m < Len(s),
         Payload(s[m + 1]) > 1, NEW k \in (m + 1)..Len(s), NEW w \in 1..WordBytes
  PROVE  ~Within(s, k, w)
<1>1. m \in 0..(Len(s) - 1) /\ m \in 0..Len(s) /\ m + 1 \in 0..Len(s) /\ k \in 0..Len(s)
      /\ k \in (m + 1)..Len(s)
  OBVIOUS
<1>2. ValueOf(s, m + 1) = ValueOf(s, m) + Payload(s[m + 1]) * Pow2[PayloadBits * m]
  BY <1>1, ValueFacts
<1>3. PICK x \in Nat, p \in Nat, q \in Nat :
          /\ x = ValueOf(s, m) /\ p = Payload(s[m + 1]) /\ q = Pow2[PayloadBits * m] /\ p >= 2
  <2>1. ValueOf(s, m) \in 0..(Pow2[PayloadBits * m] - 1) /\ Pow2[PayloadBits * m] \in Nat
    BY <1>1, ValueFacts, CompactConstants, Pow2Step
  <2>2. Payload(s[m + 1]) \in Nat /\ Payload(s[m + 1]) >= 2
    <3>1. s[m + 1] \in Byte
      BY <1>1
    <3>2. Payload(s[m + 1]) \in Nat
      BY <3>1, ByteFacts
    <3> QED BY <3>2
  <2> QED BY <2>1, <2>2
<1>4. p * q >= 2 * q /\ p * q \in Nat
  BY <1>3
<1>5. x + p * q >= 2 * q
  BY <1>4
<1>6. Pow2[WordBits] = 2 * q
  BY <1>3, WordIsTwice
<1>7. PICK y \in Nat, z \in Nat : y = ValueOf(s, m + 1) /\ z = ValueOf(s, k) /\ y <= z
  <2>1. ValueOf(s, m + 1) \in 0..(Pow2[PayloadBits * (m + 1)] - 1)
    BY <1>1, ValueFacts
  <2>2. ValueOf(s, k) \in 0..(Pow2[PayloadBits * k] - 1)
    BY <1>1, ValueFacts
  <2>3. ValueOf(s, m + 1) <= ValueOf(s, k)
    BY <1>1, ValueMonotone
  <2> QED BY <2>1, <2>2, <2>3
<1>8. Pow2[ByteBits * w] <= 2 * q /\ Pow2[ByteBits * w] \in Nat
  BY <1>6, BitsInWord
<1>9. y = x + p * q
  BY <1>2, <1>3, <1>7
<1> QED BY <1>5, <1>7, <1>8, <1>9 DEF Within

LEMMA CompactInit ==
  ASSUME MCInit
  PROVE  CompactInv
<1>1. CASE Init
  <2>1. PICK k \in 0..MaxInput : input \in [1..k -> Byte]
    BY <1>1 DEF Init
  <2>2. input \in Seq(Byte)
    <3>1. k \in Nat
      BY CompactAssumption
    <3> QED BY <2>1, <3>1
  <2>3. width \in 1..WordBytes /\ kind \in Kinds /\ kind \in {"unsigned", "signed", "bool"}
    BY <1>1, CompactAssumption DEF Init
  <2>4. 0 \in 0..MaxBytes /\ 0 <= Len(input) /\ PayloadBits * 0 = 0
    BY <2>2, CompactConstants
  <2>5. ValueOf(input, 0) = 0
    BY <2>2, ValueFacts
  <2> QED BY <1>1, <2>2, <2>3, <2>4, <2>5 DEF Init, CompactInv
<1>2. CASE NothingToRead
  <2>1. input \in Seq(Byte) /\ Len(input) = 0
    BY <1>2 DEF NothingToRead
  <2>2. width \in 1..WordBytes
    BY <1>2, CompactConstants DEF NothingToRead
  <2>3. PayloadBits * 0 = 0 /\ 0 \in 0..MaxBytes /\ 0 < MaxBytes
    BY CompactConstants
  <2>4. ValueOf(input, 0) = 0
    BY <2>1, ValueFacts
  <2> QED BY <1>2, <2>1, <2>2, <2>3, <2>4 DEF NothingToRead, CompactInv
<1> QED BY <1>1, <1>2 DEF MCInit

\* What a step of the loop may use of the byte it is at.
LEMMA AtByte ==
  ASSUME CompactInv, ReadByte
  PROVE  /\ cursor = i /\ cursor + 1 = i + 1 /\ i \in Nat /\ i < Len(input) /\ i < MaxBytes
         /\ i + 1 \in 1..Len(input) /\ i \in 0..(Len(input) - 1)
         /\ Current = input[i + 1] /\ Current \in Byte /\ Payload(Current) \in Nat
         /\ value = ValueOf(input, i) /\ shift = PayloadBits * i
         /\ PayloadFits(Current) <=> (i = MaxBytes - 1 => Payload(Current) <= 1)
         /\ pos = 0 /\ out = <<>>
<1>1. /\ result = "reading" /\ i < MaxBytes /\ ~(cursor >= Len(input))
      /\ input \in Seq(Byte) /\ i \in 0..MaxBytes /\ i <= Len(input) /\ shift = PayloadBits * i
      /\ value = ValueOf(input, i) /\ cursor = i /\ pos = 0 /\ out = <<>>
  BY DEF CompactInv, ReadByte, InLoop, GroupsLeft, Starved
<1>2. Len(input) \in Nat /\ MaxBytes \in Nat
  BY <1>1, CompactConstants
<1>3. i \in Nat /\ i < Len(input) /\ i + 1 \in 1..Len(input) /\ i \in 0..(Len(input) - 1)
  BY <1>1, <1>2
<1>4. Current = input[i + 1] /\ Current \in Byte
  BY <1>1, <1>3 DEF Current
<1>5. Payload(Current) \in Nat
  BY <1>4, ByteFacts
<1>6. shift = WordBits - 1 <=> i = MaxBytes - 1
  <2>1. PICK b \in Nat, c \in Nat, u \in Nat : b = PayloadBits /\ c = MaxBytes - 1 /\ u = i /\ b >= 2
    BY <1>3, CompactConstants
  <2>2. b * u \in Nat /\ b * c \in Nat /\ WordBits = b * c + 1 /\ shift = b * u
    BY <1>1, <2>1, CompactConstants
  <2>3. b * u = b * c <=> u = c
    <3>1. u < c => b * u < b * c
      BY <2>1
    <3>2. u > c => b * u > b * c
      BY <2>1
    <3> QED BY <2>1, <2>2, <3>1, <3>2
  <2> QED BY <2>1, <2>2, <2>3
<1> QED BY <1>1, <1>3, <1>4, <1>5, <1>6 DEF PayloadFits

\* What the loop has added up is what the bytes denote.
LEMMA AccumulatedIs ==
  ASSUME CompactInv, ReadByte, PayloadFits(Current)
  PROVE  Accumulated(Current) = ValueOf(input, i + 1)
<1>1. input \in Seq(Byte) /\ i \in 0..(Len(input) - 1) /\ i < MaxBytes
      /\ (i = MaxBytes - 1 => Payload(input[i + 1]) <= 1)
  BY AtByte DEF CompactInv
<1>2. /\ ValueOf(input, i) + Payload(input[i + 1]) * Pow2[PayloadBits * i] = ValueOf(input, i + 1)
      /\ ValueOf(input, i + 1) \in Nat /\ ValueOf(input, i + 1) < Pow2[WordBits]
  BY <1>1, GroupFits
<1>3. PICK y \in Nat, word \in Nat : y = ValueOf(input, i + 1) /\ word = Pow2[WordBits] /\ y < word
  BY <1>2, CompactConstants, Pow2Positive
<1>4. y % word = y
  BY <1>3
<1>5. value + Payload(Current) * Pow2[shift] = y
  BY <1>2, <1>3, AtByte
<1> QED BY <1>3, <1>4, <1>5 DEF Accumulated

\* Every error is reported of an input that has no good prefix.
LEMMA NoGoodPrefix ==
  ASSUME CompactInv, NEW k \in 1..Len(input), Ends(input, k), Within(input, k, width)
  PROVE  ~Starve /\ ~TooLarge /\ ~NotMinimal /\ ~TooWide /\ ~Unterminated
<1>1. /\ input \in Seq(Byte) /\ Len(input) \in Nat /\ width \in 1..WordBytes
      /\ i \in Nat /\ i <= Len(input) /\ \A j \in 1..i : More(input[j])
  BY CompactConstants DEF CompactInv
<1>2. k > i /\ (i < Len(input) /\ ~More(input[i + 1]) => k = i + 1)
  BY <1>1, EndsOnce
<1>3. ~Starve
  <2> SUFFICES ASSUME Starve PROVE FALSE
    OBVIOUS
  <2>1. cursor = i /\ cursor >= Len(input)
    BY DEF Starve, InLoop, Starved, CompactInv
  <2> QED BY <1>1, <1>2, <2>1
<1>4. ~TooLarge
  <2> SUFFICES ASSUME TooLarge PROVE FALSE
    OBVIOUS
  <2>1. ReadByte /\ ~PayloadFits(Current)
    BY DEF TooLarge
  <2>2. i = MaxBytes - 1 /\ i < Len(input) /\ Payload(input[i + 1]) > 1
    <3>1. Payload(Current) \in Nat /\ ~(i = MaxBytes - 1 => Payload(Current) <= 1)
          /\ Current = input[i + 1] /\ i < Len(input)
      BY <2>1, AtByte
    <3> QED BY <3>1
  <2>3. k \in (i + 1)..Len(input)
    BY <1>1, <1>2
  <2> QED BY <1>1, <2>2, <2>3, LastGroupTooLarge
<1>5. ~NotMinimal
  <2> SUFFICES ASSUME NotMinimal PROVE FALSE
    OBVIOUS
  <2>1. ReadByte /\ ~More(Current) /\ i # 0 /\ Payload(Current) = 0
    BY DEF NotMinimal, Last, Padded
  <2>2. i < Len(input) /\ Current = input[i + 1] /\ Current \in Byte
    BY <2>1, AtByte
  <2>3. k = i + 1 /\ k > 1
    BY <1>1, <1>2, <2>1, <2>2
  <2>4. input[k] = 0
    BY <2>1, <2>2, <2>3, ByteFacts
  <2> QED BY <2>3, <2>4 DEF Ends
<1>6. ~TooWide
  <2> SUFFICES ASSUME TooWide PROVE FALSE
    OBVIOUS
  <2>1. ReadByte /\ PayloadFits(Current) /\ ~More(Current) /\ ~FitsType(Accumulated(Current))
    BY DEF TooWide, Last
  <2>2. i < Len(input) /\ Current = input[i + 1]
    BY <2>1, AtByte
  <2>3. k = i + 1
    BY <1>2, <2>1, <2>2
  <2>4. Accumulated(Current) = ValueOf(input, k)
    BY <2>1, <2>3, AccumulatedIs
  <2>5. PICK y \in Nat, bound \in Nat \ {0} :
            y = ValueOf(input, k) /\ bound = Pow2[ByteBits * width] /\ y < bound
    <3>1. ValueOf(input, k) \in 0..(Pow2[PayloadBits * k] - 1)
      BY <1>1, ValueFacts
    <3>2. Pow2[ByteBits * width] \in Nat \ {0}
      BY <1>1, BitsInWord
    <3> QED BY <3>1, <3>2 DEF Within
  <2>6. y \div bound = 0
    BY <2>5
  <2> QED BY <2>1, <2>4, <2>5, <2>6 DEF FitsType, Bits
<1>7. ~Unterminated
  <2> SUFFICES ASSUME Unterminated PROVE FALSE
    OBVIOUS
  <2>1. ~(i < MaxBytes)
    BY DEF Unterminated, GroupsLeft
  <2>2. k > MaxBytes
    BY <1>1, <1>2, <2>1, CompactConstants
  <2> QED BY <1>1, <2>2, BeyondTheWord
<1> QED BY <1>3, <1>4, <1>5, <1>6, <1>7

LEMMA CompactStep ==
  ASSUME CompactInv, [MCNext]_<<vars, fixedVars>>
  PROVE  CompactInv'
<1>1. CASE UNCHANGED vars
  BY <1>1 DEF CompactInv, vars, Decoded, UnZigZag, Bits
<1>2. ASSUME NEW error \in {"insufficient_data", "invalid_size", "non_canonical_encoding"},
             Fails(error), result = "reading",
             error = "insufficient_data" => i = Len(input) /\ i < MaxBytes,
             \A k \in 1..Len(input) : Ends(input, k) => ~Within(input, k, width)
      PROVE  CompactInv'
  BY <1>2 DEF CompactInv, Fails
<1>3. CASE Starve
  <2>1. result = "reading" /\ Fails("insufficient_data") /\ i < MaxBytes /\ cursor >= Len(input)
    BY <1>3 DEF Starve, InLoop, GroupsLeft, Starved
  <2>2. i = Len(input)
    <3>1. Len(input) \in Nat /\ i \in Nat /\ i <= Len(input) /\ cursor = i
      BY <2>1, CompactConstants DEF CompactInv
    <3> QED BY <2>1, <3>1
  <2> QED BY <1>2, <1>3, <2>1, <2>2, NoGoodPrefix
<1>4. CASE TooLarge
  <2>1. result = "reading" /\ Fails("invalid_size")
    BY <1>4 DEF TooLarge, ReadByte, InLoop
  <2> QED BY <1>2, <1>4, <2>1, NoGoodPrefix
<1>5. CASE NotMinimal
  <2>1. result = "reading" /\ Fails("non_canonical_encoding")
    BY <1>5 DEF NotMinimal, Last, ReadByte, InLoop
  <2> QED BY <1>2, <1>5, <2>1, NoGoodPrefix
<1>6. CASE TooWide
  <2>1. result = "reading" /\ Fails("invalid_size")
    BY <1>6 DEF TooWide, Last, ReadByte, InLoop
  <2> QED BY <1>2, <1>6, <2>1, NoGoodPrefix
<1>7. CASE Unterminated
  <2>1. result = "reading" /\ Fails("invalid_size")
    BY <1>7 DEF Unterminated
  <2> QED BY <1>2, <1>7, <2>1, NoGoodPrefix
<1>8. CASE Continue
  <2>1. /\ ReadByte /\ PayloadFits(Current) /\ More(Current)
        /\ value' = Accumulated(Current) /\ cursor' = cursor + 1
        /\ shift' = shift + ByteBits - 1 /\ i' = i + 1
        /\ UNCHANGED <<input, width, kind, pos, result, out>> /\ result = "reading"
    BY <1>8 DEF Continue, ReadByte, InLoop
  <2>2. /\ cursor = i /\ i \in Nat /\ i < Len(input) /\ i < MaxBytes
        /\ Current = input[i + 1] /\ shift = PayloadBits * i /\ pos = 0 /\ out = <<>>
    BY <2>1, AtByte
  <2>3. value' = ValueOf(input, i + 1)
    BY <2>1, AccumulatedIs
  <2>4. shift' = PayloadBits * (i + 1)
    <3>1. PICK b \in Nat : b = PayloadBits /\ ByteBits = b + 1
      BY CompactConstants
    <3>2. b * i + (b + 1) - 1 = b * (i + 1)
      BY <2>2
    <3> QED BY <2>1, <2>2, <3>1, <3>2
  <2>5. i + 1 \in 0..MaxBytes /\ i + 1 <= Len(input)
    <3>1. Len(input) \in Nat
      BY DEF CompactInv
    <3> QED BY <2>2, <3>1, CompactConstants
  <2>6. ASSUME NEW j \in 1..(i + 1) PROVE More(input[j])
    <3>1. j \in 1..i \/ j = i + 1
      BY <2>2
    <3> QED BY <2>1, <2>2, <3>1 DEF CompactInv
  <2> QED BY <2>1, <2>2, <2>3, <2>4, <2>5, <2>6 DEF CompactInv
<1>9. CASE Accept
  <2>1. /\ ReadByte /\ PayloadFits(Current) /\ ~More(Current)
        /\ ~Padded(Current) /\ FitsType(Accumulated(Current))
        /\ pos' = cursor + 1 /\ cursor' = cursor + 1 /\ result' = "ok"
        /\ out' = <<Decoded(value')>> /\ value' = Accumulated(Current) /\ UNCHANGED <<input, width, kind, i, shift>>
    BY <1>9 DEF Accept, Last
  <2>2. /\ cursor = i /\ i \in Nat /\ i < Len(input) /\ i < MaxBytes
        /\ i + 1 \in 1..Len(input) /\ i \in 0..(Len(input) - 1)
        /\ Current = input[i + 1] /\ Current \in Byte
    BY <2>1, AtByte
  <2>3. value' = ValueOf(input, i + 1)
    BY <2>1, AccumulatedIs
  <2>4. Ends(input, i + 1)
    <3>1. \A j \in 1..((i + 1) - 1) : More(input[j])
      BY <2>2 DEF CompactInv
    <3>2. i + 1 > 1 => input[i + 1] # 0
      <4> SUFFICES ASSUME i + 1 > 1, input[i + 1] = 0 PROVE FALSE
        OBVIOUS
      <4>1. Payload(Current) = 0
        BY <2>1, <2>2, ByteFacts
      <4> QED BY <2>1, <2>2, <4>1 DEF Padded
    <3> QED BY <2>1, <2>2, <3>1, <3>2 DEF Ends
  <2>5. Within(input, i + 1, width)
    <3>1. width \in 1..WordBytes /\ WordBytes \in Nat
      BY CompactConstants DEF CompactInv
    <3>2. PICK y \in Nat, word \in Nat, bound \in Nat \ {0} :
              /\ y = ValueOf(input, i + 1) /\ word = Pow2[WordBits]
              /\ bound = Pow2[ByteBits * width] /\ y < word /\ (width >= WordBytes => bound = word)
      <4>1. input \in Seq(Byte) /\ (i = MaxBytes - 1 => Payload(input[i + 1]) <= 1)
        BY <2>1, <2>2, AtByte DEF CompactInv
      <4>2. ValueOf(input, i + 1) \in Nat /\ ValueOf(input, i + 1) < Pow2[WordBits]
        BY <2>2, <4>1, GroupFits
      <4> QED BY <3>1, <4>2, BitsInWord
    <3>3. CASE width < WordBytes
      <4>1. y \div bound = 0
        BY <2>1, <2>3, <3>2, <3>3 DEF FitsType, Bits
      <4>2. y < bound
        BY <3>2, <4>1
      <4> QED BY <3>2, <4>2 DEF Within
    <3>4. CASE ~(width < WordBytes)
      BY <3>1, <3>2, <3>4 DEF Within
    <3> QED BY <3>3, <3>4
  <2>6. out' = <<Decoded(ValueOf(input, pos))>>'
    BY <2>1, <2>2, <2>3 DEF Decoded, UnZigZag, Bits
  <2>7. pos' = i + 1 /\ i + 1 <= Len(input) /\ cursor' = pos'
    BY <2>1, <2>2
  <2> QED BY <2>1, <2>2, <2>4, <2>5, <2>6, <2>7 DEF CompactInv
<1> QED BY <1>1, <1>3, <1>4, <1>5, <1>6, <1>7, <1>8, <1>9 DEF MCNext, Next

LEMMA CompactInvHolds == MCSpec => []CompactInv
<1>1. MCInit => CompactInv
  BY CompactInit
<1>2. CompactInv /\ [MCNext]_<<vars, fixedVars>> => CompactInv'
  BY CompactStep
<1> QED BY <1>1, <1>2, PTL DEF MCSpec

LEMMA GoodPrefix ==
  ASSUME CompactInv, NEW k \in 1..Len(input)
  PROVE  /\ Codeword(Prefix(k)) /\ Denotation(Prefix(k)) < Pow2[Bits]
                <=> Ends(input, k) /\ Within(input, k, width)
         /\ Denotation(Prefix(k)) = ValueOf(input, k)
<1>1. input \in Seq(Byte)
  BY DEF CompactInv
<1> QED BY <1>1, PrefixIs DEF Prefix, Bits, Within

\* CompactWire: decoding succeeds on exactly the inputs that begin with the
\* shortest encoding of a value of the type, returns that value and stops
\* behind it; after a failure it has not moved (read_compact_uint).
THEOREM AcceptsExactlyShortestHolds == MCSpec => []AcceptsExactlyShortest
<1>1. CompactInv => AcceptsExactlyShortest
  <2> DEFINE Good == {k \in 1..Len(input) :
                          Codeword(Prefix(k)) /\ Denotation(Prefix(k)) < Pow2[Bits]}
  <2> SUFFICES ASSUME CompactInv, result # "reading"
               PROVE  /\ result = "ok" <=> Good # {}
                      /\ pos = IF result = "ok" THEN CHOOSE k \in Good : TRUE ELSE 0
                      /\ out = IF result = "ok" THEN <<Decoded(Denotation(Prefix(pos)))>> ELSE <<>>
    BY DEF AcceptsExactlyShortest
  <2>1. Good = {k \in 1..Len(input) : Ends(input, k) /\ Within(input, k, width)}
    BY GoodPrefix
  <2> HIDE DEF Good
  <2>2. input \in Seq(Byte) /\ Len(input) \in Nat /\ i \in Nat
    BY CompactConstants DEF CompactInv
  <2>3. CASE result = "ok"
    <3>1. /\ pos = i + 1 /\ pos \in 1..Len(input) /\ Ends(input, pos) /\ Within(input, pos, width)
          /\ out = <<Decoded(ValueOf(input, pos))>>
      BY <2>2, <2>3 DEF CompactInv
    <3>2. ASSUME NEW k \in 1..Len(input), Ends(input, k) PROVE k = pos
      <4>1. k > i
        BY <2>2, <3>1, <3>2, EndsOnce DEF CompactInv
      <4>2. i < Len(input) /\ ~More(input[i + 1])
        BY <2>2, <3>1 DEF Ends
      <4>3. k = i + 1
        BY <2>2, <3>2, <4>2, EndsOnce DEF CompactInv
      <4> QED BY <3>1, <4>3
    <3>3. Good = {pos}
      BY <2>1, <3>1, <3>2
    <3>4. Denotation(Prefix(pos)) = ValueOf(input, pos)
      BY <3>1, GoodPrefix
    <3>5. (CHOOSE k \in Good : TRUE) = pos
      BY <3>3
    <3> QED BY <2>3, <3>1, <3>3, <3>4, <3>5
  <2>4. CASE result # "ok"
    <3>1. pos = 0 /\ out = <<>> /\ \A k \in 1..Len(input) : Ends(input, k) => ~Within(input, k, width)
      BY <2>4 DEF CompactInv
    <3>2. Good = {}
      BY <2>1, <3>1
    <3> QED BY <2>4, <3>1, <3>2
  <2> QED BY <2>3, <2>4
<1> QED BY <1>1, CompactInvHolds, PTL

\* CompactWire: whatever the 8-byte decoder runs out of bytes in, one byte
\* more makes the encoding of a value of it (read_compact_uint).
THEOREM InsufficientIsRecoverableHolds == MCSpec => []InsufficientIsRecoverable
<1>1. CompactInv => InsufficientIsRecoverable
  <2> SUFFICES ASSUME CompactInv, result = "insufficient_data"
               PROVE  LET s == Append(input, 1) IN Codeword(s) /\ Denotation(s) < Pow2[WordBits]
    <3>1. 1 \in 1..(Group - 1)
      BY CompactConstants
    <3> QED BY <3>1 DEF InsufficientIsRecoverable
  <2>1. /\ input \in Seq(Byte) /\ i = Len(input) /\ i \in Nat /\ i < MaxBytes
        /\ \A j \in 1..i : More(input[j])
    BY CompactConstants DEF CompactInv
  <2>2. 1 \in Byte /\ ~More(1) /\ Payload(1) = 1
    <3>1. PICK g \in Nat : g = Group /\ g >= 4
      BY CompactConstants
    <3> QED BY <3>1 DEF Byte, More, Payload
  <2>3. PICK s \in Seq(Byte) : /\ s = Append(input, 1) /\ Len(s) = i + 1 /\ s[i + 1] = 1
                               /\ \A j \in 1..i : s[j] = input[j]
    <3>1. Append(input, 1) \in Seq(Byte) /\ Len(Append(input, 1)) = i + 1
      BY <2>1, <2>2
    <3>2. Append(input, 1)[i + 1] = 1
      BY <2>1, <2>2
    <3>3. \A j \in 1..i : Append(input, 1)[j] = input[j]
      BY <2>1, <2>2
    <3> QED BY <3>1, <3>2, <3>3
  <2>4. Codeword(s)
    <3>1. s # <<>> /\ \A j \in 1..(Len(s) - 1) : More(s[j])
      BY <2>1, <2>3
    <3>2. ~More(s[Len(s)]) /\ s[Len(s)] # 0
      BY <2>2, <2>3
    <3> QED BY <3>1, <3>2 DEF Codeword
  <2>5. Denotation(s) < Pow2[WordBits]
    <3>1. i \in 0..(Len(s) - 1) /\ Payload(s[i + 1]) <= 1
      BY <2>1, <2>2, <2>3
    <3>2. ValueOf(s, i + 1) < Pow2[WordBits]
      BY <2>1, <3>1, GroupFits
    <3>3. Denotation(s) = ValueOf(s, Len(s))
      BY ValueFacts
    <3> QED BY <2>3, <3>2, <3>3
  <2> QED BY <2>3, <2>4, <2>5
<1> QED BY <1>1, CompactInvHolds, PTL

\* CompactWire: the encoder writes back the bytes the decoder accepted, for
\* every integer type (write_compact_uint after read_compact_uint).  With the
\* stream's bool among the types it is false.
THEOREM CanonicalBothWaysHolds ==
  ASSUME "bool" \notin Kinds
  PROVE  MCSpec => []CanonicalBothWays
<1>1. CompactInv => CanonicalBothWays
  <2> SUFFICES ASSUME CompactInv, result = "ok"
               PROVE  Encode[IF kind = "signed" THEN ZigZag(out[1]) ELSE out[1]] = Prefix(pos)
    BY DEF CanonicalBothWays
  <2>1. /\ input \in Seq(Byte) /\ pos \in 1..Len(input) /\ width \in 1..WordBytes
        /\ kind \in {"unsigned", "signed"} /\ Ends(input, pos) /\ Within(input, pos, width)
        /\ out[1] = Decoded(ValueOf(input, pos))
    <3>1. i + 1 >= 1 /\ i + 1 \in Int
      BY CompactConstants DEF CompactInv
    <3> QED BY <3>1 DEF CompactInv
  <2>2. PICK v \in Nat, bound \in Nat \ {0}, word \in Nat :
            /\ v = ValueOf(input, pos) /\ bound = Pow2[ByteBits * width] /\ word = Pow2[WordBits]
            /\ v < bound /\ bound <= word
    <3>1. ValueOf(input, pos) \in 0..(Pow2[PayloadBits * pos] - 1)
      BY <2>1, ValueFacts
    <3>2. ValueOf(input, pos) \in Nat
      BY <3>1
    <3> QED BY <2>1, <3>2, BitsInWord DEF Within
  <2>3. /\ Prefix(pos) \in Seq(Byte) /\ Codeword(Prefix(pos)) /\ Denotation(Prefix(pos)) = v
    BY <2>1, <2>2, PrefixIs DEF Prefix
  <2>4. Denotation(Prefix(pos)) \in 0..MaxWord
    <3>1. v \in 0..(word - 1)
      BY <2>2
    <3> QED BY <2>2, <2>3, <3>1 DEF MaxWord
  <2>5. Encode[v] = Prefix(pos)
    BY <2>3, <2>4, CodewordIs
  <2>6. CASE kind = "unsigned"
    <3>1. v % bound = v
      BY <2>2
    <3>2. out[1] = v
      BY <2>1, <2>2, <2>6, <3>1 DEF Decoded, Bits
    <3> QED BY <2>5, <2>6, <3>2
  <2>7. CASE kind = "signed"
    <3>1. out[1] = UnZigZag(v)
      BY <2>1, <2>2, <2>7 DEF Decoded
    <3>2. PICK w \in Nat : w = width /\ w > 0
      BY <2>1, CompactConstants
    <3>3. v \in 0..(Pow2[ByteBits * w] - 1)
      BY <2>2, <3>2
    <3>4. ZigZag(UnZigZag(v)) = v
      BY <3>2, <3>3, ZigZagBack
    <3> QED BY <2>5, <2>7, <3>1, <3>4
  <2> QED BY <2>1, <2>6, <2>7
<1> QED BY <1>1, CompactInvHolds, PTL

\* CompactWire: what the encoder writes of any value of the word is the
\* shortest encoding of that value and no longer than the decoder reads
\* (write_compact_uint).
THEOREM EncoderIsShortest ==
  \A v \in 0..MaxWord : /\ Encode[v] \in Seq(Byte) /\ Len(Encode[v]) <= MaxBytes
                        /\ Codeword(Encode[v]) /\ Denotation(Encode[v]) = v
<1> SUFFICES ASSUME NEW v \in 0..MaxWord
             PROVE  /\ Encode[v] \in Seq(Byte) /\ Len(Encode[v]) <= MaxBytes
                    /\ Codeword(Encode[v]) /\ Denotation(Encode[v]) = v
  OBVIOUS
<1>1. PICK m \in Nat : m = SizeOf(v) /\ m # 0 /\ Fits(m, v)
                       /\ \A l \in Nat : l # 0 /\ Fits(l, v) => m <= l
  BY SizeFacts
<1>2. PICK y \in Nat, g \in Nat, b \in Nat : y = v /\ g = Group /\ g >= 4 /\ b = PayloadBits
                                             /\ g = Pow2[b]
  <2>1. Pow2[WordBits] \in Nat
    BY CompactConstants, Pow2Positive
  <2>2. v \in Nat
    BY <2>1 DEF MaxWord
  <2> QED BY <2>2, CompactConstants
<1>3. PICK c : /\ c = Encode[v]
               /\ c = [j \in 1..m |-> IF j < m THEN DigitOf(y, b, j - 1) + g
                                      ELSE DigitOf(y, b, j - 1)]
  BY <1>1, <1>2, EncodeIs DEF Canonical
<1>4. ASSUME NEW k \in Nat PROVE DigitOf(y, b, k) \in 0..(g - 1)
  <2>1. PICK p \in Nat \ {0} : p = Pow2[b * k]
    BY <1>2, Pow2Step
  <2>2. (y \div p) % g \in 0..(g - 1)
    BY <1>2
  <2> QED BY <1>2, <2>1, <2>2 DEF DigitOf
<1>5. ASSUME NEW j \in 1..m
      PROVE  c[j] \in Byte /\ (More(c[j]) <=> j < m) /\ Payload(c[j]) = DigitOf(y, b, j - 1)
             /\ (~(j < m) => c[j] = DigitOf(y, b, j - 1))
  <2>1. PICK x \in 0..(g - 1) : x = DigitOf(y, b, j - 1)
    BY <1>4
  <2>2. c[j] = IF j < m THEN x + g ELSE x
    BY <1>3, <2>1
  <2>3. x % g = x /\ (x + g) % g = x /\ x < g /\ x + g < 2 * g
    BY <1>2
  <2> QED BY <1>2, <2>1, <2>2, <2>3 DEF Byte, More, Payload
<1>6. c \in Seq(Byte) /\ Len(c) = m
  <2>1. c = [j \in 1..m |-> c[j]]
    BY <1>3
  <2>2. c \in [1..m -> Byte]
    BY <1>5, <2>1
  <2> QED BY <2>2
<1>7. m <= MaxBytes
  <2>1. MaxBytes \in Nat /\ MaxBytes # 0 /\ MaxBytes - 1 \in Nat /\ (MaxBytes - 1) + 1 = MaxBytes
    BY CompactConstants
  <2>2. Pow2[PayloadBits * MaxBytes] = Pow2[PayloadBits * (MaxBytes - 1)] * Pow2[PayloadBits]
    BY <2>1, CompactConstants, Pow2Step
  <2>3. PICK p \in Nat, word \in Nat : p = Pow2[PayloadBits * (MaxBytes - 1)] /\ word = Pow2[WordBits]
    BY CompactConstants, WordIsTwice, Pow2Positive
  <2>4. 2 * p <= p * g
    BY <1>2, <2>3
  <2>5. word <= p * g /\ y < word
    BY <1>2, <2>3, <2>4, WordIsTwice DEF MaxWord
  <2>6. Fits(MaxBytes, v)
    BY <1>2, <2>2, <2>3, <2>5 DEF Fits
  <2> QED BY <1>1, <2>1, <2>6
<1>8. Codeword(c)
  <2>1. c # <<>> /\ Len(c) \in 1..m
    BY <1>1, <1>6
  <2>2. (\A j \in 1..(Len(c) - 1) : More(c[j])) /\ ~More(c[Len(c)])
    BY <1>5, <1>6, <2>1
  <2>3. ASSUME m > 1 PROVE c[m] # 0
    <3>1. PICK k \in Nat : k = m - 1 /\ k + 1 = m /\ k # 0
      BY <2>3
    <3>2. PICK p \in Nat \ {0} : p = Pow2[b * k]
      BY <1>2, Pow2Step
    <3>3. Pow2[b * m] = p * g
      BY <1>2, <3>1, <3>2, Pow2Step
    <3>4. PICK q \in Nat : q = y \div p /\ q < g
      <4>1. y < p * g
        BY <1>1, <1>2, <3>3 DEF Fits
      <4>2. y \div p \in Nat /\ p * (y \div p) <= y
        OBVIOUS
      <4>3. PICK q \in Nat : q = y \div p /\ p * q <= y
        BY <4>2
      <4>4. ASSUME q >= g PROVE FALSE
        <5>1. p * q >= p * g
          BY <1>2, <4>4
        <5> QED BY <4>1, <4>3, <5>1
      <4> QED BY <1>2, <4>3, <4>4
    <3>5. DigitOf(y, b, k) = q
      <4>1. q % g = q
        BY <1>2, <3>4
      <4> QED BY <1>2, <3>2, <3>4, <4>1 DEF DigitOf
    <3>6. q # 0
      <4> SUFFICES ASSUME q = 0 PROVE FALSE
        OBVIOUS
      <4>1. y < p
        BY <3>4
      <4>2. Fits(k, v)
        BY <1>2, <3>2, <4>1 DEF Fits
      <4> QED BY <1>1, <3>1, <4>2
    <3> QED BY <1>1, <1>5, <3>1, <3>5, <3>6
  <2> QED BY <1>6, <2>1, <2>2, <2>3 DEF Codeword
<1>9. Denotation(c) = v
  <2> DEFINE d == [u \in 0..(Len(c) - 1) |-> Payload(c[u + 1])]
  <2>1. ASSUME NEW k \in 0..(m - 1) PROVE d[k] = (y \div Pow2[b * k]) % Pow2[b]
    <3>1. k + 1 \in 1..m /\ (k + 1) - 1 = k /\ k \in 0..(Len(c) - 1)
      BY <1>1, <1>6
    <3>2. d[k] = Payload(c[k + 1])
      BY <3>1
    <3> HIDE DEF d
    <3> QED BY <1>5, <3>1, <3>2 DEF DigitOf
  <2>2. Denotation(c) = Numeral(d, b, m)
    BY <1>2, <1>6 DEF Denotation, PayloadBits
  <2> HIDE DEF d
  <2>3. y \in Int
    BY <1>2
  <2>4. Numeral(d, b, m) = y % Pow2[b * m]
    BY <2>1, <2>3, NumeralOfDigits
  <2>5. PICK bound \in Nat \ {0} : bound = Pow2[b * m]
    BY <1>2, Pow2Step
  <2>6. y < bound
    BY <1>1, <1>2, <2>5 DEF Fits
  <2>7. y % bound = y
    BY <2>5, <2>6
  <2> QED BY <1>2, <2>2, <2>4, <2>5, <2>7
<1> QED BY <1>3, <1>6, <1>7, <1>8, <1>9

\* CompactWire: the loop reads no byte behind the buffer and none after the
\* one that fills the word, and never shifts by the width of the word, which
\* C++ leaves undefined (read_compact_uint).
LoopStaysInside ==
    /\ cursor \in 0..MaxBytes /\ cursor <= Len(input)
    /\ ReadByte => shift \in 0..(WordBits - 1)

THEOREM LoopInside == MCSpec => []LoopStaysInside
<1>1. CompactInv => LoopStaysInside
  <2> SUFFICES ASSUME CompactInv PROVE LoopStaysInside
    OBVIOUS
  <2>1. i \in Nat /\ i \in 0..MaxBytes /\ i <= Len(input) /\ Len(input) \in Nat /\ MaxBytes \in Nat
    BY CompactConstants DEF CompactInv
  <2>2. cursor \in 0..MaxBytes /\ cursor <= Len(input)
    <3>1. CASE result = "ok"
      <4>1. cursor = i + 1 /\ i + 1 <= Len(input) /\ i < MaxBytes
        BY <3>1 DEF CompactInv
      <4> QED BY <2>1, <4>1
    <3>2. CASE result # "ok"
      BY <2>1, <3>2 DEF CompactInv
    <3> QED BY <3>1, <3>2
  <2>3. ASSUME ReadByte PROVE shift \in 0..(WordBits - 1)
    <3>1. PICK b \in Nat, c \in Nat, u \in Nat :
              b = PayloadBits /\ c = MaxBytes - 1 /\ u = i /\ u <= c
      <4>1. i < MaxBytes
        BY <2>3, AtByte
      <4> QED BY <2>1, <4>1, CompactConstants
    <3>2. b * u <= b * c /\ b * u \in Nat /\ b * c \in Nat
      BY <3>1
    <3>3. shift = b * u /\ WordBits = b * c + 1
      BY <2>3, <3>1, AtByte, CompactConstants
    <3> QED BY <3>2, <3>3
  <2> QED BY <2>2, <2>3 DEF LoopStaysInside
<1> QED BY <1>1, CompactInvHolds, PTL

=============================================================================

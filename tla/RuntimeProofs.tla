--------------------------- MODULE RuntimeProofs ---------------------------
(***************************************************************************)
(* Proofs about the 64-bit helpers of Runtime, for every width of the      *)
(* word: the division loop, the helpers that add, negate, compare and      *)
(* multiply, and the conversions to and from floating point.               *)
(***************************************************************************)
EXTENDS Runtime, WellFoundedInduction, TLAPS

(***************************************************************************)
(* Powers of two.                                                          *)
(***************************************************************************)

\* A set of numbers has a least one.
LEMMA LeastNumber ==
    ASSUME NEW Y, Y \subseteq Nat, Y # {}
    PROVE  \E y \in Y : \A z \in Y : y <= z
<1>1. PICK y \in Y : \A z \in Y : ~(<<z, y>> \in OpToRel(<, Nat))
  BY WFMin, NatLessThanWellFounded, Zenon
<1>2. \A z \in Y : ~(z < y)
  BY <1>1 DEF OpToRel
<1> QED BY <1>2

\* g lists the first powers of two, up to the k-th.
Doubles(k, g) == g \in [0..k -> Nat] /\ g[0] = 1 /\ \A l \in 1..k : g[l] = 2 * g[l - 1]

LEMMA DoublesExist == \A k \in Nat : \E g : Doubles(k, g)
<1> DEFINE Bad == {k \in Nat : ~ \E g : Doubles(k, g)}
<1> SUFFICES ASSUME Bad # {} PROVE FALSE
  OBVIOUS
<1>1. PICK k \in Bad : \A l \in Bad : k <= l
  <2> HIDE DEF Bad
  <2>1. Bad \subseteq Nat
    BY DEF Bad
  <2> QED BY <2>1, LeastNumber
<1>2. k \in Nat
  OBVIOUS
<1>3. k # 0
  <2>1. Doubles(0, [l \in 0..0 |-> 1])
    BY DEF Doubles
  <2> QED BY <2>1
<1>4. k - 1 \in Nat /\ k - 1 \notin Bad
  BY <1>1, <1>2, <1>3
<1>5. PICK g : Doubles(k - 1, g)
  BY <1>4
<1> DEFINE f == [l \in 0..k |-> IF l = k THEN 2 * g[k - 1] ELSE g[l]]
<1>6. Doubles(k, f)
  <2>1. f \in [0..k -> Nat] /\ f[0] = 1
    BY <1>2, <1>3, <1>4, <1>5 DEF Doubles
  <2>2. ASSUME NEW l \in 1..k PROVE f[l] = 2 * f[l - 1]
    <3>1. f[l - 1] = g[l - 1]
      BY <1>2
    <3>2. CASE l = k
      BY <3>1, <3>2
    <3>3. CASE l # k
      <4>1. l \in 1..(k - 1) /\ f[l] = g[l]
        BY <1>2, <3>3
      <4>2. g[l] = 2 * g[l - 1]
        BY <1>5, <4>1 DEF Doubles
      <4> QED BY <3>1, <4>1, <4>2
    <3> QED BY <3>2, <3>3
  <2> QED BY <2>1, <2>2 DEF Doubles
<1> QED BY <1>6

LEMMA DoublesAgree ==
    ASSUME NEW k \in Nat, NEW m \in Nat, k <= m, NEW f, Doubles(k, f), NEW g, Doubles(m, g)
    PROVE  \A l \in 0..k : f[l] = g[l]
<1> DEFINE Bad == {l \in 0..k : f[l] # g[l]}
<1> SUFFICES ASSUME Bad # {} PROVE FALSE
  OBVIOUS
<1>1. PICK l \in Bad : \A c \in Bad : l <= c
  <2> HIDE DEF Bad
  <2>1. Bad \subseteq Nat
    BY DEF Bad
  <2> QED BY <2>1, LeastNumber
<1>2. l # 0
  BY DEF Doubles
<1>3. l - 1 \in 0..k /\ l - 1 \notin Bad
  BY <1>1, <1>2
<1>4. f[l - 1] = g[l - 1]
  BY <1>3
<1>5. l \in 1..k /\ l \in 1..m
  BY <1>2
<1>6. f[l] = 2 * f[l - 1] /\ g[l] = 2 * g[l - 1]
  BY <1>5 DEF Doubles
<1> QED BY <1>4, <1>6

\* What the definition of pow2 says.
LEMMA Powers ==
    /\ pow2[0] = 1
    /\ \A k \in Nat : pow2[k] \in Nat \ {0} /\ pow2[k + 1] = 2 * pow2[k]
<1> DEFINE G(k) == CHOOSE g : Doubles(k, g)
           f == [k \in Nat |-> G(k)[k]]
           F(e) == [k \in Nat |-> IF k = 0 THEN 1 ELSE 2 * e[k - 1]]
<1>1. \A k \in Nat : Doubles(k, G(k))
  BY DoublesExist
<1> HIDE DEF G
<1>2. f[0] = 1
  BY <1>1 DEF Doubles
<1>3. ASSUME NEW k \in Nat, k # 0 PROVE f[k] = 2 * f[k - 1]
  <2>1. Doubles(k, G(k)) /\ Doubles(k - 1, G(k - 1)) /\ k - 1 \in Nat /\ k - 1 <= k
    BY <1>1, <1>3
  <2>2. G(k - 1)[k - 1] = G(k)[k - 1]
    BY <2>1, DoublesAgree
  <2>3. G(k)[k] = 2 * G(k)[k - 1]
    BY <2>1, <1>3 DEF Doubles
  <2> QED BY <2>1, <2>2, <2>3
<1>4. f = F(f)
  BY <1>2, <1>3
<1>5. pow2 = CHOOSE e : e = F(e)
  BY Zenon DEF pow2
<1>6. pow2 = F(pow2)
  <2> HIDE DEF f, F
  <2> QED BY <1>4, <1>5
<1>7. pow2[0] = 1 /\ \A k \in Nat : pow2[k + 1] = 2 * pow2[k]
  <2>1. \A k \in Nat : pow2[k] = IF k = 0 THEN 1 ELSE 2 * pow2[k - 1]
    BY <1>6
  <2>2. \A k \in Nat : k + 1 \in Nat /\ k + 1 # 0 /\ (k + 1) - 1 = k
    OBVIOUS
  <2> QED BY <2>1, <2>2
<1> DEFINE Bad == {k \in Nat : pow2[k] \notin Nat \ {0}}
<1>8. Bad = {}
  <2> SUFFICES ASSUME Bad # {} PROVE FALSE
    OBVIOUS
  <2>1. PICK k \in Bad : \A l \in Bad : k <= l
    <3> HIDE DEF Bad
    <3>1. Bad \subseteq Nat
      BY DEF Bad
    <3> QED BY <3>1, LeastNumber
  <2>2. k # 0
    BY <1>7
  <2>3. k - 1 \in Nat /\ k - 1 \notin Bad /\ (k - 1) + 1 = k
    BY <2>1, <2>2
  <2>4. pow2[k - 1] \in Nat \ {0} /\ pow2[k] = 2 * pow2[k - 1]
    BY <2>3, <1>7
  <2> QED BY <2>4
<1> QED BY <1>7, <1>8

LEMMA PowersMultiply == \A k, m \in Nat : pow2[k + m] = pow2[k] * pow2[m]
<1> SUFFICES ASSUME NEW m \in Nat PROVE \A k \in Nat : pow2[k + m] = pow2[k] * pow2[m]
  OBVIOUS
<1> DEFINE Bad == {k \in Nat : pow2[k + m] # pow2[k] * pow2[m]}
<1> SUFFICES ASSUME Bad # {} PROVE FALSE
  OBVIOUS
<1>1. PICK k \in Bad : \A l \in Bad : k <= l
  <2> HIDE DEF Bad
  <2>1. Bad \subseteq Nat
    BY DEF Bad
  <2> QED BY <2>1, LeastNumber
<1>2. k # 0
  BY Powers
<1>3. k - 1 \in Nat /\ k - 1 \notin Bad
  BY <1>1, <1>2
<1>4. pow2[(k - 1) + m] = pow2[k - 1] * pow2[m]
  BY <1>3
<1>5. (k - 1) + 1 = k /\ ((k - 1) + m) + 1 = k + m /\ (k - 1) + m \in Nat
  BY <1>3
<1>6. pow2[k] = 2 * pow2[k - 1] /\ pow2[k + m] = 2 * pow2[(k - 1) + m]
  BY <1>3, <1>5, Powers
<1>7. pow2[k - 1] \in Nat /\ pow2[m] \in Nat
  BY <1>3, Powers
<1>8. 2 * (pow2[k - 1] * pow2[m]) = (2 * pow2[k - 1]) * pow2[m]
  BY <1>7
<1> QED BY <1>4, <1>6, <1>8

(***************************************************************************)
(* Words and double words.                                                 *)
(***************************************************************************)

BB == B * B
HH == B * SIGN

LEMMA Width ==
    /\ SIGN \in Nat \ {0} /\ B \in Nat \ {0} /\ B = 2 * SIGN /\ B >= 4
    /\ BB \in Nat \ {0} /\ HH \in Nat \ {0} /\ BB = 2 * HH /\ HH >= B
    /\ HALF \in Nat \ {0} /\ HALF * HALF = B
    /\ W \in Nat /\ pow2[2 * W] = BB
<1>1. W - 1 \in Nat /\ W - 2 \in Nat /\ (W - 1) + 1 = W /\ (W - 2) + 1 = W - 1 /\ W + W = 2 * W
  BY WordAssumption
<1>2. SIGN = pow2[W - 1] /\ pow2[W - 2] \in Nat \ {0} /\ SIGN = 2 * pow2[W - 2] /\ pow2[W] = 2 * SIGN
  BY <1>1, WordAssumption, Powers
<1>3. SIGN \in Nat /\ SIGN >= 2 /\ B = 2 * SIGN
  BY <1>2 DEF B
<1>4. pow2[2 * W] = B * B
  BY <1>1, <1>2, <1>3, WordAssumption, PowersMultiply
<1>5. HALF \in Nat \ {0} /\ HALF * HALF = B
  BY <1>3, HalfAssumption
<1>6. B * B = 2 * (B * SIGN) /\ B * SIGN >= B /\ B * SIGN \in Nat /\ B * B \in Nat
  BY <1>3
<1> QED BY <1>3, <1>4, <1>5, <1>6, WordAssumption DEF BB, HH

\* A double word is its number.
LEMMA Doubleword ==
    ASSUME NEW v \in dw_t
    PROVE  /\ v.hi \in Nat /\ v.lo \in Nat /\ v.hi < B /\ v.lo < B
           /\ U(v) \in Nat /\ U(v) < BB /\ U(v) = v.hi * B + v.lo
           /\ Neg(v) <=> U(v) >= HH
           /\ v = Zero <=> U(v) = 0
           /\ v.hi = 0 <=> U(v) < B
           /\ S(v) = IF U(v) < HH THEN U(v) ELSE U(v) - BB
           /\ S(v) \in Int /\ S(v) >= -HH /\ S(v) < HH
<1>1. v.hi \in Nat /\ v.lo \in Nat /\ v.hi < B /\ v.lo < B /\ v = [hi |-> v.hi, lo |-> v.lo]
  BY Width DEF dw_t, Word
<1>2. U(v) = v.hi * B + v.lo /\ U(v) \in Nat
  BY <1>1, Width DEF U
<1>3. v.hi * B <= (B - 1) * B
  BY <1>1, Width
<1>4. (B - 1) * B = BB - B
  BY Width DEF BB
<1>5. U(v) < BB
  BY <1>1, <1>2, <1>3, <1>4, Width
<1>6. v.hi >= SIGN => v.hi * B >= SIGN * B
  BY <1>1, Width
<1>7. v.hi < SIGN => v.hi * B <= (SIGN - 1) * B
  BY <1>1, Width
<1>8. SIGN * B = HH /\ (SIGN - 1) * B = HH - B
  BY Width DEF HH
<1>9. v.hi >= SIGN <=> U(v) >= HH
  BY <1>1, <1>2, <1>6, <1>7, <1>8, Width
<1>10. v.hi > 0 => v.hi * B >= B
  BY <1>1, Width
<1>11. v.hi = 0 => v.hi * B = 0
  BY Width
<1>12. v.hi = 0 <=> U(v) < B
  BY <1>1, <1>2, <1>10, <1>11, Width
<1>13. v = Zero <=> U(v) = 0
  <2>1. v = Zero <=> v.hi = 0 /\ v.lo = 0
    BY <1>1 DEF Zero
  <2> QED BY <1>1, <1>2, <1>10, <1>11, <2>1, Width
<1>14. S(v) = IF U(v) < HH THEN U(v) ELSE U(v) - BB
  BY <1>1, <1>2, <1>9, Width DEF S, BB
<1>15. S(v) \in Int /\ S(v) >= -HH /\ S(v) < HH
  BY <1>2, <1>5, <1>14, Width
<1> QED BY <1>1, <1>2, <1>5, <1>9, <1>12, <1>13, <1>14, <1>15 DEF Neg

LEMMA Paired ==
    ASSUME NEW p \in 0..(B - 1), NEW q \in 0..(B - 1)
    PROVE  [hi |-> p, lo |-> q] \in dw_t /\ U([hi |-> p, lo |-> q]) = p * B + q
BY DEF dw_t, Word, U

\* What is less than a modulus from a multiple of it.
LEMMA Modulo ==
    ASSUME NEW m \in Nat \ {0}, NEW k \in Int, NEW v \in Int, NEW c \in Nat, c < m, v = k * m + c
    PROVE  v % m = c
OBVIOUS

LEMMA ModuloOnce ==
    ASSUME NEW m \in Nat \ {0}, NEW v \in Int
    PROVE  /\ 0 <= v /\ v < m => v % m = v
           /\ -m <= v /\ v < 0 => v % m = v + m
           /\ m <= v /\ v < 2 * m => v % m = v - m
<1>1. 0 <= v /\ v < m => v % m = v
  OBVIOUS
<1>2. -m <= v /\ v < 0 => v % m = v + m
  <2>1. v = (-1) * m + (v + m)
    OBVIOUS
  <2> QED BY <2>1, Modulo
<1>3. m <= v /\ v < 2 * m => v % m = v - m
  <2>1. v = 1 * m + (v - m)
    OBVIOUS
  <2> QED BY <2>1, Modulo
<1> QED BY <1>1, <1>2, <1>3

LEMMA ModuloSum ==
    ASSUME NEW m \in Nat \ {0}, NEW v \in Int, 0 <= v, v < 2 * m
    PROVE  v % m = IF v >= m THEN v - m ELSE v
<1>1. CASE v < m
  BY <1>1, ModuloOnce
<1>2. CASE v >= m
  BY <1>2, ModuloOnce
<1> QED BY <1>1, <1>2

\* Numbers of two digits to the base m.
Ordered(m, p, q, e, f) ==
    /\ p * m + q = e * m + f <=> p = e /\ q = f
    /\ p * m + q >= e * m + f <=> p > e \/ (p = e /\ q >= f)

LEMMA Digits ==
    ASSUME NEW m \in Nat, NEW p \in Int, NEW q \in Nat, NEW e \in Int, NEW f \in Nat, q < m, f < m
    PROVE  Ordered(m, p, q, e, f)
<1>1. ASSUME NEW k \in Int, NEW l \in Int, k < l PROVE k * m + m <= l * m
  <2>1. (k + 1) * m <= l * m
    BY <1>1
  <2> QED BY <2>1
<1>2. p * m \in Int /\ e * m \in Int
  OBVIOUS
<1>3. p < e => p * m + m <= e * m
  BY <1>1
<1>4. e < p => e * m + m <= p * m
  BY <1>1
<1>5. p = e => p * m = e * m
  OBVIOUS
<1> DEFINE y == p * m
           z == e * m
<1>6. y \in Int /\ z \in Int /\ (p < e => y + m <= z) /\ (e < p => z + m <= y) /\ (p = e => y = z)
  BY <1>2, <1>3, <1>4, <1>5
<1> HIDE DEF y, z
<1>7. /\ y + q = z + f <=> p = e /\ q = f
      /\ y + q >= z + f <=> p > e \/ (p = e /\ q >= f)
  BY <1>6
<1> QED BY <1>7 DEF y, z, Ordered

LEMMA DigitsSubtracted ==
    ASSUME NEW m \in Int, NEW p \in Int, NEW q \in Int, NEW e \in Int, NEW f \in Int,
           NEW c \in Int, NEW t \in Int
    PROVE  (p - q - c + t * m) * m + (e - f + c * m) = (p * m + e) - (q * m + f) + t * (m * m)
OBVIOUS

ShiftedBy(s, m, p, q, bit) ==
    /\ (2 * p + (q \div s)) % m \in 0..(m - 1) /\ (2 * q + bit) % m \in 0..(m - 1)
    /\ ((2 * p + (q \div s)) % m) * m + ((2 * q + bit) % m)
          = 2 * (p * m + q) + bit - (IF p >= s THEN m * m ELSE 0)
    /\ p \div s = IF p >= s THEN 1 ELSE 0

LEMMA DigitsShifted ==
    ASSUME NEW s \in Nat \ {0}, NEW m \in Nat, m = 2 * s, NEW p \in Nat, NEW q \in Nat, p < m, q < m,
           NEW bit \in {0, 1}
    PROVE  ShiftedBy(s, m, p, q, bit)
<1>1. ASSUME NEW k \in Nat, k < m PROVE k \div s = IF k >= s THEN 1 ELSE 0
  <2>1. CASE k >= s
    <3>1. k = 1 * s + (k - s) /\ k - s \in Nat /\ k - s < s
      BY <1>1, <2>1
    <3> QED BY <2>1, <3>1
  <2>2. CASE k < s
    BY <1>1, <2>2
  <2> QED BY <2>1, <2>2
<1> DEFINE c == IF q >= s THEN 1 ELSE 0
           t == IF p >= s THEN 1 ELSE 0
<1>2. q \div s = c /\ p \div s = t /\ c \in {0, 1} /\ t \in {0, 1}
  BY <1>1
<1>3. (2 * q + bit) % m = 2 * q + bit - c * m
  <2>1. ASSUME NEW u \in Int, u = 2 * q + bit PROVE u % m = u - c * m
    <3>1. 0 <= u /\ u < 2 * m /\ (q >= s <=> u >= m)
      BY <2>1
    <3> QED BY <3>1, ModuloOnce
  <2> QED BY <2>1
<1>4. (2 * p + c) % m = 2 * p + c - t * m
  <2>0. ASSUME NEW u \in Int, 0 <= u, u < 2 * m PROVE u % m = IF u >= m THEN u - m ELSE u
    <3>1. m \in Nat \ {0}
      OBVIOUS
    <3> HIDE DEF c, t
    <3>2. u < m => u % m = u
      BY <2>0, <3>1, ModuloOnce
    <3>3. u >= m => u % m = u - m
      BY <2>0, <3>1, ModuloOnce
    <3> QED BY <3>2, <3>3
  <2>1. ASSUME NEW z \in {0, 1}, NEW u \in Int, u = 2 * p + z PROVE u % m = u - t * m
    <3>1. 0 <= u /\ u < 2 * m /\ (p >= s <=> u >= m)
      BY <2>1
    <3>2. u % m = IF u >= m THEN u - m ELSE u
      BY <2>0, <3>1
    <3>3. t * m = IF p >= s THEN m ELSE 0
      OBVIOUS
    <3> HIDE DEF t
    <3> QED BY <3>1, <3>2, <3>3
  <2>2. ASSUME NEW z \in {0, 1} PROVE (2 * p + z) % m = 2 * p + z - t * m
    BY <2>1
  <2> QED BY <1>2, <2>2
<1>5. 2 * q + bit - c * m \in 0..(m - 1) /\ 2 * p + c - t * m \in 0..(m - 1)
  OBVIOUS
<1>6. (2 * p + c - t * m) * m + (2 * q + bit - c * m) = 2 * (p * m + q) + bit - t * (m * m)
  <2> HIDE DEF c, t
  <2> QED BY <1>2
<1>7. t * (m * m) = IF p >= s THEN m * m ELSE 0
  OBVIOUS
<1>8. p \div s = IF p >= s THEN 1 ELSE 0
  BY <1>1
<1> HIDE DEF c, t
<1> QED BY <1>2, <1>3, <1>4, <1>5, <1>6, <1>7, <1>8 DEF ShiftedBy

\* Two double words of one number are one.
LEMMA SameWords ==
    ASSUME NEW v \in dw_t, NEW w \in dw_t, U(v) = U(w)
    PROVE  v = w
<1>1. /\ v.hi \in Int /\ v.lo \in Nat /\ v.lo < B /\ w.hi \in Int /\ w.lo \in Nat /\ w.lo < B
      /\ v.hi * B + v.lo = w.hi * B + w.lo /\ B \in Nat
  BY Doubleword, Width
<1>2. v.hi = w.hi /\ v.lo = w.lo
  <2>1. Ordered(B, v.hi, v.lo, w.hi, w.lo)
    BY <1>1, Digits
  <2> QED BY <1>1, <2>1 DEF Ordered
<1> QED BY <1>2 DEF dw_t

LEMMA Negates ==
    ASSUME NEW v \in dw_t
    PROVE  negate(v) \in dw_t /\ U(negate(v)) = IF U(v) = 0 THEN 0 ELSE BB - U(v)
<1>1. v.hi \in Nat /\ v.lo \in Nat /\ v.hi < B /\ v.lo < B /\ B \in Nat \ {0} /\ U(v) = v.hi * B + v.lo
  BY Doubleword, Width
<1>2. CASE v.lo = 0
  <2>1. (B - 1 - v.lo + 1) % B = 0
    BY <1>1, <1>2
  <2>2. (B - 1 - v.hi + Bit(0 = 0)) % B = IF v.hi = 0 THEN 0 ELSE B - v.hi
    <3>1. B - 1 - v.hi + Bit(0 = 0) = B - v.hi
      BY <1>1 DEF Bit
    <3>2. B - v.hi \in Int /\ 0 <= B - v.hi /\ B - v.hi < 2 * B
      BY <1>1
    <3>3. CASE v.hi = 0
      BY <1>1, <3>1, <3>2, <3>3, ModuloOnce
    <3>4. CASE v.hi # 0
      BY <1>1, <3>1, <3>2, <3>4, ModuloOnce
    <3> QED BY <3>3, <3>4
  <2> DEFINE p == IF v.hi = 0 THEN 0 ELSE B - v.hi
  <2>3. negate(v) = [hi |-> p, lo |-> 0]
    BY <2>1, <2>2 DEF negate
  <2>4. p \in 0..(B - 1) /\ 0 \in 0..(B - 1)
    BY <1>1
  <2>5. negate(v) \in dw_t /\ U(negate(v)) = p * B + 0
    <3> HIDE DEF p
    <3> QED BY <2>3, <2>4, Paired
  <2>6. CASE v.hi = 0
    BY <1>1, <1>2, <2>5, <2>6
  <2>7. CASE v.hi # 0
    <3>1. p * B = B * B - v.hi * B /\ v.hi * B > 0
      BY <1>1, <2>7
    <3> QED BY <1>1, <1>2, <2>5, <3>1 DEF BB
  <2> QED BY <2>6, <2>7
<1>3. CASE v.lo # 0
  <2>1. (B - 1 - v.lo + 1) % B = B - v.lo
    <3>1. B - 1 - v.lo + 1 = B - v.lo /\ B - v.lo \in Int /\ 0 <= B - v.lo /\ B - v.lo < B
      BY <1>1, <1>3
    <3> QED BY <1>1, <3>1, ModuloOnce
  <2>2. (B - 1 - v.hi + Bit(B - v.lo = 0)) % B = B - 1 - v.hi
    <3>1. Bit(B - v.lo = 0) = 0
      BY <1>1 DEF Bit
    <3>2. B - 1 - v.hi + 0 = B - 1 - v.hi /\ B - 1 - v.hi \in Int /\ 0 <= B - 1 - v.hi /\ B - 1 - v.hi < B
      BY <1>1
    <3>3. (B - 1 - v.hi) % B = B - 1 - v.hi
      BY <1>1, <3>2, ModuloOnce
    <3> QED BY <3>1, <3>2, <3>3
  <2>3. negate(v) = [hi |-> B - 1 - v.hi, lo |-> B - v.lo]
    BY <2>1, <2>2 DEF negate
  <2>4. B - 1 - v.hi \in 0..(B - 1) /\ B - v.lo \in 0..(B - 1)
    BY <1>1, <1>3
  <2>5. negate(v) \in dw_t /\ U(negate(v)) = (B - 1 - v.hi) * B + (B - v.lo)
    BY <2>3, <2>4, Paired
  <2>6. (B - 1 - v.hi) * B + (B - v.lo) = B * B - (v.hi * B + v.lo)
    BY <1>1
  <2>7. v.hi * B >= 0
    BY <1>1
  <2> QED BY <1>1, <1>3, <2>5, <2>6, <2>7 DEF BB
<1> QED BY <1>2, <1>3

LEMMA Subtracts ==
    ASSUME NEW v \in dw_t, NEW w \in dw_t
    PROVE  /\ Subtracted(v, w) \in dw_t
           /\ U(Subtracted(v, w)) = IF U(v) >= U(w) THEN U(v) - U(w) ELSE U(v) - U(w) + BB
<1>1. /\ v.hi \in Nat /\ v.lo \in Nat /\ v.hi < B /\ v.lo < B /\ B \in Nat \ {0} /\ U(v) = v.hi * B + v.lo
      /\ w.hi \in Nat /\ w.lo \in Nat /\ w.hi < B /\ w.lo < B /\ U(w) = w.hi * B + w.lo
      /\ U(v) \in Nat /\ U(w) \in Nat /\ U(v) < BB /\ U(w) < BB /\ BB \in Nat
  BY Doubleword, Width
<1> DEFINE c == IF v.lo < w.lo THEN 1 ELSE 0
           l == v.lo - w.lo + c * B
           k == v.hi - w.hi - c
           t == IF k < 0 THEN 1 ELSE 0
           y == k + t * B
<1>2. c \in {0, 1} /\ t \in {0, 1} /\ k \in Int /\ l \in 0..(B - 1) /\ y \in 0..(B - 1)
  BY <1>1
<1>3. (v.lo - w.lo) % B = l
  <2>1. v.lo - w.lo \in Int /\ -B <= v.lo - w.lo /\ v.lo - w.lo < B
    BY <1>1
  <2>2. l = IF v.lo - w.lo < 0 THEN v.lo - w.lo + B ELSE v.lo - w.lo
    BY <1>1
  <2> HIDE DEF l
  <2> QED BY <1>1, <2>1, <2>2, ModuloOnce
<1>4. (v.hi - (w.hi + Bit(v.lo < w.lo))) % B = y
  <2>1. v.hi - (w.hi + Bit(v.lo < w.lo)) = k /\ k \in Int /\ -B <= k /\ k < B
    BY <1>1 DEF Bit
  <2>2. y = IF k < 0 THEN k + B ELSE k
    BY <1>1, <2>1
  <2> HIDE DEF y, k
  <2> QED BY <1>1, <2>1, <2>2, ModuloOnce
<1>5. Subtracted(v, w) = [hi |-> y, lo |-> l]
  BY <1>3, <1>4 DEF Subtracted
<1>6. Subtracted(v, w) \in dw_t /\ U(Subtracted(v, w)) = y * B + l
  <2> HIDE DEF y, l
  <2> QED BY <1>2, <1>5, Paired
<1>7. y * B + l = U(v) - U(w) + t * BB
  <2>1. y = v.hi - w.hi - c + t * B /\ l = v.lo - w.lo + c * B
    BY <1>1, <1>2
  <2> HIDE DEF y, l, c, t, k
  <2>3. (v.hi - w.hi - c + t * B) * B + (v.lo - w.lo + c * B)
        = (v.hi * B + v.lo) - (w.hi * B + w.lo) + t * (B * B)
    <3>1. v.hi \in Int /\ w.hi \in Int /\ v.lo \in Int /\ w.lo \in Int /\ c \in Int /\ t \in Int /\ B \in Int
      BY <1>1, <1>2
    <3> QED BY <3>1, DigitsSubtracted
  <2> QED BY <1>1, <2>1, <2>3 DEF BB
<1>8. U(Subtracted(v, w)) \in Nat /\ U(Subtracted(v, w)) < BB
  BY <1>6, Doubleword
<1> HIDE DEF y, l, k
<1>9. CASE t = 0
  BY <1>1, <1>6, <1>7, <1>8, <1>9
<1>10. CASE t = 1
  BY <1>1, <1>6, <1>7, <1>8, <1>10
<1> QED BY <1>2, <1>9, <1>10

\* A shift by one loses the bit that is on when the number is HH or more.
LEMMA Shifts ==
    ASSUME NEW v \in dw_t, NEW bit \in {0, 1}
    PROVE  /\ shl1(v, bit) \in dw_t
           /\ U(shl1(v, bit)) = 2 * U(v) + bit - (IF U(v) >= HH THEN BB ELSE 0)
<1>1. /\ v.hi \in Nat /\ v.lo \in Nat /\ v.hi < B /\ v.lo < B /\ B \in Nat
      /\ SIGN \in Nat \ {0} /\ B = 2 * SIGN
  BY Doubleword, Width
<1> DEFINE y == (2 * v.hi + (v.lo \div SIGN)) % B
           l == (2 * v.lo + bit) % B
<1>2. /\ y \in 0..(B - 1) /\ l \in 0..(B - 1)
      /\ y * B + l = 2 * (v.hi * B + v.lo) + bit - (IF v.hi >= SIGN THEN B * B ELSE 0)
  <2>1. ShiftedBy(SIGN, B, v.hi, v.lo, bit)
    BY <1>1, DigitsShifted
  <2> QED BY <2>1 DEF ShiftedBy
<1>3. shl1(v, bit) = [hi |-> y, lo |-> l]
  BY DEF shl1
<1> HIDE DEF y, l
<1>4. shl1(v, bit) \in dw_t /\ U(shl1(v, bit)) = y * B + l
  BY <1>2, <1>3, Paired
<1>5. U(v) = v.hi * B + v.lo /\ (v.hi >= SIGN <=> U(v) >= HH)
  BY Doubleword DEF Neg
<1> QED BY <1>2, <1>4, <1>5 DEF BB

\* The loop compares word by word.
LEMMA Compares ==
    ASSUME NEW v \in dw_t, NEW w \in dw_t
    PROVE  v.hi > w.hi \/ (v.hi = w.hi /\ v.lo >= w.lo) <=> U(v) >= U(w)
<1>1. /\ v.hi \in Int /\ v.lo \in Nat /\ v.lo < B /\ w.hi \in Int /\ w.lo \in Nat /\ w.lo < B
      /\ U(v) = v.hi * B + v.lo /\ U(w) = w.hi * B + w.lo /\ B \in Nat
  BY Doubleword, Width
<1>2. v.hi * B + v.lo >= w.hi * B + w.lo <=> v.hi > w.hi \/ (v.hi = w.hi /\ v.lo >= w.lo)
  <2>1. Ordered(B, v.hi, v.lo, w.hi, w.lo)
    BY <1>1, Digits
  <2> QED BY <2>1 DEF Ordered
<1> QED BY <1>1, <1>2

LEMMA TopBit ==
    ASSUME NEW v \in dw_t
    PROVE  v.hi \div SIGN = IF U(v) >= HH THEN 1 ELSE 0
<1>1. /\ v.hi \in Nat /\ v.lo \in Nat /\ v.hi < B /\ v.lo < B /\ B \in Nat
      /\ SIGN \in Nat \ {0} /\ B = 2 * SIGN /\ (v.hi >= SIGN <=> U(v) >= HH)
  BY Doubleword, Width DEF Neg
<1>2. v.hi \div SIGN = IF v.hi >= SIGN THEN 1 ELSE 0
  <2>1. ShiftedBy(SIGN, B, v.hi, v.lo, 0)
    BY <1>1, DigitsShifted
  <2> QED BY <2>1 DEF ShiftedBy
<1> QED BY <1>1, <1>2

(***************************************************************************)
(* The division loop.                                                      *)
(***************************************************************************)

\* Dividend m by divisor v with e = 2^(rounds to come) and f = 2^(rounds done):
\* the bits of m so far are y times v plus z, the rest of them stand at the left
\* of the word l.
Partial(m, v, e, f, y, z, l) ==
    /\ m \in Nat /\ v \in Nat /\ e \in Nat \ {0} /\ f \in Nat \ {0} /\ e * f = BB
    /\ y \in Nat /\ z \in Nat /\ l \in Nat
    /\ z < v /\ z < f /\ y < f
    /\ \E r \in Nat : r < e /\ m = (y * v + z) * e + r /\ l = r * f

\* A round in numbers.
LEMMA RoundNumbers ==
    ASSUME NEW m \in Nat, NEW v \in Nat, NEW e \in Nat \ {0}, NEW f \in Nat \ {0},
           NEW y \in Nat, NEW z \in Nat, NEW r \in Nat,
           z < v, z < f, y < f, r < 2 * e, m = (y * v + z) * (2 * e) + r,
           NEW bit \in {0, 1}, bit = 1 <=> r * f >= e * f,
           NEW g \in {0, 1}, g = 1 <=> 2 * z + bit >= v
    PROVE  /\ r - bit * e \in Nat /\ r - bit * e < e
           /\ m = ((2 * y + g) * v + (2 * z + bit - g * v)) * e + (r - bit * e)
           /\ 2 * z + bit - g * v \in Nat /\ 2 * z + bit - g * v < v
           /\ 2 * z + bit - g * v < 2 * f /\ 2 * y + g < 2 * f
<1>1. bit = 1 <=> r >= e
  <2>1. r >= e => r * f >= e * f
    OBVIOUS
  <2>2. r < e => r * f < e * f
    OBVIOUS
  <2> DEFINE p == r * f
             q == e * f
  <2>3. (r >= e => p >= q) /\ (r < e => p < q) /\ (bit = 1 <=> p >= q) /\ p \in Nat /\ q \in Nat
    BY <2>1, <2>2
  <2> HIDE DEF p, q
  <2> QED BY <2>3
<1>2. r - bit * e \in Nat /\ r - bit * e < e
  <2>1. CASE bit = 0
    BY <1>1, <2>1
  <2>2. CASE bit = 1
    BY <1>1, <2>2
  <2> QED BY <2>1, <2>2
<1>3. ((2 * y + g) * v + (2 * z + bit - g * v)) * e + (r - bit * e) = (y * v + z) * (2 * e) + r
  OBVIOUS
<1>4. g * v = IF 2 * z + bit >= v THEN v ELSE 0
  OBVIOUS
<1>5. 2 * z + bit - g * v \in Nat /\ 2 * z + bit - g * v < v /\ 2 * z + bit - g * v < 2 * f
  <2> DEFINE c == g * v
  <2>1. c = IF 2 * z + bit >= v THEN v ELSE 0
    BY <1>4
  <2> HIDE DEF c
  <2>2. 2 * z + bit - c \in Nat /\ 2 * z + bit - c < v /\ 2 * z + bit - c < 2 * f
    BY <2>1
  <2> QED BY <2>2 DEF c
<1>6. 2 * y + g < 2 * f
  OBVIOUS
<1> QED BY <1>2, <1>3, <1>5, <1>6

LEMMA PartialRound ==
    ASSUME NEW m, NEW v, NEW e \in Nat \ {0}, NEW f, NEW y, NEW z, NEW l,
           Partial(m, v, 2 * e, f, y, z, l),
           NEW bit, bit = IF l >= HH THEN 1 ELSE 0,
           NEW g, g = IF 2 * z + bit >= v THEN 1 ELSE 0
    PROVE  /\ y < HH /\ z < HH
           /\ Partial(m, v, e, 2 * f, 2 * y + g, 2 * z + bit - g * v, 2 * l - bit * BB)
<1>1. /\ m \in Nat /\ v \in Nat /\ f \in Nat \ {0} /\ (2 * e) * f = BB
      /\ y \in Nat /\ z \in Nat /\ l \in Nat /\ z < v /\ z < f /\ y < f
  BY DEF Partial
<1>2. PICK r \in Nat : r < 2 * e /\ m = (y * v + z) * (2 * e) + r /\ l = r * f
  BY DEF Partial
<1>3. HH = e * f /\ HH >= f /\ HH \in Nat /\ BB \in Nat /\ BB = 2 * HH
  <2>1. e * f >= f /\ e * f \in Nat /\ (2 * e) * f = 2 * (e * f)
    BY <1>1
  <2> DEFINE p == e * f
  <2>2. p \in Nat /\ p >= f /\ BB = 2 * p
    BY <1>1, <2>1
  <2> HIDE DEF p
  <2>3. HH = p /\ HH >= f
    BY <1>1, <2>2, Width
  <2> QED BY <2>3, Width DEF p
<1>4. bit \in {0, 1} /\ g \in {0, 1} /\ (bit = 1 <=> r * f >= e * f) /\ (g = 1 <=> 2 * z + bit >= v)
  BY <1>2, <1>3
<1>5. /\ r - bit * e \in Nat /\ r - bit * e < e
      /\ m = ((2 * y + g) * v + (2 * z + bit - g * v)) * e + (r - bit * e)
      /\ 2 * z + bit - g * v \in Nat /\ 2 * z + bit - g * v < v
      /\ 2 * z + bit - g * v < 2 * f /\ 2 * y + g < 2 * f
  BY <1>1, <1>2, <1>4, RoundNumbers
<1>6. 2 * l - bit * BB = (r - bit * e) * (2 * f)
  <2>1. 2 * (r * f) - bit * ((2 * e) * f) = (r - bit * e) * (2 * f)
    <3> HIDE <1>1, <1>2
    <3>1. r \in Int /\ f \in Int /\ e \in Int /\ bit \in Int
      BY <1>1, <1>4
    <3> QED BY <3>1
  <2> QED BY <1>1, <1>2, <2>1
<1>7. 2 * l - bit * BB \in Nat /\ 2 * f \in Nat \ {0} /\ e * (2 * f) = BB /\ 2 * y + g \in Nat
  <2>1. (r - bit * e) * (2 * f) \in Nat
    BY <1>1, <1>5
  <2>2. e * (2 * f) = (2 * e) * f
    BY <1>1
  <2> QED BY <1>1, <1>4, <1>6, <2>1, <2>2
<1>8. y < HH /\ z < HH
  BY <1>1, <1>3
<1> QED BY <1>1, <1>5, <1>6, <1>7, <1>8 DEF Partial

(***************************************************************************)
(* Results.                                                                *)
(***************************************************************************)

\* What a loop that is done, or the short way, hands over: the quotient and the
\* remainder.
LEMMA Quotients ==
    ASSUME NEW m \in Nat, NEW v \in Nat, NEW y \in Nat, NEW z \in Nat, m = y * v + z, z < v
    PROVE  m \div v = y /\ m - v * y = z
<1>1. v > 0
  OBVIOUS
<1>2. m - v * y = z
  OBVIOUS
<1>3. m \div v = y
  BY <1>1
<1> QED BY <1>2, <1>3

\* The magnitude of a signed number.
LEMMA Magnitudes ==
    ASSUME NEW v \in dw_t
    PROVE  /\ Magnitude(v) \in dw_t
           /\ IsSigned => U(Magnitude(v)) = Abs(S(v)) /\ (Neg(v) <=> S(v) < 0)
           /\ ~IsSigned => Magnitude(v) = v
           /\ v # Zero <=> U(Magnitude(v)) > 0
<1>1. /\ U(v) \in Nat /\ U(v) < BB /\ (Neg(v) <=> U(v) >= HH) /\ (v = Zero <=> U(v) = 0)
      /\ S(v) = IF U(v) < HH THEN U(v) ELSE U(v) - BB
      /\ HH \in Nat \ {0} /\ BB = 2 * HH
  BY Doubleword, Width
<1>2. negate(v) \in dw_t /\ U(negate(v)) = IF U(v) = 0 THEN 0 ELSE BB - U(v)
  BY Negates
<1>3. CASE IsSigned /\ Neg(v)
  BY <1>1, <1>2, <1>3 DEF Magnitude, Abs
<1>4. CASE ~(IsSigned /\ Neg(v))
  BY <1>1, <1>4 DEF Magnitude, Abs
<1> QED BY <1>3, <1>4

LEMMA Signed ==
    ASSUME NEW v \in dw_t, NEW k \in Int,
           k = U(v) \/ k = -U(v)
    PROVE  /\ k = U(v) => k % BB = U(v)
           /\ k = -U(v) => k % BB = U(negate(v))
<1>1. U(v) \in Nat /\ U(v) < BB /\ BB \in Nat \ {0}
  BY Doubleword, Width
<1>2. U(negate(v)) = IF U(v) = 0 THEN 0 ELSE BB - U(v)
  BY Negates
<1>3. k = U(v) => k % BB = U(v)
  BY <1>1, ModuloOnce
<1>4. k = -U(v) /\ U(v) # 0 => k % BB = BB - U(v)
  <2> SUFFICES ASSUME k = -U(v), U(v) # 0 PROVE k % BB = BB - U(v)
    OBVIOUS
  <2>1. k < 0 /\ -BB <= k /\ k + BB = BB - U(v)
    BY <1>1
  <2> QED BY <1>1, <2>1, ModuloOnce
<1>5. k + U(v) = 0 /\ U(v) = 0 => k = U(v)
  BY <1>1
<1>6. k = -U(v) => k + U(v) = 0
  BY <1>1
<1>7. k = -U(v) => k % BB = U(negate(v))
  <2>1. CASE U(v) = 0
    BY <1>2, <1>3, <1>5, <1>6, <2>1
  <2>2. CASE U(v) # 0
    BY <1>2, <1>4, <2>2
  <2> QED BY <2>1, <2>2
<1> QED BY <1>3, <1>7

\* The quotient y and the remainder z of the magnitudes, with the sign put back,
\* are what C asks for.
LEMMA Results ==
    ASSUME fn \in Divides, a \in dw_t, b \in dw_t, b # Zero, NEW y \in dw_t, NEW z \in dw_t,
           U(Magnitude(a)) = U(y) * U(Magnitude(b)) + U(z), U(z) < U(Magnitude(b))
    PROVE  IF IsSigned THEN U(Result(y, z)) = Divided(S(a), S(b)) % (B * B)
                       ELSE U(Result(y, z)) = Divided(U(a), U(b))
<1> DEFINE m == U(Magnitude(a))
           v == U(Magnitude(b))
<1>1. /\ m \in Nat /\ v \in Nat /\ U(y) \in Nat /\ U(z) \in Nat /\ m = U(y) * v + U(z) /\ U(z) < v
      /\ U(a) \in Nat /\ U(b) \in Nat /\ S(a) \in Int /\ S(b) \in Int
  BY Magnitudes, Doubleword
<1>2. m \div v = U(y) /\ m - v * U(y) = U(z)
  <2> HIDE DEF m, v
  <2> QED BY <1>1, Quotients
<1>3. CASE ~IsSigned
  <2>1. m = U(a) /\ v = U(b) /\ ~Negative
    BY <1>3, Magnitudes DEF Negative, IsSigned, Divides
  <2>2. Quot(U(a), U(b)) = U(y)
    BY <1>1, <1>2, <2>1 DEF Quot, Abs
  <2>3. U(a) - U(b) * Quot(U(a), U(b)) = U(z)
    BY <1>2, <2>1, <2>2
  <2> QED BY <1>3, <2>1, <2>2, <2>3 DEF Result, Divided
<1>4. CASE IsSigned
  <2>1. /\ m = Abs(S(a)) /\ v = Abs(S(b)) /\ (Neg(a) <=> S(a) < 0) /\ (Neg(b) <=> S(b) < 0)
    BY <1>4, Magnitudes
  <2>2. Quot(S(a), S(b)) = IF (S(a) < 0) = (S(b) < 0) THEN U(y) ELSE -U(y)
    <3> HIDE DEF m, v
    <3> QED BY <1>1, <1>2, <2>1 DEF Quot
  <2>3. S(a) - S(b) * Quot(S(a), S(b)) = IF S(a) < 0 THEN -U(z) ELSE U(z)
    <3>1. CASE S(a) < 0 /\ S(b) < 0
      <4>1. S(a) = -m /\ S(b) = -v /\ Quot(S(a), S(b)) = U(y)
        BY <1>1, <2>1, <2>2, <3>1 DEF Abs
      <4>2. -m - (-v) * U(y) = -(m - v * U(y))
        BY <1>1
      <4> QED BY <1>2, <3>1, <4>1, <4>2
    <3>2. CASE S(a) < 0 /\ ~(S(b) < 0)
      <4>1. S(a) = -m /\ S(b) = v /\ Quot(S(a), S(b)) = -U(y)
        BY <1>1, <2>1, <2>2, <3>2 DEF Abs
      <4>2. -m - v * (-U(y)) = -(m - v * U(y))
        BY <1>1
      <4> QED BY <1>2, <3>2, <4>1, <4>2
    <3>3. CASE ~(S(a) < 0) /\ S(b) < 0
      <4>1. S(a) = m /\ S(b) = -v /\ Quot(S(a), S(b)) = -U(y)
        <5>1. S(a) = m /\ S(b) = -v
          BY <1>1, <2>1, <3>3 DEF Abs
        <5>2. (S(a) < 0) # (S(b) < 0)
          BY <3>3
        <5> QED BY <2>2, <5>1, <5>2
      <4>2. m - (-v) * (-U(y)) = m - v * U(y)
        BY <1>1
      <4> QED BY <1>2, <3>3, <4>1, <4>2
    <3>4. CASE ~(S(a) < 0) /\ ~(S(b) < 0)
      <4>1. S(a) = m /\ S(b) = v /\ Quot(S(a), S(b)) = U(y)
        BY <1>1, <2>1, <2>2, <3>4 DEF Abs
      <4> QED BY <1>2, <3>4, <4>1
    <3> QED BY <3>1, <3>2, <3>3, <3>4
  <2>4. CASE fn = "divdi3"
    <3>1. Negative <=> (S(a) < 0) # (S(b) < 0)
      BY <2>1, <2>4 DEF Negative, Neg
    <3>2. Divided(S(a), S(b)) = IF Negative THEN -U(y) ELSE U(y)
      BY <2>2, <2>4, <3>1 DEF Divided
    <3>3. Result(y, z) = IF Negative THEN negate(y) ELSE y
      BY <2>4 DEF Result
    <3>4. Divided(S(a), S(b)) \in Int
      BY <1>1, <3>2
    <3> QED BY <1>1, <1>4, <3>2, <3>3, <3>4, Signed DEF BB
  <2>5. CASE fn = "moddi3"
    <3>1. Negative <=> S(a) < 0
      BY <2>1, <2>5 DEF Negative
    <3>2. Divided(S(a), S(b)) = IF Negative THEN -U(z) ELSE U(z)
      BY <2>3, <2>5, <3>1 DEF Divided
    <3>3. Result(y, z) = IF Negative THEN negate(z) ELSE z
      BY <2>5 DEF Result
    <3>4. Divided(S(a), S(b)) \in Int
      BY <1>1, <3>2
    <3> QED BY <1>1, <1>4, <3>2, <3>3, <3>4, Signed DEF BB
  <2> QED BY <1>4, <2>4, <2>5 DEF IsSigned
<1> QED BY <1>3, <1>4

(***************************************************************************)
(* The calls.                                                              *)
(***************************************************************************)

\* A call of a helper on integers has double words.
Integral == Divides \cup Traps \cup Wraps

CallInv ==
    /\ fn \in Integral \cup Floats \cup Fixes
    /\ fn \in Integral => a \in dw_t /\ b \in dw_t
    /\ pc \in {"call", "loop", "ret", "S0C9", "abort"}
    /\ pc = "call" => x = Zero /\ h = Zero /\ i = 0

LoopInv ==
    pc = "loop" =>
        /\ fn \in Divides /\ b # Zero /\ d = Magnitude(b)
        /\ n \in dw_t /\ x \in dw_t /\ h \in dw_t /\ i \in 0..(2 * W)
        /\ Partial(U(Magnitude(a)), U(d), pow2[2 * W - i], pow2[i], U(x), U(h), U(n))

QuotInv ==
    /\ pc = "S0C9" => b = Zero
    /\ fn \in Divides /\ pc = "ret" =>
          IF IsSigned THEN U(ret) = Divided(S(a), S(b)) % (B * B)
                      ELSE U(ret) = Divided(U(a), U(b))

LEMMA ZeroTyped == Zero \in dw_t /\ U(Zero) = 0
<1>1. Zero \in dw_t
  BY Width DEF Zero, dw_t, Word
<1> QED BY <1>1, Doubleword

LEMMA CallMoves == CallInv /\ [Next]_vars => CallInv'
<1> SUFFICES ASSUME CallInv, [Next]_vars PROVE CallInv'
  OBVIOUS
<1> USE DEF CallInv, Integral
<1>1. CASE DivideByZero
  BY <1>1 DEF DivideByZero, args, regs
<1>2. CASE DivideWord
  BY <1>2 DEF DivideWord, Return, args, regs
<1>3. CASE StartDivide
  BY <1>3 DEF StartDivide, args
<1>4. CASE Round
  BY <1>4 DEF Round, args
<1>5. CASE EndDivide
  BY <1>5 DEF EndDivide, Return, args, regs
<1>6. CASE muldi3 \/ negdi2 \/ cmpdi2
  BY <1>6 DEF muldi3, negdi2, cmpdi2, Return, args, regs
<1>7. CASE addvdi3 \/ subvdi3 \/ negvdi2
  BY <1>7 DEF addvdi3, subvdi3, negvdi2, ReturnUnless, Abort, Return, args, regs
<1>8. CASE mulvsi3 \/ mulvdi3
  BY <1>8 DEF mulvsi3, mulvdi3, ReturnUnless, Abort, Return, args, regs
<1>9. CASE fixdfdi \/ hfp_float
  BY <1>9 DEF fixdfdi, hfp_float, Return, args, regs
<1>10. CASE UNCHANGED vars
  BY <1>10 DEF vars
<1> QED BY <1>1, <1>2, <1>3, <1>4, <1>5, <1>6, <1>7, <1>8, <1>9, <1>10 DEF Next

\* What a round does to the numbers of the loop.
LEMMA RoundMoves ==
    ASSUME CallInv, LoopInv, Round
    PROVE  LoopInv'
<1>1. /\ pc = "loop" /\ i < 2 * W /\ fn \in Divides /\ a \in dw_t /\ b \in dw_t /\ b # Zero /\ d = Magnitude(b)
      /\ n \in dw_t /\ x \in dw_t /\ h \in dw_t /\ i \in 0..(2 * W) /\ W \in Nat
      /\ Partial(U(Magnitude(a)), U(d), pow2[2 * W - i], pow2[i], U(x), U(h), U(n))
  BY Width DEF LoopInv, Round, CallInv, Integral
<1>2. d \in dw_t
  BY <1>1, Magnitudes
<1> DEFINE bit == n.hi \div SIGN
           s == shl1(h, bit)
           goes == s.hi > d.hi \/ (s.hi = d.hi /\ s.lo >= d.lo)
           g == IF U(s) >= U(d) THEN 1 ELSE 0
           e == pow2[2 * W - i - 1]
           f == pow2[i]
<1>3. /\ n' = shl1(n, 0) /\ h' = (IF goes THEN Subtracted(s, d) ELSE s) /\ x' = shl1(x, Bit(goes))
      /\ i' = i + 1 /\ d' = d /\ a' = a /\ b' = b /\ fn' = fn /\ pc' = pc
  BY DEF Round, args
<1>4. bit = IF U(n) >= HH THEN 1 ELSE 0
  BY <1>1, TopBit
<1>5. bit \in {0, 1} /\ bit \in Nat
  BY <1>4
<1>6. pow2[2 * W - i] = 2 * e /\ e \in Nat \ {0} /\ f \in Nat \ {0} /\ pow2[i + 1] = 2 * f
  <2>1. 2 * W - i - 1 \in Nat /\ (2 * W - i - 1) + 1 = 2 * W - i /\ i \in Nat
    BY <1>1
  <2> QED BY <2>1, Powers
<1>7. U(h) \in Nat /\ U(x) \in Nat /\ U(n) \in Nat /\ U(d) \in Nat /\ HH \in Nat /\ BB \in Nat
  BY <1>1, <1>2, Doubleword, Width
<1> HIDE DEF bit, e, f
<1>8. Partial(U(Magnitude(a)), U(d), 2 * e, f, U(x), U(h), U(n))
  BY <1>1, <1>6 DEF f
<1>9. ASSUME NEW k \in {0, 1}, k = IF 2 * U(h) + bit >= U(d) THEN 1 ELSE 0
      PROVE  /\ U(x) < HH /\ U(h) < HH
             /\ Partial(U(Magnitude(a)), U(d), e, 2 * f, 2 * U(x) + k, 2 * U(h) + bit - k * U(d), 2 * U(n) - bit * BB)
  BY <1>4, <1>6, <1>8, <1>9, PartialRound
<1>10. U(x) < HH /\ U(h) < HH
  BY <1>9
<1>11. s \in dw_t /\ U(s) = 2 * U(h) + bit
  BY <1>1, <1>5, <1>7, <1>10, Shifts
<1>12. goes <=> U(s) >= U(d)
  <2> HIDE DEF s
  <2> QED BY <1>2, <1>11, Compares
<1>13. g \in {0, 1} /\ Bit(goes) = g /\ g = IF 2 * U(h) + bit >= U(d) THEN 1 ELSE 0
  <2> HIDE DEF s, goes
  <2> QED BY <1>11, <1>12 DEF Bit
<1>14. x' \in dw_t /\ U(x') = 2 * U(x) + g
  <2> HIDE DEF goes, g
  <2>1. x' = shl1(x, g)
    BY <1>3, <1>13
  <2> QED BY <1>1, <1>7, <1>10, <1>13, <2>1, Shifts
<1>15. h' \in dw_t /\ U(h') = 2 * U(h) + bit - g * U(d)
  <2> HIDE DEF goes, s
  <2>1. CASE goes
    <3>1. h' = Subtracted(s, d) /\ U(s) >= U(d) /\ g = 1
      BY <1>3, <1>12, <2>1
    <3>2. h' \in dw_t /\ U(h') = U(s) - U(d)
      BY <1>2, <1>11, <3>1, Subtracts
    <3>3. g * U(d) = U(d)
      BY <1>7, <3>1
    <3> HIDE DEF g
    <3> QED BY <1>5, <1>7, <1>11, <3>2, <3>3
  <2>2. CASE ~goes
    <3>1. h' = s /\ g = 0
      BY <1>3, <1>12, <2>2
    <3>2. g * U(d) = 0
      BY <1>7, <3>1
    <3> QED BY <1>5, <1>7, <1>11, <3>1, <3>2
  <2> QED BY <2>1, <2>2
<1>16. n' \in dw_t /\ U(n') = 2 * U(n) - bit * BB
  <2>1. n' \in dw_t /\ U(n') = 2 * U(n) + 0 - (IF U(n) >= HH THEN BB ELSE 0)
    BY <1>1, <1>3, Shifts
  <2>2. bit * BB = IF U(n) >= HH THEN BB ELSE 0
    BY <1>4, <1>7
  <2> QED BY <1>7, <2>1, <2>2
<1>17. Partial(U(Magnitude(a)), U(d), e, 2 * f, U(x'), U(h'), U(n'))
  <2> HIDE DEF g
  <2> QED BY <1>9, <1>13, <1>14, <1>15, <1>16
<1>18. i' \in 0..(2 * W) /\ pow2[2 * W - i'] = e /\ pow2[i'] = 2 * f
  <2>1. 2 * W - (i + 1) = 2 * W - i - 1
    BY <1>1
  <2> QED BY <1>1, <1>3, <1>6, <2>1 DEF e
<1>19. Magnitude(a)' = Magnitude(a) /\ Magnitude(b)' = Magnitude(b)
  BY <1>3 DEF Magnitude, IsSigned
<1> QED BY <1>1, <1>3, <1>14, <1>15, <1>16, <1>17, <1>18, <1>19 DEF LoopInv

LEMMA StartMoves ==
    ASSUME CallInv, StartDivide
    PROVE  LoopInv'
<1>1. /\ fn \in Divides /\ a \in dw_t /\ b \in dw_t /\ b # Zero /\ x = Zero /\ h = Zero /\ i = 0 /\ W \in Nat
      /\ n' = Magnitude(a) /\ d' = Magnitude(b) /\ x' = x /\ h' = h /\ i' = i
      /\ fn' = fn /\ a' = a /\ b' = b
  BY Width DEF StartDivide, CallInv, Integral, args
<1>2. Magnitude(a)' = Magnitude(a) /\ Magnitude(b)' = Magnitude(b)
  BY <1>1 DEF Magnitude, IsSigned
<1>3. n' \in dw_t /\ d' \in dw_t /\ U(d') > 0 /\ U(n') \in Nat /\ U(n') < BB /\ U(d') \in Nat
  BY <1>1, Magnitudes, Doubleword
<1>4. x' \in dw_t /\ h' \in dw_t /\ U(x') = 0 /\ U(h') = 0
  BY <1>1, ZeroTyped
<1>5. pow2[2 * W - i'] = BB /\ pow2[i'] = 1 /\ BB \in Nat \ {0} /\ i' \in 0..(2 * W)
  <2>1. 2 * W - 0 = 2 * W
    BY <1>1
  <2> QED BY <1>1, <2>1, Width, Powers
<1>6. ASSUME NEW l \in Nat, NEW v \in Nat, v > 0, l < BB
      PROVE  Partial(l, v, BB, 1, 0, 0, l)
  <2>1. BB * 1 = BB /\ l = (0 * v + 0) * BB + l /\ l = l * 1
    BY <1>5
  <2> QED BY <1>5, <1>6, <2>1 DEF Partial
<1>7. Partial(U(n'), U(d'), BB, 1, 0, 0, U(n'))
  BY <1>3, <1>6
<1> QED BY <1>1, <1>2, <1>3, <1>4, <1>5, <1>7 DEF LoopInv

LEMMA EndMoves ==
    ASSUME CallInv, LoopInv, EndDivide
    PROVE  QuotInv'
<1>1. /\ pc = "loop" /\ i = 2 * W /\ fn \in Divides /\ a \in dw_t /\ b \in dw_t /\ b # Zero /\ d = Magnitude(b)
      /\ x \in dw_t /\ h \in dw_t /\ W \in Nat
      /\ Partial(U(Magnitude(a)), U(d), pow2[2 * W - i], pow2[i], U(x), U(h), U(n))
  BY Width DEF LoopInv, EndDivide, CallInv, Integral
<1>2. pc' = "ret" /\ ret' = Result(x, h) /\ fn' = fn /\ a' = a /\ b' = b
  BY DEF EndDivide, Return, args
<1>3. pow2[2 * W - i] = 1
  <2>1. 2 * W - i = 0
    BY <1>1
  <2> QED BY <2>1, Powers
<1>4. ASSUME NEW m, NEW v, NEW e, NEW f, NEW y, NEW z, NEW l, e = 1, Partial(m, v, e, f, y, z, l)
      PROVE  m = y * v + z /\ z < v
  <2>1. m \in Nat /\ v \in Nat /\ y \in Nat /\ z \in Nat /\ z < v
    BY <1>4 DEF Partial
  <2>2. PICK r \in Nat : r < 1 /\ m = (y * v + z) * 1 + r
    BY <1>4 DEF Partial
  <2> QED BY <2>1, <2>2
<1>5. U(Magnitude(a)) = U(x) * U(d) + U(h) /\ U(h) < U(d)
  BY <1>1, <1>3, <1>4
<1>6. IF IsSigned THEN U(Result(x, h)) = Divided(S(a), S(b)) % (B * B)
                  ELSE U(Result(x, h)) = Divided(U(a), U(b))
  BY <1>1, <1>5, Results
<1> QED BY <1>2, <1>6 DEF QuotInv, IsSigned, Divided

\* udivmod's short way.
LEMMA WordMoves ==
    ASSUME CallInv, DivideWord
    PROVE  QuotInv'
<1> DEFINE m == Magnitude(a)
           v == Magnitude(b)
           q == m.lo \div v.lo
           y == [hi |-> 0, lo |-> q]
           z == [hi |-> 0, lo |-> m.lo - q * v.lo]
<1>1. /\ fn \in Divides /\ a \in dw_t /\ b \in dw_t /\ b # Zero /\ m.hi = 0 /\ v.hi = 0
      /\ pc' = "ret" /\ ret' = Result(y, z) /\ fn' = fn /\ a' = a /\ b' = b
  BY DEF DivideWord, Return, CallInv, Integral, args
<1>2. /\ m \in dw_t /\ v \in dw_t /\ U(v) > 0
      /\ m.lo \in Nat /\ v.lo \in Nat /\ m.lo < B /\ v.lo < B /\ B \in Nat
      /\ U(m) = 0 * B + m.lo /\ U(v) = 0 * B + v.lo
  <2>1. m \in dw_t /\ v \in dw_t /\ U(v) > 0
    BY <1>1, Magnitudes
  <2> HIDE DEF m, v
  <2> QED BY <1>1, <2>1, Doubleword, Width
<1> HIDE DEF m, v
<1>3. U(m) = m.lo /\ U(v) = v.lo /\ v.lo > 0
  BY <1>2
<1>4. ASSUME NEW p \in Nat, NEW e \in Nat \ {0}
      PROVE  /\ p \div e \in Nat /\ p \div e <= p /\ p - (p \div e) * e \in Nat /\ p - (p \div e) * e < e
             /\ p - (p \div e) * e <= p
  OBVIOUS
<1>5. q \in Nat /\ q <= m.lo /\ m.lo - q * v.lo \in Nat /\ m.lo - q * v.lo < v.lo /\ m.lo - q * v.lo <= m.lo
  <2>1. v.lo \in Nat \ {0} /\ m.lo \in Nat
    BY <1>2, <1>3
  <2> QED BY <1>4, <2>1
<1> HIDE DEF q
<1>6. q \in 0..(B - 1) /\ m.lo - q * v.lo \in 0..(B - 1) /\ 0 \in 0..(B - 1)
  BY <1>2, <1>5
<1>7. /\ y \in dw_t /\ U(y) = 0 * B + q
      /\ z \in dw_t /\ U(z) = 0 * B + (m.lo - q * v.lo)
  BY <1>6, Paired
<1>8. U(y) = q /\ U(z) = m.lo - q * v.lo
  BY <1>2, <1>5, <1>7
<1> HIDE DEF y, z
<1>9. m.lo = q * v.lo + (m.lo - q * v.lo)
  BY <1>2, <1>5
<1>10. U(m) = U(y) * U(v) + U(z) /\ U(z) < U(v)
  BY <1>3, <1>5, <1>8, <1>9
<1>11. IF IsSigned THEN U(Result(y, z)) = Divided(S(a), S(b)) % (B * B)
                   ELSE U(Result(y, z)) = Divided(U(a), U(b))
  BY <1>1, <1>7, <1>10, Results DEF m, v
<1> QED BY <1>1, <1>11 DEF QuotInv, IsSigned, Divided

LEMMA QuotMoves ==
    ASSUME CallInv, LoopInv, QuotInv, [Next]_vars
    PROVE  LoopInv' /\ QuotInv'
<1>1. CASE DivideByZero
  BY <1>1 DEF DivideByZero, LoopInv, QuotInv, args, regs
<1>2. CASE DivideWord
  <2>1. pc' = "ret"
    BY <1>2 DEF DivideWord, Return
  <2> QED BY <1>2, <2>1, WordMoves DEF LoopInv
<1>3. CASE StartDivide
  <2>1. pc' = "loop"
    BY <1>3 DEF StartDivide
  <2> QED BY <1>3, <2>1, StartMoves DEF QuotInv
<1>4. CASE Round
  <2>1. pc' = "loop"
    BY <1>4 DEF Round
  <2> QED BY <1>4, <2>1, RoundMoves DEF QuotInv
<1>5. CASE EndDivide
  <2>1. pc' = "ret"
    BY <1>5 DEF EndDivide, Return
  <2> QED BY <1>5, <2>1, EndMoves DEF LoopInv
<1>6. ASSUME fn \notin Divides, fn' = fn, pc' \in {"ret", "abort"} PROVE LoopInv' /\ QuotInv'
  BY <1>6 DEF LoopInv, QuotInv
<1>7. CASE muldi3 \/ negdi2 \/ cmpdi2
  BY <1>6, <1>7 DEF muldi3, negdi2, cmpdi2, Return, args, Divides
<1>8. CASE addvdi3 \/ subvdi3 \/ negvdi2
  BY <1>6, <1>8 DEF addvdi3, subvdi3, negvdi2, ReturnUnless, Abort, Return, args, Divides
<1>9. CASE mulvsi3 \/ mulvdi3
  BY <1>6, <1>9 DEF mulvsi3, mulvdi3, ReturnUnless, Abort, Return, args, Divides
<1>10. CASE fixdfdi \/ hfp_float
  BY <1>6, <1>10 DEF fixdfdi, hfp_float, Return, args, Divides, Floats, Fixes
<1>11. CASE UNCHANGED vars
  BY <1>11 DEF vars, LoopInv, QuotInv, Magnitude, IsSigned, Divided
<1> QED BY <1>1, <1>2, <1>3, <1>4, <1>5, <1>7, <1>8, <1>9, <1>10, <1>11 DEF Next

LEMMA CallStarts == Init => CallInv /\ LoopInv /\ QuotInv
<1> SUFFICES ASSUME Init PROVE CallInv /\ LoopInv /\ QuotInv
  OBVIOUS
<1>1. Zero \in dw_t
  BY ZeroTyped
<1>2. \A p \in Args : p[1] \in dw_t /\ p[2] \in dw_t
  BY ArgsAssumption
<1>3. pc = "call" /\ x = Zero /\ h = Zero /\ i = 0
  BY DEF Init
<1>4. fn \in Integral \cup Floats \cup Fixes /\ (fn \in Integral => a \in dw_t /\ b \in dw_t)
  BY <1>1, <1>2 DEF Init, Integral, Divides, Traps, Wraps, Floats, Fixes
<1> QED BY <1>3, <1>4 DEF CallInv, LoopInv, QuotInv

\* For words of any width and all arguments, quotient and remainder are C's, a
\* zero divisor and nothing else abends, and each round of the loop keeps the
\* dividend bits so far (@@divdi3.c).
THEOREM DivisionTruncates == Spec => []DivTruncates
<1>1. Init => CallInv /\ LoopInv /\ QuotInv
  BY CallStarts
<1>2. CallInv /\ LoopInv /\ QuotInv /\ [Next]_vars => (CallInv /\ LoopInv /\ QuotInv)'
  BY CallMoves, QuotMoves
<1>3. CallInv /\ LoopInv /\ QuotInv => DivTruncates
  <2> SUFFICES ASSUME CallInv, LoopInv, QuotInv PROVE DivTruncates
    OBVIOUS
  <2>1. ASSUME NEW m, NEW v, NEW e, NEW f, NEW y, NEW z, NEW l, Partial(m, v, e, f, y, z, l)
        PROVE  y * v + z = m \div e /\ z < v
    <3>1. m \in Nat /\ v \in Nat /\ e \in Nat \ {0} /\ y \in Nat /\ z \in Nat /\ z < v
      BY <2>1 DEF Partial
    <3>2. PICK r \in Nat : r < e /\ m = (y * v + z) * e + r
      BY <2>1 DEF Partial
    <3>3. y * v + z \in Nat
      BY <3>1
    <3>4. ASSUME NEW k \in Nat, m = k * e + r PROVE m \div e = k
      BY <3>1, <3>2, <3>4
    <3> QED BY <3>1, <3>2, <3>3, <3>4
  <2>2. pc = "loop" => /\ U(x) * U(d) + U(h) = U(Magnitude(a)) \div pow2[2 * W - i]
                       /\ U(h) < U(d)
    BY <2>1 DEF LoopInv
  <2> QED BY <2>2 DEF DivTruncates, QuotInv
<1> QED BY <1>1, <1>2, <1>3, PTL DEF Spec

(***************************************************************************)
(* Sums, differences and comparisons.                                      *)
(***************************************************************************)

\* The two's complement of m, half of it l, in numbers: what p stands for.
SignedOf(p, l) == IF p < l THEN p ELSE p - 2 * l

LEMMA SignedSum ==
    ASSUME NEW l \in Nat \ {0}, NEW p \in Nat, NEW q \in Nat, p < 2 * l, q < 2 * l,
           NEW s \in Nat, s = IF p + q >= 2 * l THEN p + q - 2 * l ELSE p + q
    PROVE  /\ (p >= l <=> q >= l) /\ ~(p >= l <=> s >= l)
                 <=> ~(-l <= SignedOf(p, l) + SignedOf(q, l) /\ SignedOf(p, l) + SignedOf(q, l) < l)
           /\ (SignedOf(p, l) + SignedOf(q, l)) % (2 * l) = s
<1>1. /\ (p >= l <=> q >= l) /\ ~(p >= l <=> s >= l)
            <=> ~(-l <= SignedOf(p, l) + SignedOf(q, l) /\ SignedOf(p, l) + SignedOf(q, l) < l)
  BY DEF SignedOf
<1>2. ASSUME NEW v \in Int, v = SignedOf(p, l) + SignedOf(q, l) PROVE v % (2 * l) = s
  <2> DEFINE m == 2 * l
  <2>1. m \in Nat \ {0} /\ s < m
    OBVIOUS
  <2>2. v = s \/ v = s - m \/ v = s - 2 * m \/ v = s + m
    BY <1>2 DEF SignedOf
  <2>3. \E k \in Int : v = k * m + s
    <3>1. s = 0 * m + s /\ s - m = (-1) * m + s /\ s - 2 * m = (-2) * m + s /\ s + m = 1 * m + s
      BY <2>1
    <3>2. 0 \in Int /\ -1 \in Int /\ -2 \in Int /\ 1 \in Int
      OBVIOUS
    <3> HIDE DEF m
    <3> QED BY <2>2, <3>1, <3>2
  <2> HIDE DEF m
  <2>4. v % m = s
    BY <2>1, <2>3, Modulo
  <2> QED BY <2>4 DEF m
<1>3. SignedOf(p, l) + SignedOf(q, l) \in Int
  BY DEF SignedOf
<1> QED BY <1>1, <1>2, <1>3

LEMMA SignedDifference ==
    ASSUME NEW l \in Nat \ {0}, NEW p \in Nat, NEW q \in Nat, p < 2 * l, q < 2 * l,
           NEW s \in Nat, s = IF p >= q THEN p - q ELSE p - q + 2 * l
    PROVE  /\ ~(p >= l <=> q >= l) /\ ~(p >= l <=> s >= l)
                 <=> ~(-l <= SignedOf(p, l) - SignedOf(q, l) /\ SignedOf(p, l) - SignedOf(q, l) < l)
           /\ (SignedOf(p, l) - SignedOf(q, l)) % (2 * l) = s
<1>1. /\ ~(p >= l <=> q >= l) /\ ~(p >= l <=> s >= l)
            <=> ~(-l <= SignedOf(p, l) - SignedOf(q, l) /\ SignedOf(p, l) - SignedOf(q, l) < l)
  BY DEF SignedOf
<1>2. ASSUME NEW v \in Int, v = SignedOf(p, l) - SignedOf(q, l) PROVE v % (2 * l) = s
  <2> DEFINE m == 2 * l
  <2>1. m \in Nat \ {0} /\ s < m
    OBVIOUS
  <2>2. v = s \/ v = s - m \/ v = s - 2 * m \/ v = s + m
    BY <1>2 DEF SignedOf
  <2>3. \E k \in Int : v = k * m + s
    <3>1. s = 0 * m + s /\ s - m = (-1) * m + s /\ s - 2 * m = (-2) * m + s /\ s + m = 1 * m + s
      BY <2>1
    <3>2. 0 \in Int /\ -1 \in Int /\ -2 \in Int /\ 1 \in Int
      OBVIOUS
    <3> HIDE DEF m
    <3> QED BY <2>2, <3>1, <3>2
  <2> HIDE DEF m
  <2>4. v % m = s
    BY <2>1, <2>3, Modulo
  <2> QED BY <2>4 DEF m
<1>3. SignedOf(p, l) - SignedOf(q, l) \in Int
  BY DEF SignedOf
<1> QED BY <1>1, <1>2, <1>3

\* A double word and a sum of double words by their numbers.
LEMMA Signs ==
    ASSUME NEW v \in dw_t
    PROVE  S(v) = SignedOf(U(v), HH) /\ U(v) \in Nat /\ U(v) < 2 * HH /\ HH \in Nat \ {0} /\ B * B = 2 * HH
BY Doubleword, Width DEF SignedOf, BB

Added(v, w) ==
    LET lo == (v.lo + w.lo) % B
    IN [hi |-> (v.hi + w.hi + Bit(lo < v.lo)) % B, lo |-> lo]

LEMMA DigitsAdded ==
    ASSUME NEW m \in Int, NEW p \in Int, NEW q \in Int, NEW e \in Int, NEW f \in Int,
           NEW c \in Int, NEW t \in Int
    PROVE  (p + q + c - t * m) * m + (e + f - c * m) = (p * m + e) + (q * m + f) - t * (m * m)
OBVIOUS

LEMMA Adds ==
    ASSUME NEW v \in dw_t, NEW w \in dw_t
    PROVE  /\ Added(v, w) \in dw_t
           /\ U(Added(v, w)) = IF U(v) + U(w) >= BB THEN U(v) + U(w) - BB ELSE U(v) + U(w)
<1>1. /\ v.hi \in Nat /\ v.lo \in Nat /\ v.hi < B /\ v.lo < B /\ B \in Nat \ {0} /\ U(v) = v.hi * B + v.lo
      /\ w.hi \in Nat /\ w.lo \in Nat /\ w.hi < B /\ w.lo < B /\ U(w) = w.hi * B + w.lo
      /\ U(v) \in Nat /\ U(w) \in Nat /\ U(v) < BB /\ U(w) < BB /\ BB \in Nat
  BY Doubleword, Width
<1> DEFINE c == IF v.lo + w.lo >= B THEN 1 ELSE 0
           l == v.lo + w.lo - c * B
           k == v.hi + w.hi + c
           t == IF k >= B THEN 1 ELSE 0
           y == k - t * B
<1>2. c \in {0, 1} /\ t \in {0, 1} /\ k \in Int /\ l \in 0..(B - 1) /\ y \in 0..(B - 1)
  BY <1>1
<1>3. (v.lo + w.lo) % B = l
  <2>1. v.lo + w.lo \in Int /\ 0 <= v.lo + w.lo /\ v.lo + w.lo < 2 * B
    BY <1>1
  <2>2. l = IF v.lo + w.lo >= B THEN v.lo + w.lo - B ELSE v.lo + w.lo
    BY <1>1
  <2> HIDE DEF l
  <2> QED BY <1>1, <2>1, <2>2, ModuloSum
<1>4. (v.hi + w.hi + Bit(l < v.lo)) % B = y
  <2>1. Bit(l < v.lo) = c
    BY <1>1 DEF Bit
  <2>2. 0 <= k /\ k < 2 * B
    BY <1>1
  <2>3. y = IF k >= B THEN k - B ELSE k
    BY <1>1
  <2> HIDE DEF l, y, c
  <2>4. k % B = y
    <3> HIDE DEF k
    <3> QED BY <1>1, <1>2, <2>2, <2>3, ModuloSum
  <2> QED BY <2>1, <2>4
<1>5. Added(v, w) = [hi |-> y, lo |-> l]
  <2> HIDE DEF l, y
  <2> QED BY <1>3, <1>4 DEF Added
<1>6. Added(v, w) \in dw_t /\ U(Added(v, w)) = y * B + l
  <2> HIDE DEF y, l
  <2> QED BY <1>2, <1>5, Paired
<1>7. y * B + l = U(v) + U(w) - t * BB
  <2>1. y = v.hi + w.hi + c - t * B /\ l = v.lo + w.lo - c * B
    BY <1>1, <1>2
  <2> HIDE DEF y, l, c, t, k
  <2>3. (v.hi + w.hi + c - t * B) * B + (v.lo + w.lo - c * B)
        = (v.hi * B + v.lo) + (w.hi * B + w.lo) - t * (B * B)
    <3>1. v.hi \in Int /\ w.hi \in Int /\ v.lo \in Int /\ w.lo \in Int /\ c \in Int /\ t \in Int /\ B \in Int
      BY <1>1, <1>2
    <3> QED BY <3>1, DigitsAdded
  <2> QED BY <1>1, <2>1, <2>3 DEF BB
<1>8. U(Added(v, w)) \in Nat /\ U(Added(v, w)) < BB
  BY <1>6, Doubleword
<1> HIDE DEF y, l, k
<1>9. CASE t = 0
  BY <1>1, <1>6, <1>7, <1>8, <1>9
<1>10. CASE t = 1
  BY <1>1, <1>6, <1>7, <1>8, <1>10
<1> QED BY <1>2, <1>9, <1>10
(***************************************************************************)
(* Products.                                                               *)
(***************************************************************************)

LEMMA QuotientAndRest ==
    ASSUME NEW m \in Nat \ {0}, NEW v \in Nat
    PROVE  v \div m \in Nat /\ v % m \in Nat /\ v % m < m /\ v = ((v \div m) * m) + (v % m)
OBVIOUS

\* The columns of a product of two numbers of two digits to the base m.
LEMMA Columns ==
    ASSUME NEW m \in Nat \ {0}, NEW p \in Nat, NEW e \in Nat, NEW q \in Nat, NEW f \in Nat,
           NEW c \in Nat, NEW t \in Nat, NEW k \in Nat, NEW l \in Nat, NEW y \in Nat, NEW z \in Nat,
           NEW u \in Nat, NEW w \in Nat,
           e * f = c * m + t, e * q = k * m + l, p * f = y * m + z, c + l + z = u * m + w
    PROVE  (p * q + k + y + u) * (m * m) + (t + w * m) = (p * m + e) * (q * m + f)
<1>1. (p * m + e) * (q * m + f) = (p * q) * (m * m) + (p * f + e * q) * m + e * f
  OBVIOUS
<1>2. (p * f + e * q) * m + e * f = (y * m + z + k * m + l) * m + c * m + t
  OBVIOUS
<1>3. (y * m + z + k * m + l) * m + c * m + t = (y + k) * (m * m) + (c + l + z) * m + t
  OBVIOUS
<1>4. (c + l + z) * m + t = u * (m * m) + (t + w * m)
  OBVIOUS
<1> DEFINE g == m * m
           j == p * q
<1>5. (j + k + y + u) * g = j * g + (y + k) * g + u * g
  <2> HIDE DEF g, j
  <2>1. g \in Nat /\ j \in Nat
    BY DEF g, j
  <2> QED BY <2>1
<1> QED BY <1>1, <1>2, <1>3, <1>4, <1>5

LEMMA BelowSquare ==
    ASSUME NEW m \in Nat \ {0}, NEW p \in Nat, NEW q \in Nat, p < m, q < m
    PROVE  p * q \in Nat /\ p * q < m * m
<1>1. p * q <= p * m
  OBVIOUS
<1>2. p * m <= (m - 1) * m
  OBVIOUS
<1>3. (m - 1) * m < m * m
  OBVIOUS
<1> QED BY <1>1, <1>2, <1>3

LEMMA FirstDigit ==
    ASSUME NEW m \in Nat \ {0}, NEW p \in Nat, NEW q \in Nat, p * m + q < m * m
    PROVE  p < m
<1> SUFFICES ASSUME p >= m PROVE FALSE
  OBVIOUS
<1>1. p * m >= m * m
  OBVIOUS
<1> QED BY <1>1

\* mul32 is the whole product.
LEMMA Multiplies ==
    ASSUME NEW p \in 0..(B - 1), NEW q \in 0..(B - 1)
    PROVE  mul32(p, q) \in dw_t /\ U(mul32(p, q)) = p * q
<1> DEFINE m == HALF
           pl == p % m
           ph == p \div m
           ql == q % m
           qh == q \div m
<1>1. m \in Nat \ {0} /\ m * m = B /\ B \in Nat \ {0} /\ p \in Nat /\ q \in Nat /\ p < B /\ q < B
  BY Width
<1> HIDE DEF m
<1>2. /\ pl \in Nat /\ ph \in Nat /\ ql \in Nat /\ qh \in Nat /\ p = ph * m + pl /\ q = qh * m + ql
  BY <1>1, QuotientAndRest
<1> HIDE DEF pl, ph, ql, qh
<1>3. pl * ql \in Nat /\ pl * qh \in Nat /\ ph * ql \in Nat /\ ph * qh \in Nat
  BY <1>2
<1> DEFINE c == (pl * ql) \div m
           t == (pl * ql) % m
           k == (pl * qh) \div m
           l == (pl * qh) % m
           y == (ph * ql) \div m
           z == (ph * ql) % m
<1>4. c \in Nat /\ t \in Nat /\ t < m /\ pl * ql = c * m + t
  BY <1>1, <1>3, QuotientAndRest
<1>5. k \in Nat /\ l \in Nat /\ pl * qh = k * m + l
  BY <1>1, <1>3, QuotientAndRest
<1>6. y \in Nat /\ z \in Nat /\ ph * ql = y * m + z
  BY <1>1, <1>3, QuotientAndRest
<1> HIDE DEF c, t, k, l, y, z
<1> DEFINE mid == c + l + z
           u == mid \div m
           w == mid % m
<1>7. mid \in Nat /\ u \in Nat /\ w \in Nat /\ w < m /\ mid = u * m + w
  <2>1. mid \in Nat
    BY <1>4, <1>5, <1>6
  <2> HIDE DEF mid
  <2> QED BY <1>1, <2>1, QuotientAndRest
<1> HIDE DEF u, w
<1> DEFINE hi == ph * qh + k + y + u
           lo == t + w * m
<1>8. hi * B + lo = p * q
  <2>1. c + l + z = u * m + w
    BY <1>7
  <2>2. hi * (m * m) + lo = (ph * m + pl) * (qh * m + ql)
    BY <1>1, <1>2, <1>4, <1>5, <1>6, <1>7, <2>1, Columns
  <2> QED BY <1>1, <1>2, <2>2
<1>9. hi \in Nat
  BY <1>3, <1>5, <1>6, <1>7
<1>10. w * m \in Nat /\ w * m <= B - m /\ lo \in Nat /\ lo < B
  <2>1. w * m \in Nat /\ w * m <= (m - 1) * m
    BY <1>1, <1>7
  <2>2. (m - 1) * m = B - m
    BY <1>1
  <2> QED BY <1>1, <1>4, <2>1, <2>2
<1>11. (mid * m) % B = w * m
  <2> HIDE DEF mid
  <2>1. mid * m = u * (m * m) + w * m
    BY <1>1, <1>7
  <2>2. mid * m = u * B + w * m /\ mid * m \in Int
    BY <1>1, <1>7, <2>1
  <2>3. w * m < B
    BY <1>1, <1>10
  <2> QED BY <1>1, <1>7, <1>10, <2>2, <2>3, Modulo
<1> HIDE DEF hi, lo
<1>12. hi < B
  <2>1. hi * B + lo < B * B
    BY <1>1, <1>8, BelowSquare
  <2> QED BY <1>1, <1>9, <1>10, <2>1, FirstDigit
<1>13. hi % B = hi
  BY <1>1, <1>9, <1>12, ModuloOnce
<1>14. mul32(p, q) = [hi |-> hi, lo |-> lo]
  <2>1. mul32(p, q) = [hi |-> (ph * qh + k + y + u) % B, lo |-> t + ((mid * m) % B)]
    BY DEF mul32, m, pl, ph, ql, qh, c, t, k, l, y, z, u
  <2> QED BY <1>11, <1>13, <2>1 DEF hi, lo
<1>15. hi \in 0..(B - 1) /\ lo \in 0..(B - 1)
  BY <1>1, <1>9, <1>10, <1>12
<1> QED BY <1>8, <1>14, <1>15, Paired
(***************************************************************************)
(* The helpers that add, multiply, negate and compare.                     *)
(***************************************************************************)

\* The result stays what the arguments make it.
LEMMA ExactStays ==
    ASSUME fn' = fn, a' = a, b' = b
    PROVE  Exact' = Exact /\ (Fits(Exact)' <=> Fits(Exact)) /\ S(a)' = S(a) /\ S(b)' = S(b)
<1>1. S(a)' = S(a) /\ S(b)' = S(b)
  BY DEF S, U
<1>2. Exact' = Exact
  BY <1>1 DEF Exact, Bit
<1>3. Fits(Exact)' <=> Fits(Exact)
  BY <1>2 DEF Fits
<1> QED BY <1>1, <1>2, <1>3

\* A helper that aborts just when the result does not fit.
LEMMA Settled ==
    ASSUME fn \in {"addvdi3", "subvdi3", "mulvdi3", "negvdi2"},
           NEW over \in BOOLEAN, NEW v, ReturnUnless(over, v),
           Exact \in Int, over <=> ~(-HH <= Exact /\ Exact < HH),
           ~over => U(v) = Exact % (B * B)
    PROVE  OverflowExact'
<1>1. fn' = fn /\ a' = a /\ b' = b
  BY DEF ReturnUnless, Return, Abort, args
<1>2. over <=> ~Fits(Exact)
  <2>1. MINS = -HH /\ MAXS = HH - 1 /\ HH \in Nat
    BY Width DEF MINS, MAXS, HH
  <2>2. fn # "mulvsi3"
    OBVIOUS
  <2>3. Exact \in MINS..MAXS <=> -HH <= Exact /\ Exact < HH
    BY <2>1
  <2> QED BY <2>2, <2>3 DEF Fits
<1>3. CASE over
  <2>1. pc' = "abort"
    BY <1>3 DEF ReturnUnless, Abort
  <2> QED BY <1>1, <1>2, <1>3, <2>1, ExactStays DEF OverflowExact, Traps
<1>4. CASE ~over
  <2>1. pc' = "ret" /\ ret' = v
    BY <1>4 DEF ReturnUnless, Return
  <2>2. U(ret)' = Exact % (B * B)
    BY <1>4, <2>1 DEF U
  <2> QED BY <1>1, <1>2, <1>4, <2>1, <2>2, ExactStays DEF OverflowExact, Traps
<1> QED BY <1>3, <1>4

LEMMA AddMoves == CallInv /\ addvdi3 => OverflowExact'
<1> SUFFICES ASSUME CallInv, addvdi3 PROVE OverflowExact'
  OBVIOUS
<1>1. fn = "addvdi3" /\ a \in dw_t /\ b \in dw_t
  BY DEF addvdi3, CallInv, Integral, Traps
<1> DEFINE r == Added(a, b)
           over == Neg(a) = Neg(b) /\ Neg(a) # Neg(r)
<1>2. ReturnUnless(over, r)
  BY DEF addvdi3, Added
<1>3. r \in dw_t /\ U(r) = IF U(a) + U(b) >= BB THEN U(a) + U(b) - BB ELSE U(a) + U(b)
  BY <1>1, Adds
<1> HIDE DEF r
<1>4. Exact = S(a) + S(b)
  BY <1>1 DEF Exact
<1>5. /\ U(a) \in Nat /\ U(b) \in Nat /\ U(a) < 2 * HH /\ U(b) < 2 * HH /\ U(r) \in Nat
      /\ HH \in Nat \ {0} /\ BB = 2 * HH /\ B * B = 2 * HH
      /\ S(a) = SignedOf(U(a), HH) /\ S(b) = SignedOf(U(b), HH)
      /\ S(a) \in Int /\ S(b) \in Int
      /\ (Neg(a) <=> U(a) >= HH) /\ (Neg(b) <=> U(b) >= HH) /\ (Neg(r) <=> U(r) >= HH)
  BY <1>1, <1>3, Signs, Doubleword, Width
<1>6. /\ (U(a) >= HH <=> U(b) >= HH) /\ ~(U(a) >= HH <=> U(r) >= HH)
            <=> ~(-HH <= S(a) + S(b) /\ S(a) + S(b) < HH)
      /\ (S(a) + S(b)) % (2 * HH) = U(r)
  BY <1>3, <1>5, SignedSum
<1>7. over <=> ~(-HH <= Exact /\ Exact < HH)
  <2>1. over <=> (Neg(a) <=> Neg(b)) /\ ~(Neg(a) <=> Neg(r))
    BY DEF Neg
  <2> QED BY <1>4, <1>5, <1>6, <2>1
<1>8. U(r) = Exact % (B * B) /\ Exact \in Int
  BY <1>4, <1>5, <1>6
<1>9. over \in BOOLEAN
  OBVIOUS
<1> HIDE DEF over
<1> QED BY <1>1, <1>2, <1>7, <1>8, <1>9, Settled

LEMMA SubtractMoves == CallInv /\ subvdi3 => OverflowExact'
<1> SUFFICES ASSUME CallInv, subvdi3 PROVE OverflowExact'
  OBVIOUS
<1>1. fn = "subvdi3" /\ a \in dw_t /\ b \in dw_t
  BY DEF subvdi3, CallInv, Integral, Traps
<1> DEFINE r == Subtracted(a, b)
           over == Neg(a) # Neg(b) /\ Neg(a) # Neg(r)
<1>2. ReturnUnless(over, r)
  BY DEF subvdi3
<1>3. r \in dw_t /\ U(r) = IF U(a) >= U(b) THEN U(a) - U(b) ELSE U(a) - U(b) + BB
  BY <1>1, Subtracts
<1> HIDE DEF r
<1>4. Exact = S(a) - S(b)
  BY <1>1 DEF Exact
<1>5. /\ U(a) \in Nat /\ U(b) \in Nat /\ U(a) < 2 * HH /\ U(b) < 2 * HH /\ U(r) \in Nat
      /\ HH \in Nat \ {0} /\ BB = 2 * HH /\ B * B = 2 * HH
      /\ S(a) = SignedOf(U(a), HH) /\ S(b) = SignedOf(U(b), HH)
      /\ S(a) \in Int /\ S(b) \in Int
      /\ (Neg(a) <=> U(a) >= HH) /\ (Neg(b) <=> U(b) >= HH) /\ (Neg(r) <=> U(r) >= HH)
  BY <1>1, <1>3, Signs, Doubleword, Width
<1>6. /\ ~(U(a) >= HH <=> U(b) >= HH) /\ ~(U(a) >= HH <=> U(r) >= HH)
            <=> ~(-HH <= S(a) - S(b) /\ S(a) - S(b) < HH)
      /\ (S(a) - S(b)) % (2 * HH) = U(r)
  BY <1>3, <1>5, SignedDifference
<1>7. over <=> ~(-HH <= Exact /\ Exact < HH)
  <2>1. over <=> ~(Neg(a) <=> Neg(b)) /\ ~(Neg(a) <=> Neg(r))
    BY DEF Neg
  <2> QED BY <1>4, <1>5, <1>6, <2>1
<1>8. U(r) = Exact % (B * B) /\ Exact \in Int
  BY <1>4, <1>5, <1>6
<1>9. over \in BOOLEAN
  OBVIOUS
<1> HIDE DEF over
<1> QED BY <1>1, <1>2, <1>7, <1>8, <1>9, Settled

\* The negated number, modulo the width.
LEMMA Negated ==
    ASSUME NEW v \in dw_t
    PROVE  U(negate(v)) = (-S(v)) % (B * B)
<1>1. /\ U(v) \in Nat /\ U(v) < BB /\ HH \in Nat \ {0} /\ BB = 2 * HH /\ BB \in Nat \ {0}
      /\ S(v) = IF U(v) < HH THEN U(v) ELSE U(v) - BB
  BY Doubleword, Width
<1>2. U(negate(v)) = IF U(v) = 0 THEN 0 ELSE BB - U(v)
  BY Negates
<1>3. ASSUME NEW e \in Int, e = -S(v) PROVE e % BB = U(negate(v))
  <2>1. CASE U(v) = 0
    <3>1. S(v) = 0 /\ e + S(v) = 0
      BY <1>1, <1>3, <2>1
    <3>2. e = 0 /\ 0 < BB
      BY <1>1, <3>1
    <3> QED BY <1>1, <1>2, <2>1, <3>2, ModuloOnce
  <2>2. CASE U(v) # 0 /\ U(v) < HH
    <3>1. e = -U(v) /\ e < 0 /\ -BB <= e /\ e + BB = BB - U(v)
      BY <1>1, <1>3, <2>2
    <3> QED BY <1>1, <1>2, <2>2, <3>1, ModuloOnce
  <2>3. CASE U(v) >= HH
    <3>1. e = BB - U(v) /\ 0 <= e /\ e < BB /\ U(v) # 0
      BY <1>1, <1>3, <2>3
    <3>2. e % BB = e
      BY <1>1, <3>1, ModuloOnce
    <3> QED BY <1>2, <3>1, <3>2
  <2> QED BY <1>1, <2>1, <2>2, <2>3
<1>4. -S(v) \in Int
  BY <1>1
<1> QED BY <1>3, <1>4 DEF BB

\* The one number without a negative.
LEMMA Smallest ==
    /\ [hi |-> SIGN, lo |-> 0] \in dw_t
    /\ U([hi |-> SIGN, lo |-> 0]) = HH
    /\ \A v \in dw_t : v = [hi |-> SIGN, lo |-> 0] <=> U(v) = HH
<1>1. SIGN \in 0..(B - 1) /\ 0 \in 0..(B - 1) /\ SIGN * B + 0 = HH
  BY Width DEF HH
<1>2. [hi |-> SIGN, lo |-> 0] \in dw_t /\ U([hi |-> SIGN, lo |-> 0]) = HH
  BY <1>1, Paired
<1> QED BY <1>2, SameWords

LEMMA NegateMoves == CallInv /\ (negvdi2 \/ negdi2) => OverflowExact'
<1> SUFFICES ASSUME CallInv, negvdi2 \/ negdi2 PROVE OverflowExact'
  OBVIOUS
<1>1. fn \in {"negvdi2", "negdi2"} /\ a \in dw_t
  BY DEF negvdi2, negdi2, CallInv, Integral, Traps, Wraps
<1>2. Exact = -S(a)
  BY <1>1 DEF Exact
<1>3. U(negate(a)) = Exact % (B * B)
  BY <1>1, <1>2, Negated
<1>4. CASE negvdi2
  <2> DEFINE over == a = [hi |-> SIGN, lo |-> 0]
  <2>1. fn = "negvdi2" /\ ReturnUnless(over, negate(a)) /\ over \in BOOLEAN
    BY <1>4 DEF negvdi2
  <2>2. over <=> U(a) = HH
    BY <1>1, Smallest
  <2> HIDE DEF over
  <2>3. /\ U(a) \in Nat /\ U(a) < BB /\ HH \in Nat \ {0} /\ BB = 2 * HH
        /\ S(a) = IF U(a) < HH THEN U(a) ELSE U(a) - BB
    BY <1>1, Doubleword, Width
  <2>4. Exact \in Int /\ (over <=> ~(-HH <= Exact /\ Exact < HH))
    BY <1>2, <2>2, <2>3
  <2> QED BY <1>3, <2>1, <2>4, Settled
<1>5. CASE negdi2
  <2>1. pc' = "ret" /\ ret' = negate(a) /\ fn' = fn /\ a' = a /\ b' = b /\ fn = "negdi2"
    BY <1>5 DEF negdi2, Return, args
  <2>2. U(ret)' = Exact % (B * B)
    BY <1>3, <2>1 DEF U
  <2> QED BY <2>1, <2>2, ExactStays DEF OverflowExact, Traps
<1> QED BY <1>4, <1>5
\* A signed number by its words: the high one signed, the low one not.
SignedWord(w) == IF w >= SIGN THEN w - B ELSE w

LEMMA SignedWords ==
    ASSUME NEW v \in dw_t
    PROVE  SignedWord(v.hi) \in Int /\ S(v) = SignedWord(v.hi) * B + v.lo
<1>1. /\ v.hi \in Nat /\ v.lo \in Nat /\ B \in Nat \ {0} /\ SIGN \in Nat
      /\ U(v) = v.hi * B + v.lo
  BY Doubleword, Width
<1>2. (v.hi - B) * B = v.hi * B - B * B
  BY <1>1
<1> QED BY <1>1, <1>2 DEF SignedWord, S

LEMMA CompareMoves == CallInv /\ cmpdi2 => OverflowExact'
<1> SUFFICES ASSUME CallInv, cmpdi2 PROVE OverflowExact'
  OBVIOUS
<1>1. fn = "cmpdi2" /\ a \in dw_t /\ b \in dw_t
  BY DEF cmpdi2, CallInv, Integral, Wraps
<1> DEFINE less == SignedWord(a.hi) < SignedWord(b.hi) \/ (a.hi = b.hi /\ a.lo < b.lo)
<1>2. /\ pc' = "ret" /\ fn' = fn /\ a' = a /\ b' = b
      /\ ret' = [hi |-> 0, lo |-> IF less THEN 0 ELSE IF a = b THEN 1 ELSE 2]
  BY DEF cmpdi2, SignedWord, Return, args
<1>3. /\ a.hi \in Nat /\ a.lo \in Nat /\ a.lo < B /\ b.hi \in Nat /\ b.lo \in Nat /\ b.lo < B /\ B \in Nat
      /\ a.hi < B /\ b.hi < B /\ SIGN \in Nat /\ S(a) \in Int /\ S(b) \in Int
      /\ a = [hi |-> a.hi, lo |-> a.lo] /\ b = [hi |-> b.hi, lo |-> b.lo]
  BY <1>1, Doubleword, Width DEF dw_t
<1>4. /\ SignedWord(a.hi) \in Int /\ S(a) = SignedWord(a.hi) * B + a.lo
      /\ SignedWord(b.hi) \in Int /\ S(b) = SignedWord(b.hi) * B + b.lo
  BY <1>1, SignedWords
<1>5. Ordered(B, SignedWord(a.hi), a.lo, SignedWord(b.hi), b.lo)
  BY <1>3, <1>4, Digits
<1>6. SignedWord(a.hi) = SignedWord(b.hi) <=> a.hi = b.hi
  BY <1>3 DEF SignedWord
<1>7. /\ S(a) = S(b) <=> a.hi = b.hi /\ a.lo = b.lo
      /\ S(a) >= S(b) <=> SignedWord(a.hi) > SignedWord(b.hi) \/ (a.hi = b.hi /\ a.lo >= b.lo)
  BY <1>4, <1>5, <1>6 DEF Ordered
<1>8. less <=> S(a) < S(b)
  BY <1>3, <1>4, <1>6, <1>7
<1>9. a = b <=> S(a) = S(b)
  BY <1>3, <1>7
<1> HIDE DEF less
<1>10. ret'.lo = IF S(a) < S(b) THEN 0 ELSE IF S(a) = S(b) THEN 1 ELSE 2
  BY <1>2, <1>8, <1>9
<1> QED BY <1>1, <1>2, <1>10, ExactStays DEF OverflowExact, Traps

\* The low double word of a product, from its cross products modulo m.
Crossed(m, p, e, q, f, c, t, g, z) ==
    e * f = c * m + t /\ c + e * q + p * f = g * m + z
        => (p * m + e) * (q * m + f) = (p * q + g) * (m * m) + (z * m + t)

LEMMA CrossProducts ==
    ASSUME NEW m \in Nat \ {0}, NEW p \in Nat, NEW e \in Nat, NEW q \in Nat, NEW f \in Nat,
           NEW c \in Nat, NEW t \in Nat, NEW g \in Nat, NEW z \in Nat
    PROVE  Crossed(m, p, e, q, f, c, t, g, z)
<1> SUFFICES ASSUME e * f = c * m + t, c + e * q + p * f = g * m + z
             PROVE  (p * m + e) * (q * m + f) = (p * q + g) * (m * m) + (z * m + t)
  BY DEF Crossed
<1>1. (p * m + e) * (q * m + f) = (p * q) * (m * m) + (p * f + e * q) * m + e * f
  OBVIOUS
<1>2. (p * f + e * q) * m + (c * m + t) = (c + e * q + p * f) * m + t
  OBVIOUS
<1>3. (g * m + z) * m + t = g * (m * m) + (z * m + t)
  OBVIOUS
<1> DEFINE k == m * m
           j == p * q
<1>4. (j + g) * k = j * k + g * k
  <2> HIDE DEF k, j
  <2>1. k \in Int /\ j \in Int
    BY DEF k, j
  <2> QED BY <2>1
<1> QED BY <1>1, <1>2, <1>3, <1>4

\* Signs change a product by a multiple of the modulus.
SameModulo(m, p, q, j, k, g, c) ==
    c < m /\ p * q = g * m + c => ((p - j * m) * (q - k * m)) % m = c

LEMMA ProductModulo ==
    ASSUME NEW m \in Nat \ {0}, NEW p \in Nat, NEW q \in Nat, NEW j \in Int, NEW k \in Int,
           NEW g \in Nat, NEW c \in Nat
    PROVE  SameModulo(m, p, q, j, k, g, c)
<1> SUFFICES ASSUME c < m, p * q = g * m + c PROVE ((p - j * m) * (q - k * m)) % m = c
  BY DEF SameModulo
<1>1. (p - j * m) * (q - k * m) = p * q - (j * q + k * p - j * k * m) * m
  OBVIOUS
<1> DEFINE y == j * q + k * p - j * k * m
           v == (p - j * m) * (q - k * m)
<1>2. y \in Int /\ v \in Int
  OBVIOUS
<1>3. v = g * m + c - y * m
  BY <1>1
<1> HIDE DEF y, v
<1>4. g * m + c - y * m = (g - y) * m + c
  BY <1>2
<1>5. v % m = c
  BY <1>2, <1>3, <1>4, Modulo
<1> QED BY <1>5 DEF v

LEMMA SignedMultiple ==
    ASSUME NEW v \in dw_t
    PROVE  \E k \in Int : S(v) = U(v) - k * BB
<1>1. BB \in Nat /\ U(v) \in Nat /\ (S(v) = U(v) \/ S(v) = U(v) - BB)
  BY Doubleword, Width
<1>2. U(v) = U(v) - 0 * BB /\ U(v) - BB = U(v) - 1 * BB /\ 0 \in Int /\ 1 \in Int
  BY <1>1
<1> QED BY <1>1, <1>2

LEMMA MultiplyMoves == CallInv /\ muldi3 => OverflowExact'
<1> SUFFICES ASSUME CallInv, muldi3 PROVE OverflowExact'
  OBVIOUS
<1>1. fn = "muldi3" /\ a \in dw_t /\ b \in dw_t
  BY DEF muldi3, CallInv, Integral, Wraps
<1> DEFINE p == mul32(a.lo, b.lo)
           s == p.hi + a.lo * b.hi + a.hi * b.lo
           r == [hi |-> s % B, lo |-> p.lo]
<1>2. /\ a.hi \in Nat /\ a.lo \in Nat /\ a.lo < B /\ b.hi \in Nat /\ b.lo \in Nat /\ b.lo < B /\ B \in Nat \ {0}
      /\ U(a) = a.hi * B + a.lo /\ U(b) = b.hi * B + b.lo /\ U(a) \in Nat /\ U(b) \in Nat
      /\ BB \in Nat \ {0}
  BY <1>1, Doubleword, Width
<1>3. p \in dw_t /\ U(p) = a.lo * b.lo
  BY <1>2, Multiplies
<1>4. pc' = "ret" /\ ret' = r /\ fn' = fn /\ a' = a /\ b' = b
  <2>1. p = [hi |-> p.hi, lo |-> p.lo]
    BY <1>3 DEF dw_t
  <2>2. pc' = "ret" /\ ret' = [p EXCEPT !.hi = s % B] /\ fn' = fn /\ a' = a /\ b' = b
    BY DEF muldi3, Return, args
  <2> HIDE DEF p, s
  <2> QED BY <2>1, <2>2
<1> HIDE DEF p
<1>5. p.hi \in Nat /\ p.lo \in Nat /\ p.lo < B /\ a.lo * b.lo = p.hi * B + p.lo
  BY <1>3, Doubleword
<1>6. s \in Nat
  BY <1>2, <1>5
<1> DEFINE g == s \div B
           z == s % B
<1>7. g \in Nat /\ z \in Nat /\ z < B /\ s = g * B + z
  <2> HIDE DEF s
  <2> QED BY <1>2, <1>6, QuotientAndRest
<1> HIDE DEF g, z
<1>8. U(a) * U(b) = (a.hi * b.hi + g) * BB + (z * B + p.lo)
  <2>1. p.hi + a.lo * b.hi + a.hi * b.lo = g * B + z
    BY <1>7
  <2>2. Crossed(B, a.hi, a.lo, b.hi, b.lo, p.hi, p.lo, g, z)
    BY <1>2, <1>5, <1>7, CrossProducts
  <2>3. (a.hi * B + a.lo) * (b.hi * B + b.lo) = (a.hi * b.hi + g) * (B * B) + (z * B + p.lo)
    BY <1>5, <2>1, <2>2 DEF Crossed
  <2> QED BY <1>2, <2>3 DEF BB
<1>9. r \in dw_t /\ U(r) = z * B + p.lo
  <2>1. z \in 0..(B - 1) /\ p.lo \in 0..(B - 1) /\ r = [hi |-> z, lo |-> p.lo]
    BY <1>2, <1>5, <1>7 DEF z
  <2> HIDE DEF r
  <2> QED BY <2>1, Paired
<1> HIDE DEF r, s
<1>10. U(r) \in Nat /\ U(r) < BB
  BY <1>9, Doubleword
<1>11. PICK j \in Int : S(a) = U(a) - j * BB
  BY <1>1, SignedMultiple
<1>12. PICK k \in Int : S(b) = U(b) - k * BB
  BY <1>1, SignedMultiple
<1>13. (S(a) * S(b)) % BB = U(r)
  <2> DEFINE e == a.hi * b.hi + g
  <2>1. e \in Nat /\ U(a) * U(b) = e * BB + U(r)
    BY <1>2, <1>7, <1>8, <1>9
  <2> HIDE DEF e
  <2>2. SameModulo(BB, U(a), U(b), j, k, e, U(r))
    BY <1>2, <1>10, <2>1, ProductModulo
  <2>3. ((U(a) - j * BB) * (U(b) - k * BB)) % BB = U(r)
    BY <1>10, <2>1, <2>2 DEF SameModulo
  <2> QED BY <1>11, <1>12, <2>3
<1>14. Exact = S(a) * S(b)
  BY <1>1 DEF Exact
<1>15. U(ret)' = Exact % (B * B)
  BY <1>4, <1>13, <1>14 DEF U, BB
<1> QED BY <1>1, <1>4, <1>15, ExactStays DEF OverflowExact, Traps
\* A product from the magnitudes, and whether it fits below l.
BySigns(p, q) ==
    /\ Abs(p) * Abs(q) \in Nat /\ p * q \in Int
    /\ (p < 0 <=> q < 0) => p * q = Abs(p) * Abs(q)
    /\ ~(p < 0 <=> q < 0) => p * q = -(Abs(p) * Abs(q))

LEMMA SignsMultiply ==
    ASSUME NEW p \in Int, NEW q \in Int
    PROVE  BySigns(p, q)
<1>1. Abs(p) \in Nat /\ Abs(q) \in Nat
  BY DEF Abs
<1>2. Abs(p) * Abs(q) \in Nat
  BY <1>1
<1>3. CASE p < 0 /\ q < 0
  BY <1>1, <1>2, <1>3 DEF Abs, BySigns
<1>4. CASE p < 0 /\ ~(q < 0)
  BY <1>1, <1>2, <1>4 DEF Abs, BySigns
<1>5. CASE ~(p < 0) /\ q < 0
  BY <1>1, <1>2, <1>5 DEF Abs, BySigns
<1>6. CASE ~(p < 0) /\ ~(q < 0)
  BY <1>1, <1>2, <1>6 DEF Abs, BySigns
<1> QED BY <1>3, <1>4, <1>5, <1>6

LEMMA FitsSigned ==
    ASSUME NEW l \in Nat \ {0}, NEW m \in Nat, NEW neg \in BOOLEAN, NEW e \in Int,
           neg => e = -m, ~neg => e = m
    PROVE  -l <= e /\ e < l <=> m <= l - 1 + Bit(neg)
<1>1. CASE neg
  <2>1. Bit(neg) = 1 /\ e = -m
    BY <1>1 DEF Bit
  <2> QED BY <2>1
<1>2. CASE ~neg
  <2>1. Bit(neg) = 0 /\ e = m
    BY <1>2 DEF Bit
  <2> QED BY <2>1
<1> QED BY <1>1, <1>2

LEMMA MultiplyIntMoves == CallInv /\ mulvsi3 => OverflowExact'
<1> SUFFICES ASSUME CallInv, mulvsi3 PROVE OverflowExact'
  OBVIOUS
<1>1. fn = "mulvsi3" /\ a \in dw_t /\ b \in dw_t
  BY DEF mulvsi3, CallInv, Integral, Traps
<1> DEFINE mag(w) == IF w >= SIGN THEN (B - w) % B ELSE w
           neg == (a.lo >= SIGN) # (b.lo >= SIGN)
           p == mul32(mag(a.lo), mag(b.lo))
           over == p.hi # 0 \/ p.lo > SIGN - 1 + Bit(neg)
           v == [hi |-> 0, lo |-> IF neg THEN (B - p.lo) % B ELSE p.lo]
           signed(w) == w - B * Bit(w >= SIGN)
<1>2. ReturnUnless(over, v)
  BY DEF mulvsi3
<1>3. a.lo \in Nat /\ a.lo < B /\ b.lo \in Nat /\ b.lo < B /\ B \in Nat \ {0} /\ SIGN \in Nat \ {0} /\ B = 2 * SIGN
  BY <1>1, Doubleword, Width
<1>4. ASSUME NEW w \in Nat, w < B
      PROVE  signed(w) \in Int /\ (signed(w) < 0 <=> w >= SIGN) /\ mag(w) = Abs(signed(w)) /\ mag(w) \in 0..(B - 1)
  <2>1. CASE w >= SIGN
    <3>1. signed(w) = w - B
      BY <1>3, <2>1 DEF Bit
    <3>2. B - w \in Int /\ 0 <= B - w /\ B - w < B
      BY <1>3, <1>4, <2>1
    <3>3. (B - w) % B = B - w
      BY <1>3, <3>2, ModuloOnce
    <3> QED BY <1>3, <1>4, <2>1, <3>1, <3>2, <3>3 DEF Abs
  <2>2. CASE ~(w >= SIGN)
    <3>1. signed(w) = w
      BY <1>3, <2>2 DEF Bit
    <3> QED BY <1>3, <1>4, <2>2, <3>1 DEF Abs
  <2> QED BY <2>1, <2>2
<1>5. /\ signed(a.lo) \in Int /\ (signed(a.lo) < 0 <=> a.lo >= SIGN)
      /\ mag(a.lo) = Abs(signed(a.lo)) /\ mag(a.lo) \in 0..(B - 1)
  BY <1>3, <1>4
<1>6. /\ signed(b.lo) \in Int /\ (signed(b.lo) < 0 <=> b.lo >= SIGN)
      /\ mag(b.lo) = Abs(signed(b.lo)) /\ mag(b.lo) \in 0..(B - 1)
  BY <1>3, <1>4
<1>7. Exact = signed(a.lo) * signed(b.lo)
  BY <1>1 DEF Exact
<1> HIDE DEF signed, mag
<1>8. p \in dw_t /\ U(p) = mag(a.lo) * mag(b.lo)
  BY <1>5, <1>6, Multiplies
<1> DEFINE m == U(p)
<1>9. neg \in BOOLEAN /\ (neg <=> ~(signed(a.lo) < 0 <=> signed(b.lo) < 0))
  BY <1>5, <1>6
<1>10. m \in Nat /\ Exact \in Int /\ (neg => Exact = -m) /\ (~neg => Exact = m)
  <2> HIDE DEF neg, p
  <2>1. BySigns(signed(a.lo), signed(b.lo))
    BY <1>5, <1>6, SignsMultiply
  <2>2. m = Abs(signed(a.lo)) * Abs(signed(b.lo))
    BY <1>5, <1>6, <1>8
  <2> HIDE DEF m
  <2> QED BY <1>7, <1>9, <2>1, <2>2 DEF BySigns
<1>11. p.hi \in Nat /\ p.lo \in Nat /\ p.lo < B /\ (p.hi = 0 <=> m < B) /\ m = p.hi * B + p.lo
  <2> HIDE DEF p
  <2> QED BY <1>8, Doubleword
<1> HIDE DEF p, neg
<1>12. Bit(neg) \in {0, 1}
  BY <1>9 DEF Bit
<1>13. over <=> ~(m <= SIGN - 1 + Bit(neg))
  <2>1. CASE p.hi = 0
    <3>1. m = p.lo
      BY <1>3, <1>11, <2>1
    <3> HIDE DEF m
    <3> QED BY <1>3, <1>11, <1>12, <2>1, <3>1
  <2>2. CASE p.hi # 0
    <3> HIDE DEF m
    <3> QED BY <1>3, <1>10, <1>11, <1>12, <2>2
  <2> QED BY <2>1, <2>2
<1> HIDE DEF m
<1>14. over \in BOOLEAN
  OBVIOUS
<1>15. over <=> ~(-SIGN <= Exact /\ Exact < SIGN)
  BY <1>3, <1>9, <1>10, <1>13, FitsSigned
<1>16. over <=> ~Fits(Exact)
  <2>1. Exact \in -SIGN..(SIGN - 1) <=> -SIGN <= Exact /\ Exact < SIGN
    BY <1>3, <1>10
  <2> HIDE DEF over
  <2> QED BY <1>1, <1>15, <2>1 DEF Fits
<1>17. ~over => v.lo = Exact % B
  <2> SUFFICES ASSUME ~over PROVE v.lo = Exact % B
    OBVIOUS
  <2>1. p.hi = 0 /\ m = p.lo
    BY <1>3, <1>11 DEF m
  <2>2. CASE neg
    <3>1. Exact = -m /\ v.lo = (B - p.lo) % B
      BY <1>10, <2>2
    <3>2. CASE m = 0
      <4>1. Exact + m = 0
        BY <1>10, <3>1
      <4>2. Exact = 0 /\ B - p.lo = B
        BY <1>3, <1>10, <2>1, <3>2, <4>1
      <4>3. 0 % B = 0 /\ B % B = 0
        BY <1>3, ModuloOnce
      <4> QED BY <3>1, <4>2, <4>3
    <3>3. CASE m # 0
      <4>1. Exact < 0 /\ -B <= Exact /\ Exact + B = B - p.lo /\ B - p.lo \in Int /\ 0 <= B - p.lo /\ B - p.lo < B
        BY <1>3, <1>10, <1>11, <2>1, <3>1, <3>3
      <4>2. Exact % B = B - p.lo /\ (B - p.lo) % B = B - p.lo
        BY <1>3, <1>10, <4>1, ModuloOnce
      <4> QED BY <3>1, <4>2
    <3> QED BY <3>2, <3>3
  <2>3. CASE ~neg
    <3>1. Exact = p.lo /\ v.lo = p.lo
      BY <1>10, <2>1, <2>3
    <3> QED BY <1>3, <1>11, <3>1, ModuloOnce
  <2> QED BY <1>9, <2>2, <2>3
<1> HIDE DEF over, v
<1>18. fn' = fn /\ a' = a /\ b' = b
  BY <1>2 DEF ReturnUnless, Return, Abort, args
<1>19. CASE over
  <2>1. pc' = "abort"
    BY <1>2, <1>19 DEF ReturnUnless, Abort
  <2> QED BY <1>1, <1>16, <1>18, <1>19, <2>1, ExactStays DEF OverflowExact, Traps
<1>20. CASE ~over
  <2>1. pc' = "ret" /\ ret' = v
    BY <1>2, <1>20 DEF ReturnUnless, Return
  <2> QED BY <1>1, <1>16, <1>17, <1>18, <1>20, <2>1, ExactStays DEF OverflowExact, Traps
<1> QED BY <1>14, <1>19, <1>20
MagnitudeOf(v) == IF Neg(v) THEN negate(v) ELSE v

LEMMA MagnitudesOf ==
    ASSUME NEW v \in dw_t
    PROVE  MagnitudeOf(v) \in dw_t /\ U(MagnitudeOf(v)) = Abs(S(v)) /\ (Neg(v) <=> S(v) < 0) /\ S(v) \in Int
<1>1. /\ U(v) \in Nat /\ U(v) < BB /\ (Neg(v) <=> U(v) >= HH) /\ S(v) \in Int
      /\ S(v) = IF U(v) < HH THEN U(v) ELSE U(v) - BB
      /\ HH \in Nat \ {0} /\ BB = 2 * HH
  BY Doubleword, Width
<1>2. negate(v) \in dw_t /\ U(negate(v)) = IF U(v) = 0 THEN 0 ELSE BB - U(v)
  BY Negates
<1>3. CASE Neg(v)
  BY <1>1, <1>2, <1>3 DEF MagnitudeOf, Abs
<1>4. CASE ~Neg(v)
  BY <1>1, <1>4 DEF MagnitudeOf, Abs
<1> QED BY <1>3, <1>4

\* Numbers of two digits to the base m: a product with both high digits is too
\* large, one with a single high digit has a single cross product.
OneCross(m, p, e, q, f) ==
    /\ p > 0 /\ q > 0 => (p * m + e) * (q * m + f) >= m * m
    /\ q = 0 => (p * m + e) * (q * m + f) = (p * f) * m + e * f
    /\ p = 0 => (p * m + e) * (q * m + f) = (e * q) * m + e * f
    /\ (p * m + e) * (q * m + f) \in Nat

LEMMA OneCrossProduct ==
    ASSUME NEW m \in Nat, NEW p \in Nat, NEW e \in Nat, NEW q \in Nat, NEW f \in Nat
    PROVE  OneCross(m, p, e, q, f)
<1> DEFINE y == p * m + e
           z == q * m + f
<1>1. y \in Nat /\ z \in Nat /\ y * z \in Nat
  OBVIOUS
<1>2. ASSUME p > 0, q > 0 PROVE y * z >= m * m
  <2>1. y >= m /\ z >= m
    BY <1>2
  <2> HIDE DEF y, z
  <2>2. y * z >= y * m
    BY <1>1, <2>1
  <2>3. y * m >= m * m
    BY <1>1, <2>1
  <2>4. y * m \in Nat /\ m * m \in Nat
    BY <1>1
  <2> QED BY <1>1, <2>2, <2>3, <2>4
<1>3. ASSUME q = 0 PROVE y * z = (p * f) * m + e * f
  BY <1>3
<1>4. ASSUME p = 0 PROVE y * z = (e * q) * m + e * f
  BY <1>4
<1> QED BY <1>1, <1>2, <1>3, <1>4 DEF OneCross

\* The sum of the cross product c and the high word of the low product: it
\* carries out of the word just when the product is too large.
LEMMA CarryOut ==
    ASSUME NEW m \in Nat \ {0}, NEW p \in Nat, NEW e \in Nat, NEW c \in Nat, p < m, e < m, c < m
    PROVE  /\ (p + c) % m < c <=> c * m + (p * m + e) >= m * m
           /\ (p + c) % m >= c => ((p + c) % m) * m + e = c * m + (p * m + e)
<1>1. (p + c) % m = IF p + c >= m THEN p + c - m ELSE p + c
  <2> DEFINE k == p + c
  <2>1. k \in Int /\ 0 <= k /\ k < 2 * m
    OBVIOUS
  <2> HIDE DEF k
  <2>2. k % m = IF k >= m THEN k - m ELSE k
    BY <2>1, ModuloSum
  <2> QED BY <2>2 DEF k
<1>2. c * m + (p * m + e) = (p + c) * m + e
  OBVIOUS
<1>3. CASE p + c >= m
  <2>1. (p + c) * m >= m * m
    BY <1>3
  <2>2. (p + c) * m \in Nat /\ m * m \in Nat
    OBVIOUS
  <2> QED BY <1>1, <1>2, <1>3, <2>1, <2>2
<1>4. CASE p + c < m
  <2>1. (p + c) * m <= (m - 1) * m
    BY <1>4
  <2>2. (m - 1) * m = m * m - m
    OBVIOUS
  <2>3. (p + c) * m \in Nat /\ m * m \in Nat
    OBVIOUS
  <2> QED BY <1>1, <1>2, <1>4, <2>1, <2>2, <2>3
<1> QED BY <1>3, <1>4

LEMMA AboveSquare ==
    ASSUME NEW m \in Nat, NEW k \in Nat, k >= m
    PROVE  k * m >= m * m /\ k * m \in Nat
OBVIOUS

\* Of a product of magnitudes: too large for a double word just when one of the
\* three tests says so, and otherwise in the two words.
Cross(u, v) == IF u.hi # 0 THEN mul32(u.hi, v.lo) ELSE mul32(u.lo, v.hi)
Words(u, v) == [mul32(u.lo, v.lo) EXCEPT !.hi = (@ + Cross(u, v).lo) % B]
TooLarge(u, v) == (u.hi # 0 /\ v.hi # 0) \/ Cross(u, v).hi # 0 \/ Words(u, v).hi < Cross(u, v).lo

LEMMA MagnitudesMultiply ==
    ASSUME NEW u \in dw_t, NEW v \in dw_t
    PROVE  /\ Words(u, v) \in dw_t
           /\ TooLarge(u, v) <=> U(u) * U(v) >= BB
           /\ ~TooLarge(u, v) => U(Words(u, v)) = U(u) * U(v)
<1> DEFINE p == mul32(u.lo, v.lo)
           c == Cross(u, v)
           r == Words(u, v)
           big == TooLarge(u, v)
<1>1. /\ u.hi \in Nat /\ u.lo \in Nat /\ u.hi < B /\ u.lo < B /\ U(u) = u.hi * B + u.lo
      /\ v.hi \in Nat /\ v.lo \in Nat /\ v.hi < B /\ v.lo < B /\ U(v) = v.hi * B + v.lo
      /\ B \in Nat \ {0} /\ BB = B * B
  BY Doubleword, Width DEF BB
<1>2. u.hi \in 0..(B - 1) /\ u.lo \in 0..(B - 1) /\ v.hi \in 0..(B - 1) /\ v.lo \in 0..(B - 1)
  BY <1>1
<1>3. p \in dw_t /\ U(p) = u.lo * v.lo
  BY <1>2, Multiplies
<1>4. c \in dw_t /\ U(c) = IF u.hi # 0 THEN u.hi * v.lo ELSE u.lo * v.hi
  <2>1. mul32(u.hi, v.lo) \in dw_t /\ U(mul32(u.hi, v.lo)) = u.hi * v.lo
    BY <1>2, Multiplies
  <2>2. mul32(u.lo, v.hi) \in dw_t /\ U(mul32(u.lo, v.hi)) = u.lo * v.hi
    BY <1>2, Multiplies
  <2> QED BY <2>1, <2>2 DEF Cross
<1>5. r = [p EXCEPT !.hi = (@ + c.lo) % B]
  BY DEF Words
<1>6. big <=> (u.hi # 0 /\ v.hi # 0) \/ c.hi # 0 \/ r.hi < c.lo
  BY DEF TooLarge
<1> HIDE DEF p, c, r, big
<1>7. /\ p.hi \in Nat /\ p.lo \in Nat /\ p.hi < B /\ p.lo < B /\ U(p) = p.hi * B + p.lo /\ U(p) \in Nat
      /\ c.hi \in Nat /\ c.lo \in Nat /\ c.hi < B /\ c.lo < B /\ U(c) = c.hi * B + c.lo /\ U(c) \in Nat
      /\ (c.hi = 0 <=> U(c) < B) /\ p = [hi |-> p.hi, lo |-> p.lo]
  BY <1>3, <1>4, Doubleword DEF dw_t
<1>8. /\ (p.hi + c.lo) % B < c.lo <=> c.lo * B + (p.hi * B + p.lo) >= B * B
      /\ (p.hi + c.lo) % B >= c.lo => ((p.hi + c.lo) % B) * B + p.lo = c.lo * B + (p.hi * B + p.lo)
  BY <1>1, <1>7, CarryOut
<1> DEFINE s == (p.hi + c.lo) % B
<1>9. s \in 0..(B - 1) /\ p.lo \in 0..(B - 1)
  <2>1. p.hi + c.lo \in Nat
    BY <1>7
  <2>2. ASSUME NEW k \in Nat PROVE k % B \in 0..(B - 1)
    BY <1>1, QuotientAndRest
  <2> QED BY <1>1, <1>7, <2>1, <2>2
<1>10. r = [hi |-> s, lo |-> p.lo]
  BY <1>7, <1>5
<1> HIDE DEF s
<1>11. r \in dw_t /\ U(r) = s * B + p.lo /\ r.hi = s
  BY <1>9, <1>10, Paired
<1> DEFINE e == U(u) * U(v)
<1>12. OneCross(B, u.hi, u.lo, v.hi, v.lo)
  BY <1>1, OneCrossProduct
<1>13. /\ u.hi > 0 /\ v.hi > 0 => e >= BB
       /\ ~(u.hi > 0 /\ v.hi > 0) => e = U(c) * B + U(p)
       /\ e \in Nat
  BY <1>1, <1>3, <1>4, <1>12 DEF OneCross
<1> SUFFICES r \in dw_t /\ (big <=> e >= BB) /\ (~big => U(r) = e)
  BY DEF r, big
<1> HIDE DEF e
<1>14. CASE u.hi # 0 /\ v.hi # 0
  <2>1. big /\ u.hi > 0 /\ v.hi > 0
    BY <1>1, <1>14, <1>6
  <2> QED BY <1>11, <1>13, <2>1
<1>15. CASE ~(u.hi # 0 /\ v.hi # 0) /\ c.hi # 0
  <2>1. U(c) >= B /\ e = U(c) * B + U(p)
    BY <1>1, <1>7, <1>13, <1>15
  <2>2. U(c) * B >= B * B /\ U(c) * B \in Nat
    BY <1>1, <1>7, <2>1, AboveSquare
  <2>3. e >= BB
    BY <1>1, <1>7, <2>1, <2>2
  <2> QED BY <1>11, <1>15, <1>6, <2>3
<1>16. CASE ~(u.hi # 0 /\ v.hi # 0) /\ c.hi = 0
  <2>1. U(c) = c.lo
    <3>1. c.hi * B = 0 /\ U(c) = c.hi * B + c.lo
      BY <1>1, <1>7, <1>16
    <3> QED BY <1>7, <3>1
  <2>2. e = c.lo * B + (p.hi * B + p.lo)
    <3>1. ~(u.hi > 0 /\ v.hi > 0)
      BY <1>1, <1>16
    <3>2. e = U(c) * B + U(p)
      BY <1>13, <3>1
    <3> QED BY <1>7, <2>1, <3>2
  <2>3. s < c.lo <=> e >= BB
    BY <1>1, <1>8, <2>2 DEF s
  <2>4. s >= c.lo => U(r) = e
    BY <1>8, <1>11, <2>2 DEF s
  <2>5. s < c.lo \/ s >= c.lo
    BY <1>7, <1>9
  <2> QED BY <1>11, <1>16, <1>6, <2>3, <2>4, <2>5
<1> QED BY <1>14, <1>15, <1>16
LEMMA MultiplyTrapMoves == CallInv /\ mulvdi3 => OverflowExact'
<1> SUFFICES ASSUME CallInv, mulvdi3 PROVE OverflowExact'
  OBVIOUS
<1>1. fn = "mulvdi3" /\ a \in dw_t /\ b \in dw_t
  BY DEF mulvdi3, CallInv, Integral, Traps
<1> DEFINE neg == Neg(a) # Neg(b)
           u == MagnitudeOf(a)
           v == MagnitudeOf(b)
           r == Words(u, v)
           big == TooLarge(u, v)
           over == big \/ (Neg(r) /\ ~(neg /\ r = [hi |-> SIGN, lo |-> 0]))
           w == IF neg THEN negate(r) ELSE r
           m == U(u) * U(v)
<1>2. ReturnUnless(over, w)
  <2>1. ReturnUnless(\/ u.hi # 0 /\ v.hi # 0
                     \/ Cross(u, v).hi # 0
                     \/ Words(u, v).hi < Cross(u, v).lo
                     \/ Neg(r) /\ ~(neg /\ r = [hi |-> SIGN, lo |-> 0]), w)
    BY DEF mulvdi3, MagnitudeOf, Words, Cross
  <2>2. over = \/ u.hi # 0 /\ v.hi # 0
               \/ Cross(u, v).hi # 0
               \/ Words(u, v).hi < Cross(u, v).lo
               \/ Neg(r) /\ ~(neg /\ r = [hi |-> SIGN, lo |-> 0])
    BY DEF TooLarge
  <2> QED BY <2>1, <2>2
<1>3. /\ u \in dw_t /\ U(u) = Abs(S(a)) /\ (Neg(a) <=> S(a) < 0) /\ S(a) \in Int
      /\ v \in dw_t /\ U(v) = Abs(S(b)) /\ (Neg(b) <=> S(b) < 0) /\ S(b) \in Int
  BY <1>1, MagnitudesOf
<1>4. neg \in BOOLEAN /\ (neg <=> ~(S(a) < 0 <=> S(b) < 0))
  BY <1>3 DEF Neg
<1> HIDE DEF u, v
<1>5. r \in dw_t /\ (big <=> m >= BB) /\ (~big => U(r) = m) /\ big \in BOOLEAN
  BY <1>3, MagnitudesMultiply DEF TooLarge
<1> HIDE DEF r, big, neg
<1>6. m \in Nat /\ Exact \in Int /\ (neg => Exact = -m) /\ (~neg => Exact = m)
  <2>1. BySigns(S(a), S(b))
    BY <1>3, SignsMultiply
  <2>2. m = Abs(S(a)) * Abs(S(b)) /\ Exact = S(a) * S(b)
    BY <1>1, <1>3 DEF Exact
  <2> HIDE DEF m
  <2> QED BY <1>4, <2>1, <2>2 DEF BySigns
<1> HIDE DEF m
<1>7. /\ HH \in Nat \ {0} /\ BB = 2 * HH /\ U(r) \in Nat /\ (Neg(r) <=> U(r) >= HH)
      /\ (r = [hi |-> SIGN, lo |-> 0] <=> U(r) = HH)
  BY <1>5, Width, Doubleword, Smallest
<1>8. over <=> ~(m <= HH - 1 + Bit(neg))
  <2>1. Bit(neg) = IF neg THEN 1 ELSE 0
    BY DEF Bit
  <2>2. CASE big
    BY <1>4, <1>5, <1>6, <1>7, <2>1, <2>2
  <2>3. CASE ~big
    BY <1>4, <1>5, <1>6, <1>7, <2>1, <2>3
  <2> QED BY <1>5, <2>2, <2>3
<1>9. over \in BOOLEAN
  BY <1>5
<1>10. over <=> ~(-HH <= Exact /\ Exact < HH)
  BY <1>4, <1>6, <1>7, <1>8, FitsSigned
<1>11. ~over => U(w) = Exact % (B * B)
  <2> SUFFICES ASSUME ~over PROVE U(w) = Exact % BB
    BY DEF BB
  <2>1. U(r) = m
    BY <1>5
  <2>2. CASE neg
    BY <1>5, <1>6, <2>1, <2>2, Signed
  <2>3. CASE ~neg
    BY <1>5, <1>6, <2>1, <2>3, Signed
  <2> QED BY <1>4, <2>2, <2>3
<1> HIDE DEF over, w
<1> QED BY <1>1, <1>2, <1>6, <1>9, <1>10, <1>11, Settled

\* For words of any width and all arguments, the -ftrapv helpers abort just when
\* the result does not fit and otherwise return it, the wrapping ones return it
\* modulo the width and the comparison orders by value (@@trapv.c, @@muldi3.c,
\* @@negdi2.c, @@cmpdi2.c).
THEOREM OverflowCaught == Spec => []OverflowExact
<1>1. Init => CallInv /\ LoopInv /\ QuotInv /\ OverflowExact
  BY CallStarts DEF Init, OverflowExact
<1>2. CallInv /\ LoopInv /\ QuotInv /\ OverflowExact /\ [Next]_vars
        => (CallInv /\ LoopInv /\ QuotInv /\ OverflowExact)'
  <2> SUFFICES ASSUME CallInv, LoopInv, OverflowExact, [Next]_vars PROVE OverflowExact'
    BY CallMoves, QuotMoves
  <2>1. ASSUME fn' = fn, fn \in Divides \cup Floats \cup Fixes, pc' # "abort" PROVE OverflowExact'
    BY <2>1 DEF OverflowExact, Divides, Floats, Fixes, Traps
  <2>2. CASE DivideByZero \/ DivideWord \/ StartDivide
    BY <2>1, <2>2 DEF DivideByZero, DivideWord, StartDivide, Return, args
  <2>3. CASE Round \/ EndDivide
    BY <2>1, <2>3 DEF Round, EndDivide, Return, args, LoopInv
  <2>4. CASE fixdfdi \/ hfp_float
    BY <2>1, <2>4 DEF fixdfdi, hfp_float, Return, args
  <2>5. CASE UNCHANGED vars
    <3>1. pc' = pc /\ fn' = fn /\ a' = a /\ b' = b /\ ret' = ret
      BY <2>5 DEF vars
    <3>2. U(ret)' = U(ret)
      BY <3>1 DEF U
    <3> QED BY <3>1, <3>2, ExactStays DEF OverflowExact
  <2> QED BY <2>2, <2>3, <2>4, <2>5, AddMoves, SubtractMoves, NegateMoves, CompareMoves,
             MultiplyMoves, MultiplyIntMoves, MultiplyTrapMoves DEF Next
<1> QED BY <1>1, <1>2, PTL DEF Spec

(***************************************************************************)
(* Conversions: shifts as powers of two.                                   *)
(***************************************************************************)

LEMMA PowersRise ==
    ASSUME NEW k \in Nat, NEW m \in Nat, k <= m
    PROVE  /\ pow2[k] \in Nat \ {0} /\ pow2[m] \in Nat \ {0} /\ pow2[m - k] \in Nat \ {0}
           /\ pow2[m] = pow2[k] * pow2[m - k] /\ pow2[k] <= pow2[m]
           /\ k < m => 2 * pow2[k] <= pow2[m]
<1>1. m - k \in Nat /\ k + (m - k) = m
  OBVIOUS
<1>2. pow2[k] \in Nat \ {0} /\ pow2[m] \in Nat \ {0} /\ pow2[m - k] \in Nat \ {0}
  BY <1>1, Powers
<1>3. pow2[k + (m - k)] = pow2[k] * pow2[m - k]
  BY <1>1, PowersMultiply
<1>4. pow2[m] = pow2[k] * pow2[m - k]
  BY <1>1, <1>3
<1>5. k < m => pow2[m - k] >= 2
  <2> SUFFICES ASSUME k < m PROVE pow2[m - k] >= 2
    OBVIOUS
  <2>1. (m - k) - 1 \in Nat /\ ((m - k) - 1) + 1 = m - k
    OBVIOUS
  <2>2. pow2[(m - k) - 1] \in Nat \ {0} /\ pow2[m - k] = 2 * pow2[(m - k) - 1]
    BY <2>1, Powers
  <2> QED BY <2>2
<1>6. PICK p \in Nat \ {0} : p = pow2[k]
  BY <1>2
<1>7. PICK q \in Nat \ {0} : q = pow2[m - k]
  BY <1>2
<1>8. p <= p * q /\ (q >= 2 => 2 * p <= p * q)
  OBVIOUS
<1> QED BY <1>2, <1>4, <1>5, <1>6, <1>7, <1>8

LEMMA WordPower == pow2[W] = B /\ pow2[2 * W] = BB /\ pow2[2 * W - 1] = HH
<1>1. W - 1 \in Nat /\ (W - 1) + 1 = W /\ (W - 1) + W = 2 * W - 1 /\ W \in Nat
  BY WordAssumption
<1>2. pow2[W] = 2 * pow2[W - 1]
  BY <1>1, Powers
<1>3. pow2[W] = B
  BY <1>2, WordAssumption DEF B
<1>4. pow2[2 * W - 1] = pow2[W - 1] * pow2[W]
  BY <1>1, PowersMultiply
<1>5. SIGN * B = B * SIGN
  BY Width
<1> QED BY <1>3, <1>4, <1>5, Width, WordAssumption DEF HH

\* The quotient of a number that is q times p and something less than p.
LEMMA QuotientIs ==
    ASSUME NEW p \in Nat \ {0}, NEW q \in Nat, NEW r \in Nat, r < p, NEW v \in Nat, v = q * p + r
    PROVE  v \div p = q
OBVIOUS

\* Numbers of two digits to the base p * q, shifted right by p.
ShrBy(p, q, y, z) ==
    /\ y \div p \in 0..((p * q) - 1)
    /\ (z \div p) + ((y * q) % (p * q)) \in 0..((p * q) - 1)
    /\ (y \div p) * (p * q) + ((z \div p) + ((y * q) % (p * q))) = (y * (p * q) + z) \div p

LEMMA ShiftedRight ==
    ASSUME NEW p \in Nat \ {0}, NEW q \in Nat \ {0}, NEW y \in Nat, NEW z \in Nat, y < p * q, z < p * q
    PROVE  ShrBy(p, q, y, z)
<1>1. PICK c \in Nat, r \in Nat : y = c * p + r /\ r < p /\ c = y \div p
  <2>1. y = ((y \div p) * p) + (y % p) /\ y \div p \in Nat /\ y % p \in Nat /\ y % p < p
    BY QuotientAndRest
  <2> QED BY <2>1
<1>2. PICK e \in Nat, s \in Nat : z = e * p + s /\ s < p /\ e = z \div p
  <2>1. z = ((z \div p) * p) + (z % p) /\ z \div p \in Nat /\ z % p \in Nat /\ z % p < p
    BY QuotientAndRest
  <2> QED BY <2>1
<1>3. PICK m \in Nat \ {0} : m = p * q
  OBVIOUS
<1>4. r * q \in Nat /\ r * q + q <= m
  <2>1. r * q <= (p - 1) * q
    BY <1>1
  <2>2. (p - 1) * q = p * q - q
    OBVIOUS
  <2> QED BY <1>1, <1>3, <2>1, <2>2
<1>5. y * q = c * m + r * q
  <2>1. y * q = (c * p + r) * q
    BY <1>1
  <2>2. (c * p + r) * q = c * (p * q) + r * q
    OBVIOUS
  <2> QED BY <1>3, <2>1, <2>2
<1>6. (y * q) % m = r * q
  <2>1. PICK rq \in Nat : rq = r * q
    BY <1>4
  <2>2. PICK yq \in Nat : yq = y * q
    OBVIOUS
  <2>3. yq = c * m + rq /\ rq < m
    BY <1>4, <1>5, <2>1, <2>2
  <2>4. yq % m = rq
    BY <2>3, Modulo
  <2> QED BY <2>1, <2>2, <2>4
<1>7. e < q
  <2> SUFFICES ASSUME e >= q PROVE FALSE
    OBVIOUS
  <2>1. e * p >= q * p
    OBVIOUS
  <2>2. q * p = p * q
    OBVIOUS
  <2> QED BY <1>2, <2>1, <2>2
<1>8. e + r * q \in 0..(m - 1)
  BY <1>4, <1>7
<1>9. c \in 0..(m - 1)
  <2>1. c <= c * p
    OBVIOUS
  <2>2. c * p <= y
    BY <1>1
  <2> QED BY <1>3, <2>1, <2>2
<1>10. (y * m + z) \div p = c * m + (e + r * q)
  <2>1. y * m + z = (c * p + r) * (p * q) + (e * p + s)
    BY <1>1, <1>2, <1>3
  <2>2. (c * p + r) * (p * q) + (e * p + s) = (c * (p * q) + (e + r * q)) * p + s
    OBVIOUS
  <2>3. PICK t \in Nat : t = c * m + (e + r * q)
    BY <1>4
  <2>4. PICK l \in Nat : l = y * m + z
    OBVIOUS
  <2>5. l = t * p + s
    BY <1>3, <2>1, <2>2, <2>3, <2>4
  <2>6. l \div p = t
    BY <1>2, <2>5, QuotientIs
  <2> QED BY <2>3, <2>4, <2>6
<1> QED BY <1>1, <1>2, <1>3, <1>6, <1>8, <1>9, <1>10 DEF ShrBy


\* shr64 divides by a power of two.
LEMMA ShiftsRight ==
    ASSUME NEW v \in dw_t, NEW k \in Nat
    PROVE  /\ shr64(v, k) \in dw_t
           /\ U(shr64(v, k)) = IF k >= 2 * W THEN 0 ELSE U(v) \div pow2[k]
<1>1. v.hi \in Nat /\ v.lo \in Nat /\ v.hi < B /\ v.lo < B /\ U(v) = v.hi * B + v.lo /\ U(v) \in Nat
  BY Doubleword
<1>2. W \in Nat /\ B \in Nat \ {0}
  BY Width
<1>3. CASE k >= 2 * W
  BY <1>3, ZeroTyped DEF shr64
<1>4. CASE k < 2 * W /\ k >= W
  <2>1. PICK p \in Nat \ {0} : p = pow2[k - W] /\ pow2[k] = B * p
    BY <1>2, <1>4, PowersRise, WordPower
  <2>2. PICK y \in Nat : y = v.hi
    BY <1>1
  <2>3. PICK z \in Nat : z = v.lo
    BY <1>1
  <2>4. y \div p \in Nat /\ y % p \in Nat /\ y % p < p /\ y = ((y \div p) * p) + (y % p)
    BY QuotientAndRest
  <2>5. PICK c \in Nat, r \in Nat : c = y \div p /\ y = c * p + r /\ r < p
    BY <2>4
  <2>6. shr64(v, k) = [hi |-> 0, lo |-> c]
    BY <1>2, <1>4, <2>1, <2>2, <2>5 DEF shr64
  <2>7. c \in 0..(B - 1) /\ 0 \in 0..(B - 1)
    <3>1. c <= c * p
      OBVIOUS
    <3> QED BY <1>1, <1>2, <2>2, <2>5, <3>1
  <2>8. shr64(v, k) \in dw_t /\ U(shr64(v, k)) = 0 * B + c
    BY <2>6, <2>7, Paired
  <2>9. U(v) \div pow2[k] = c
    <3>1. PICK m \in Nat \ {0} : m = B * p
      BY <1>2
    <3>2. (c * p + r) * B + z = c * (B * p) + (r * B + z)
      BY <1>2
    <3>3. U(v) = c * m + (r * B + z)
      BY <1>1, <2>2, <2>3, <2>5, <3>1, <3>2
    <3>4. r * B + z \in Nat /\ r * B + z < m
      <4>1. r * B <= (p - 1) * B
        BY <1>2, <2>5
      <4>2. (p - 1) * B = B * p - B
        BY <1>2
      <4>3. r * B \in Nat
        BY <1>2
      <4> QED BY <1>1, <1>2, <2>3, <3>1, <4>1, <4>2, <4>3
    <3> QED BY <1>1, <2>1, <3>1, <3>3, <3>4, QuotientIs
  <2>10. 0 * B + c = c
    BY <1>2
  <2>13. ~(k >= 2 * W)
    BY <1>2, <1>4
  <2> QED BY <2>13, <2>8, <2>9, <2>10, Zenon
<1>5. CASE k < W /\ k = 0
  <2>1. shr64(v, k) = v /\ ~(k >= 2 * W) /\ pow2[k] = 1
    BY <1>2, <1>5, Powers DEF shr64
  <2>2. U(v) \div 1 = U(v)
    BY <1>1
  <2> QED BY <2>1, <2>2
<1>6. CASE k < W /\ k # 0
  <2>1. PICK p \in Nat \ {0} : p = pow2[k]
    BY Powers
  <2>2. PICK q \in Nat \ {0} : q = pow2[W - k] /\ B = p * q
    <3>1. pow2[W - k] \in Nat \ {0} /\ pow2[W] = pow2[k] * pow2[W - k]
      BY <1>2, <1>6, PowersRise
    <3> QED BY <2>1, <3>1, WordPower
  <2>3. PICK y \in Nat : y = v.hi
    BY <1>1
  <2>4. PICK z \in Nat : z = v.lo
    BY <1>1
  <2>5. shr64(v, k) = [hi |-> y \div p, lo |-> (z \div p) + ((y * q) % B)] /\ ~(k >= 2 * W)
    BY <1>2, <1>6, <2>1, <2>2, <2>3, <2>4 DEF shr64
  <2>6. ShrBy(p, q, y, z)
    BY <1>1, <2>2, <2>3, <2>4, ShiftedRight
  <2>7. PICK e, f : e = y \div p /\ f = (z \div p) + ((y * q) % B)
    OBVIOUS
  <2>8. e \in 0..(B - 1) /\ f \in 0..(B - 1) /\ e * B + f = (y * B + z) \div p
    BY <2>2, <2>6, <2>7, Zenon DEF ShrBy
  <2>9. shr64(v, k) \in dw_t /\ U(shr64(v, k)) = e * B + f
    BY <2>5, <2>7, <2>8, Paired
  <2> QED BY <1>1, <2>1, <2>3, <2>4, <2>5, <2>8, <2>9
<1> QED BY <1>2, <1>3, <1>4, <1>5, <1>6

\* Numbers of two digits to the base p * q, shifted left by p.
ShlBy(p, q, y, z) ==
    /\ ((y * p) % (p * q)) + (z \div q) \in 0..((p * q) - 1)
    /\ (z * p) % (p * q) \in 0..((p * q) - 1)
    /\ (((y * p) % (p * q)) + (z \div q)) * (p * q) + ((z * p) % (p * q))
          = ((y * (p * q) + z) * p) % ((p * q) * (p * q))

LEMMA ShiftedLeft ==
    ASSUME NEW p \in Nat \ {0}, NEW q \in Nat \ {0}, NEW y \in Nat, NEW z \in Nat, y < p * q, z < p * q
    PROVE  ShlBy(p, q, y, z)
<1>1. PICK c \in Nat, r \in Nat : y = c * q + r /\ r < q
  <2>1. y = ((y \div q) * q) + (y % q) /\ y \div q \in Nat /\ y % q \in Nat /\ y % q < q
    BY QuotientAndRest
  <2> QED BY <2>1
<1>2. PICK e \in Nat, s \in Nat : z = e * q + s /\ s < q /\ e = z \div q
  <2>1. z = ((z \div q) * q) + (z % q) /\ z \div q \in Nat /\ z % q \in Nat /\ z % q < q
    BY QuotientAndRest
  <2> QED BY <2>1
<1>3. PICK m \in Nat \ {0} : m = p * q
  OBVIOUS
<1>4. ASSUME NEW t \in Nat, t < q PROVE t * p \in Nat /\ t * p + p <= m
  <2>1. t * p <= (q - 1) * p
    BY <1>4
  <2>2. (q - 1) * p = p * q - p
    OBVIOUS
  <2> QED BY <1>3, <2>1, <2>2
<1>5. ASSUME NEW t \in Nat, t < q, NEW l \in Nat PROVE ((l * q + t) * p) % m = t * p
  <2>1. (l * q + t) * p = l * (p * q) + t * p
    OBVIOUS
  <2>2. PICK u \in Nat : u = t * p
    BY <1>4, <1>5
  <2>3. PICK w \in Nat : w = (l * q + t) * p
    OBVIOUS
  <2>4. w = l * m + u /\ u < m
    BY <1>3, <1>4, <1>5, <2>1, <2>2, <2>3
  <2>5. w % m = u
    BY <2>4, Modulo
  <2> QED BY <2>2, <2>3, <2>5
<1>6. (y * p) % m = r * p /\ (z * p) % m = s * p
  BY <1>1, <1>2, <1>5
<1>7. e < p
  <2> SUFFICES ASSUME e >= p PROVE FALSE
    OBVIOUS
  <2>1. e * q >= p * q
    OBVIOUS
  <2> QED BY <1>2, <2>1
<1>8. r * p + e \in 0..(m - 1) /\ s * p \in 0..(m - 1)
  <2>1. r * p \in Nat /\ r * p + p <= m /\ s * p \in Nat /\ s * p + p <= m
    BY <1>1, <1>2, <1>4
  <2> QED BY <1>7, <2>1
<1>9. ((y * m + z) * p) % (m * m) = (r * p + e) * m + s * p
  <2>1. (y * m + z) * p = ((c * q + r) * (p * q) + (e * q + s)) * p
    BY <1>1, <1>2, <1>3
  <2>2. ((c * q + r) * (p * q) + (e * q + s)) * p = c * ((p * q) * (p * q)) + ((r * p + e) * (p * q) + s * p)
    OBVIOUS
  <2>3. PICK t \in Nat, u \in Nat : t = r * p + e /\ u = s * p /\ t < m /\ u < m
    BY <1>8
  <2>4. t * m + u \in Nat /\ t * m + u < m * m
    <3>1. t * m <= (m - 1) * m
      BY <2>3
    <3>2. (m - 1) * m = m * m - m
      OBVIOUS
    <3>3. t * m \in Nat
      OBVIOUS
    <3> QED BY <2>3, <3>1, <3>2, <3>3
  <2>5. PICK g \in Nat : g = t * m + u
    BY <2>4
  <2>6. PICK o \in Nat \ {0} : o = m * m
    OBVIOUS
  <2>7. PICK l \in Nat : l = (y * m + z) * p
    OBVIOUS
  <2>8. l = c * o + g /\ g < o
    BY <1>3, <2>1, <2>2, <2>3, <2>4, <2>5, <2>6, <2>7
  <2>9. l % o = g
    BY <2>8, Modulo
  <2> QED BY <2>3, <2>5, <2>6, <2>7, <2>9
<1> QED BY <1>2, <1>3, <1>6, <1>8, <1>9 DEF ShlBy

\* shl64 multiplies by a power of two, modulo the width.
LEMMA ShiftsLeft ==
    ASSUME NEW v \in dw_t, NEW k \in Nat
    PROVE  /\ shl64(v, k) \in dw_t
           /\ U(shl64(v, k)) = IF k >= 2 * W THEN 0 ELSE (U(v) * pow2[k]) % BB
<1>1. v.hi \in Nat /\ v.lo \in Nat /\ v.hi < B /\ v.lo < B /\ U(v) = v.hi * B + v.lo /\ U(v) \in Nat /\ U(v) < BB
  BY Doubleword
<1>2. W \in Nat /\ B \in Nat \ {0} /\ BB \in Nat \ {0}
  BY Width
<1>3. CASE k >= 2 * W
  BY <1>3, ZeroTyped DEF shl64
<1>4. CASE k < 2 * W /\ k >= W
  <2>1. PICK p \in Nat \ {0} : p = pow2[k - W] /\ pow2[k] = B * p
    BY <1>2, <1>4, PowersRise, WordPower
  <2>2. PICK y \in Nat : y = v.hi
    BY <1>1
  <2>3. PICK z \in Nat : z = v.lo
    BY <1>1
  <2>4. PICK l \in Nat : l = z * p
    OBVIOUS
  <2>5. PICK m \in Nat \ {0} : m = B
    BY <1>2
  <2>6. l \div m \in Nat /\ l % m \in Nat /\ l % m < m /\ l = ((l \div m) * m) + (l % m)
    BY QuotientAndRest
  <2>7. PICK c \in Nat, r \in Nat : r = l % m /\ l = c * m + r /\ r < m
    BY <2>6
  <2>8. shl64(v, k) = [hi |-> r, lo |-> 0]
    BY <1>2, <1>4, <2>1, <2>3, <2>4, <2>5, <2>7 DEF shl64
  <2>9. r \in 0..(B - 1) /\ 0 \in 0..(B - 1)
    BY <2>5, <2>7
  <2>10. shl64(v, k) \in dw_t /\ U(shl64(v, k)) = r * B + 0
    BY <2>8, <2>9, Paired
  <2>11. (U(v) * pow2[k]) % BB = r * m
    <3>1. U(v) * pow2[k] = (y * m + z) * (m * p)
      BY <1>1, <2>1, <2>2, <2>3, <2>5
    <3>2. (y * m + z) * (m * p) = (y * p) * (m * m) + (z * p) * m
      OBVIOUS
    <3>3. (z * p) * m = (c * m + r) * m
      BY <2>4, <2>7
    <3>4. (c * m + r) * m = c * (m * m) + r * m
      OBVIOUS
    <3>5. PICK o \in Nat \ {0} : o = m * m
      OBVIOUS
    <3>6. PICK yp \in Nat : yp = y * p
      OBVIOUS
    <3>7. PICK rm \in Nat : rm = r * m
      OBVIOUS
    <3>8. yp * o + (c * o + rm) = (yp + c) * o + rm
      OBVIOUS
    <3>9. PICK g \in Nat : g = (yp + c) * o + rm
      OBVIOUS
    <3>10. rm < o
      <4>1. r * m <= (m - 1) * m
        BY <2>7
      <4>2. (m - 1) * m = m * m - m
        OBVIOUS
      <4> QED BY <3>5, <3>7, <4>1, <4>2
    <3>11. g % o = rm
      <4>1. yp + c \in Int
        OBVIOUS
      <4> QED BY <3>9, <3>10, <4>1, Modulo
    <3>12. U(v) * pow2[k] = g
      BY <3>1, <3>2, <3>3, <3>4, <3>5, <3>6, <3>7, <3>8, <3>9
    <3>13. BB = o
      BY <2>5, <3>5 DEF BB
    <3> QED BY <3>7, <3>11, <3>12, <3>13
  <2>12. r * B + 0 = r * m
    BY <2>5
  <2>13. ~(k >= 2 * W)
    BY <1>2, <1>4
  <2> QED BY <2>13, <2>10, <2>11, <2>12, Zenon
<1>5. CASE k < W /\ k = 0
  <2>1. shl64(v, k) = v /\ ~(k >= 2 * W) /\ pow2[k] = 1
    BY <1>2, <1>5, Powers DEF shl64
  <2>2. (U(v) * 1) = U(v)
    BY <1>1
  <2>3. U(v) % BB = U(v)
    BY <1>1, <1>2, ModuloOnce
  <2> QED BY <2>1, <2>2, <2>3
<1>6. CASE k < W /\ k # 0
  <2>1. PICK p \in Nat \ {0} : p = pow2[k]
    BY Powers
  <2>2. PICK q \in Nat \ {0} : q = pow2[W - k] /\ B = p * q
    <3>1. pow2[W - k] \in Nat \ {0} /\ pow2[W] = pow2[k] * pow2[W - k]
      BY <1>2, <1>6, PowersRise
    <3> QED BY <2>1, <3>1, WordPower
  <2>3. PICK y \in Nat : y = v.hi
    BY <1>1
  <2>4. PICK z \in Nat : z = v.lo
    BY <1>1
  <2>5. shl64(v, k) = [hi |-> ((y * p) % B) + (z \div q), lo |-> (z * p) % B] /\ ~(k >= 2 * W)
    BY <1>2, <1>6, <2>1, <2>2, <2>3, <2>4 DEF shl64
  <2>6. ShlBy(p, q, y, z)
    BY <1>1, <2>2, <2>3, <2>4, ShiftedLeft
  <2>7. PICK e, f : e = ((y * p) % B) + (z \div q) /\ f = (z * p) % B
    OBVIOUS
  <2>8. e \in 0..(B - 1) /\ f \in 0..(B - 1) /\ e * B + f = ((y * B + z) * p) % (B * B)
    BY <2>2, <2>6, <2>7, Zenon DEF ShlBy
  <2>9. shl64(v, k) \in dw_t /\ U(shl64(v, k)) = e * B + f
    BY <2>5, <2>7, <2>8, Paired
  <2>10. (U(v) * pow2[k]) % BB = ((y * B + z) * p) % (B * B)
    BY <1>1, <2>1, <2>3, <2>4, Zenon DEF BB
  <2> QED BY <2>5, <2>8, <2>9, <2>10
<1> QED BY <1>2, <1>3, <1>4, <1>5, <1>6


\* Half of the last digit kept, added with its carry.
LEMMA HalfAdds ==
    ASSUME NEW v \in dw_t, NEW k \in Nat, k < 2 * W, U(v) + pow2[k] < BB
    PROVE  Half(v, k) \in dw_t /\ U(Half(v, k)) = U(v) + pow2[k]
<1>1. v.hi \in Nat /\ v.lo \in Nat /\ v.hi < B /\ v.lo < B /\ U(v) = v.hi * B + v.lo /\ U(v) \in Nat /\ U(v) < BB
  BY Doubleword
<1>2. W \in Nat /\ B \in Nat \ {0} /\ BB \in Nat \ {0}
  BY Width
<1>3. PICK y \in Nat : y = v.hi
  BY <1>1
<1>4. PICK z \in Nat : z = v.lo
  BY <1>1
<1>5. PICK m \in Nat \ {0} : m = B /\ BB = m * m
  BY <1>2 DEF BB
<1>6. CASE k >= W
  <2>1. PICK p \in Nat \ {0} : p = pow2[k - W] /\ pow2[k] = B * p
    BY <1>2, <1>6, PowersRise, WordPower
  <2>2. Half(v, k) = [hi |-> (y + p) % B, lo |-> z]
    BY <1>3, <1>4, <1>6, <2>1 DEF Half, dw_t
  <2>3. y * m + z + m * p = (y + p) * m + z
    OBVIOUS
  <2>4. U(v) + pow2[k] = (y + p) * m + z
    BY <1>1, <1>3, <1>4, <1>5, <2>1, <2>3
  <2>5. y + p < m
    BY <1>5, <2>4, FirstDigit
  <2>6. (y + p) % B = y + p
    <3>1. PICK t \in Nat : t = y + p
      OBVIOUS
    <3>2. t < m
      BY <2>5, <3>1
    <3>3. t % m = t
      BY <3>2, ModuloOnce
    <3> QED BY <1>5, <3>1, <3>3
  <2>7. y + p \in 0..(B - 1) /\ z \in 0..(B - 1)
    BY <1>1, <1>4, <1>5, <2>5
  <2>8. Half(v, k) \in dw_t /\ U(Half(v, k)) = (y + p) * B + z
    BY <2>2, <2>6, <2>7, Paired
  <2> QED BY <1>5, <2>4, <2>8
<1>7. CASE k < W
  <2>1. PICK p \in Nat \ {0} : p = pow2[k] /\ p < m
    <3>1. pow2[k] \in Nat \ {0} /\ 2 * pow2[k] <= pow2[W]
      BY <1>2, <1>7, PowersRise
    <3> QED BY <1>5, <3>1, WordPower
  <2>2. z + p \in Nat /\ z < m /\ (z + p) % m = IF z + p >= m THEN z + p - m ELSE z + p
    <3>1. z < m
      BY <1>1, <1>4, <1>5
    <3>2. z + p \in Int /\ 0 <= z + p /\ z + p < 2 * m
      BY <2>1, <3>1
    <3>3. PICK t \in Nat : t = z + p
      OBVIOUS
    <3>4. t % m = IF t >= m THEN t - m ELSE t
      BY <3>2, <3>3, ModuloSum
    <3> QED BY <3>1, <3>3, <3>4
  <2>3. PICK lo \in Nat : lo = (z + p) % m
    BY <2>2
  <2>4. ~(k >= W)
    BY <1>2, <1>7
  <2>5. Half(v, k) = [hi |-> (y + Bit(lo < p)) % B, lo |-> lo]
    BY <1>3, <1>4, <1>5, <2>1, <2>3, <2>4 DEF Half
  <2>6. CASE z + p >= m
    <3>1. lo = z + p - m /\ lo < p /\ lo < m
      BY <2>1, <2>2, <2>3, <2>6
    <3>2. Bit(lo < p) = 1
      BY <3>1 DEF Bit
    <3>3. y * m + z + p = (y + 1) * m + lo
      BY <3>1
    <3>4. y + 1 < m
      <4>1. (y + 1) * m + lo < m * m
        BY <1>1, <1>3, <1>4, <1>5, <2>1, <3>3
      <4> QED BY <4>1, FirstDigit
    <3>5. (y + 1) % B = y + 1
      <4>1. PICK t \in Nat : t = y + 1
        OBVIOUS
      <4>2. t < m
        BY <3>4, <4>1
      <4>3. t % m = t
        BY <4>2, ModuloOnce
      <4> QED BY <1>5, <4>1, <4>3
    <3>6. y + 1 \in 0..(B - 1) /\ lo \in 0..(B - 1)
      BY <1>5, <3>1, <3>4
    <3>7. Half(v, k) \in dw_t /\ U(Half(v, k)) = (y + 1) * B + lo
      BY <2>5, <3>2, <3>5, <3>6, Paired
    <3> QED BY <1>1, <1>3, <1>4, <1>5, <2>1, <3>3, <3>7
  <2>7. CASE z + p < m
    <3>1. lo = z + p /\ lo >= p /\ lo < m
      BY <2>1, <2>2, <2>3, <2>7
    <3>2. Bit(lo < p) = 0 /\ y + 0 = y
      BY <3>1 DEF Bit
    <3>3. y % B = y
      BY <1>1, <1>2, <1>3, ModuloOnce
    <3>4. y \in 0..(B - 1) /\ lo \in 0..(B - 1)
      BY <1>1, <1>3, <1>5, <3>1
    <3>5. Half(v, k) \in dw_t /\ U(Half(v, k)) = y * B + lo
      BY <2>5, <3>2, <3>3, <3>4, Paired
    <3> QED BY <1>1, <1>3, <1>4, <1>5, <2>1, <3>1, <3>5
  <2> QED BY <2>2, <2>6, <2>7
<1> QED BY <1>2, <1>6, <1>7

(***************************************************************************)
(* Digits.                                                                 *)
(***************************************************************************)

\* The digits of a word, and of a fraction: long and short.
LEMMA DigitsOfWord ==
    \E q \in Nat : /\ W \div D = q /\ D * q = W /\ q >= 3 /\ 2 * q < 63
                   /\ DIGITS["fltddf"] = 2 * q - 2 /\ DIGITS["fltdsf"] = q - 2 /\ DIGITS["fixdfdi"] = 2 * q - 2
                   /\ FTOP = pow2[D * (q - 2)] /\ FTOP * B = pow2[D * (2 * q - 2)] /\ FTOP \in Nat \ {0} /\ FTOP < B
<1>1. W \in Nat /\ D \in Nat \ {0} /\ W % D = 0 /\ W > 2 * D /\ 2 * (W \div D) < 63
  BY DigitAssumption, WordAssumption
<1>2. W \div D \in Nat /\ W = ((W \div D) * D) + (W % D)
  BY <1>1, QuotientAndRest
<1>3. PICK q \in Nat : q = W \div D
  BY <1>2
<1>4. q * D = W /\ D * q = W
  BY <1>1, <1>2, <1>3
<1>5. q >= 3
  <2> SUFFICES ASSUME q <= 2 PROVE FALSE
    BY <1>3
  <2>1. q * D <= 2 * D
    BY <1>1
  <2> QED BY <1>1, <1>4, <2>1
<1>6. DIGITS["fltddf"] = 2 * q - 2 /\ DIGITS["fltdsf"] = q - 2 /\ DIGITS["fixdfdi"] = 2 * q - 2
  BY <1>3 DEF DIGITS
<1>7. D * (q - 2) = W - 2 * D
  BY <1>1, <1>4
<1>8. D * (2 * q - 2) = (W - 2 * D) + W
  BY <1>1, <1>4
<1>9. W - 2 * D \in Nat /\ W - 2 * D < W /\ W - 2 * D <= W
  BY <1>1
<1>10. pow2[(W - 2 * D) + W] = pow2[W - 2 * D] * pow2[W]
  BY <1>1, <1>9, PowersMultiply
<1>11. pow2[W - 2 * D] \in Nat \ {0} /\ 2 * pow2[W - 2 * D] <= pow2[W]
  <2>1. PICK t \in Nat : t = W - 2 * D
    BY <1>9
  <2>2. t < W /\ t <= W
    BY <1>9, <2>1, Zenon
  <2>3. pow2[t] \in Nat \ {0} /\ 2 * pow2[t] <= pow2[W]
    BY <1>1, <2>2, PowersRise
  <2> QED BY <2>1, <2>3, Zenon
<1>12. FTOP = pow2[D * (q - 2)] /\ FTOP * B = pow2[D * (2 * q - 2)] /\ FTOP \in Nat \ {0} /\ FTOP < B
  <2>1. PICK t \in Nat \ {0} : t = FTOP
    BY <1>11 DEF FTOP
  <2>2. t = pow2[W - 2 * D]
    BY <2>1 DEF FTOP
  <2>3. 2 * t <= B
    BY <1>11, <2>2, WordPower, Zenon
  <2>4. t < B
    BY <2>3, Width
  <2>5. pow2[D * (2 * q - 2)] = t * B /\ pow2[D * (q - 2)] = t
    BY <1>7, <1>8, <1>10, <2>2, WordPower, Zenon
  <2> QED BY <2>1, <2>4, <2>5, Zenon
<1> QED BY <1>1, <1>3, <1>4, <1>5, <1>6, <1>12

\* Number v has k digits.
HasDigits(v, k) == v < pow2[D * k] /\ (k = 0 \/ v >= pow2[D * (k - 1)])

\* A digit more or less.
LEMMA DigitsRise ==
    ASSUME NEW k \in Nat, NEW m \in Nat
    PROVE  /\ pow2[D * k] \in Nat \ {0} /\ pow2[D] \in Nat \ {0} /\ pow2[D] >= 2 /\ D * k \in Nat
           /\ pow2[D * (k + m)] = pow2[D * k] * pow2[D * m] /\ pow2[D * (k + 1)] = pow2[D * k] * pow2[D]
           /\ pow2[D * 0] = 1
           /\ k <= m => pow2[D * k] <= pow2[D * m]
           /\ k < m => pow2[D * k] * pow2[D] <= pow2[D * m]
<1>1. D \in Nat \ {0} /\ D * k \in Nat /\ D * m \in Nat /\ D * (k + m) = D * k + D * m /\ D * (k + 1) = D * k + D
      /\ D * 0 = 0 /\ D * (m - 1) + D = D * m
  BY DigitAssumption
<1>2. pow2[D * k + D * m] = pow2[D * k] * pow2[D * m] /\ pow2[D * k + D] = pow2[D * k] * pow2[D]
  BY <1>1, PowersMultiply
<1>3. pow2[D * k] \in Nat \ {0} /\ pow2[D] \in Nat \ {0} /\ pow2[0] = 1
  BY <1>1, Powers
<1>4. pow2[D] >= 2
  <2>1. 0 \in Nat /\ 0 < D /\ 0 <= D
    BY <1>1
  <2>2. 2 * pow2[0] <= pow2[D]
    BY <1>1, <2>1, PowersRise
  <2> QED BY <1>3, <2>2
<1>5. k <= m => pow2[D * k] <= pow2[D * m]
  <2>1. k <= m => D * k <= D * m
    BY <1>1
  <2> QED BY <1>1, <2>1, PowersRise
<1>6. k < m => pow2[D * k] * pow2[D] <= pow2[D * m]
  <2> SUFFICES ASSUME k < m PROVE pow2[D * k] * pow2[D] <= pow2[D * m]
    OBVIOUS
  <2>1. k + 1 \in Nat /\ k + 1 <= m
    OBVIOUS
  <2>2. D * (k + 1) <= D * m /\ D * (k + 1) \in Nat
    BY <1>1, <2>1
  <2>3. pow2[D * (k + 1)] <= pow2[D * m]
    BY <1>1, <2>2, PowersRise
  <2> QED BY <1>1, <1>2, <2>3
<1> QED BY <1>1, <1>2, <1>3, <1>4, <1>5, <1>6

LEMMA DigitsUnique ==
    ASSUME NEW v \in Nat, NEW k \in Nat, NEW m \in Nat, HasDigits(v, k), HasDigits(v, m)
    PROVE  k = m
<1>1. ASSUME NEW e \in Nat, NEW f \in Nat, HasDigits(v, e), HasDigits(v, f), e < f PROVE FALSE
  <2>1. f # 0 /\ f - 1 \in Nat /\ e <= f - 1
    BY <1>1
  <2>2. v < pow2[D * e] /\ v >= pow2[D * (f - 1)]
    BY <1>1, <2>1 DEF HasDigits
  <2>3. pow2[D * e] <= pow2[D * (f - 1)] /\ pow2[D * e] \in Nat /\ pow2[D * (f - 1)] \in Nat
    BY <2>1, DigitsRise
  <2> QED BY <2>2, <2>3
<1> QED BY <1>1


LEMMA NoDigits == pow2[D * 0] = 1 /\ HasDigits(0, 0)
<1>1. D * 0 = 0
  BY DigitAssumption
<1>2. pow2[D * 0] = 1
  BY <1>1, Powers
<1> QED BY <1>2 DEF HasDigits

LEMMA DigitsExist ==
    ASSUME NEW v \in Nat, NEW q \in Nat, v < pow2[D * q]
    PROVE  \E k \in Nat : k <= q /\ HasDigits(v, k)
<1> DEFINE Y == {k \in Nat : v < pow2[D * k]}
<1>1. q \in Y
  OBVIOUS
<1>2. PICK k \in Y : \A m \in Y : k <= m
  <2>1. Y \subseteq Nat /\ Y # {}
    BY <1>1
  <2> HIDE DEF Y
  <2> QED BY <2>1, LeastNumber
<1>3. k \in Nat /\ v < pow2[D * k] /\ k <= q
  BY <1>1, <1>2
<1>4. k = 0 \/ v >= pow2[D * (k - 1)]
  <2> SUFFICES ASSUME k # 0 PROVE v >= pow2[D * (k - 1)]
    OBVIOUS
  <2>1. k - 1 \in Nat /\ ~(k <= k - 1)
    BY <1>3
  <2>2. k - 1 \notin Y
    BY <1>2, <2>1
  <2>3. ~(v < pow2[D * (k - 1)])
    BY <2>1, <2>2
  <2>4. pow2[D * (k - 1)] \in Nat
    BY <2>1, DigitsRise
  <2> QED BY <2>3, <2>4
<1> QED BY <1>3, <1>4 DEF HasDigits

\* One digit less, the number divided by the base of the digits.
LEMMA DigitOff ==
    ASSUME NEW v \in Nat, v # 0, NEW k \in Nat, HasDigits(v \div pow2[D], k)
    PROVE  HasDigits(v, k + 1) /\ v \div pow2[D] \in Nat /\ v \div pow2[D] < v
<1>1. PICK p \in Nat \ {0} : p = pow2[D] /\ p >= 2
  BY DigitsRise
<1>2. PICK u \in Nat, r \in Nat : u = v \div p /\ v = u * p + r /\ r < p
  <2>1. v \div p \in Nat /\ v % p \in Nat /\ v % p < p /\ v = ((v \div p) * p) + (v % p)
    BY QuotientAndRest
  <2> QED BY <2>1
<1>3. HasDigits(u, k)
  BY <1>1, <1>2
<1>4. PICK t \in Nat \ {0} : t = pow2[D * k]
  BY DigitsRise
<1>5. pow2[D * (k + 1)] = t * p
  BY <1>1, <1>4, DigitsRise
<1>6. v < t * p
  <2>1. u <= t - 1
    BY <1>3, <1>4 DEF HasDigits
  <2>2. u * p <= (t - 1) * p
    BY <2>1
  <2>3. (t - 1) * p = t * p - p
    OBVIOUS
  <2> QED BY <1>2, <2>2, <2>3
<1>7. v >= t
  <2>1. CASE k = 0
    BY <1>4, <2>1, NoDigits
  <2>2. CASE k # 0
    <3>1. k - 1 \in Nat /\ (k - 1) + 1 = k
      BY <2>2
    <3>2. PICK s \in Nat \ {0} : s = pow2[D * (k - 1)]
      BY <3>1, DigitsRise
    <3>3. t = s * p
      BY <1>1, <1>4, <3>1, <3>2, DigitsRise
    <3>4. u >= s
      BY <1>3, <2>2, <3>2 DEF HasDigits
    <3>5. u * p >= s * p
      BY <3>4
    <3> QED BY <1>2, <3>3, <3>5
  <2> QED BY <2>1, <2>2
<1>8. u < v
  <2>1. u * p >= u * 2
    BY <1>1
  <2> QED BY <1>2, <2>1
<1>9. (k + 1) - 1 = k /\ k + 1 # 0
  OBVIOUS
<1> QED BY <1>1, <1>2, <1>4, <1>5, <1>6, <1>7, <1>8, <1>9 DEF HasDigits

\* hexdigits counts the digits of a word.
LEMMA DigitsCounted ==
    ASSUME NEW w \in Word
    PROVE  hexdigits(w) \in Nat /\ HasDigits(w, hexdigits(w))
<1> DEFINE F(c) == [v \in Word |-> IF v = 0 THEN 0 ELSE 1 + c[v \div pow2[D]]]
           g == [v \in Word |-> CHOOSE k \in Nat : HasDigits(v, k)]
           count == CHOOSE c : c = F(c)
<1>1. \A v \in Word : v \in Nat /\ v < B
  BY Width DEF Word
<1>2. ASSUME NEW v \in Word PROVE g[v] \in Nat /\ HasDigits(v, g[v])
  <2>1. v < pow2[W]
    BY <1>1, WordPower
  <2>2. \E q \in Nat : v < pow2[D * q]
    BY <2>1, DigitsOfWord
  <2>3. \E k \in Nat : HasDigits(v, k)
    BY <1>1, <2>2, DigitsExist
  <2> QED BY <2>3
<1>3. ASSUME NEW v \in Word, v # 0, NEW k \in Nat, HasDigits(v \div pow2[D], k)
      PROVE  HasDigits(v, 1 + k) /\ v \div pow2[D] \in Word /\ v \div pow2[D] < v
  <2>1. HasDigits(v, k + 1) /\ v \div pow2[D] \in Nat /\ v \div pow2[D] < v
    BY <1>1, <1>3, DigitOff
  <2> QED BY <1>1, <2>1, Width DEF Word
<1>4. ASSUME NEW v \in Word PROVE v \div pow2[D] \in Word
  <2>1. PICK p \in Nat \ {0} : p = pow2[D]
    BY DigitsRise
  <2>2. v \div p \in Nat /\ v % p \in Nat /\ v = ((v \div p) * p) + (v % p)
    BY <1>1, QuotientAndRest
  <2>3. PICK u \in Nat : u = v \div p
    BY <2>2
  <2>4. u <= u * p
    OBVIOUS
  <2>5. u <= v
    BY <1>1, <2>2, <2>3, <2>4
  <2> QED BY <1>1, <2>1, <2>3, <2>5, Width DEF Word
<1>5. ASSUME NEW v \in Word PROVE g[v] = F(g)[v]
  <2>1. CASE v = 0
    <3>1. HasDigits(v, 0) /\ 0 \in Nat
      BY <2>1, NoDigits
    <3>2. g[v] = 0
      BY <1>1, <1>2, <3>1, DigitsUnique
    <3> QED BY <2>1, <3>2
  <2>2. CASE v # 0
    <3>1. v \div pow2[D] \in Word
      BY <1>4
    <3>2. PICK k \in Nat : k = g[v \div pow2[D]] /\ HasDigits(v \div pow2[D], k)
      BY <1>2, <3>1
    <3>3. HasDigits(v, 1 + k) /\ 1 + k \in Nat
      BY <1>3, <2>2, <3>2
    <3>4. g[v] = 1 + k
      BY <1>1, <1>2, <3>3, DigitsUnique
    <3> QED BY <2>2, <3>2, <3>4
  <2> QED BY <2>1, <2>2
<1>6. g = F(g)
  BY <1>5
<1>7. count = F(count)
  <2> HIDE DEF g, F
  <2> QED BY <1>6
<1>8. hexdigits(w) = count[w]
  BY Zenon DEF hexdigits
<1> HIDE DEF g, count
<1>9. \A v \in Word : count[v] = IF v = 0 THEN 0 ELSE 1 + count[v \div pow2[D]]
  BY <1>7
<1> HIDE DEF F
<1> DEFINE Bad == {v \in Word : ~(count[v] \in Nat /\ HasDigits(v, count[v]))}
<1>10. Bad = {}
  <2> SUFFICES ASSUME Bad # {} PROVE FALSE
    OBVIOUS
  <2>1. PICK v \in Bad : \A u \in Bad : v <= u
    <3> HIDE DEF Bad
    <3>1. Bad \subseteq Nat
      BY <1>1 DEF Bad
    <3> QED BY <3>1, LeastNumber
  <2>2. v \in Word /\ v \in Nat
    BY <1>1
  <2>3. v # 0
    <3> SUFFICES ASSUME v = 0 PROVE FALSE
      OBVIOUS
    <3>1. count[v] = 0 /\ HasDigits(v, 0)
      BY <1>9, <2>2, NoDigits
    <3> QED BY <3>1
  <2>4. PICK k \in Nat : HasDigits(v \div pow2[D], k)
    BY <1>2, <1>4, <2>2
  <2>5. v \div pow2[D] \in Word /\ v \div pow2[D] < v
    BY <1>3, <2>2, <2>3, <2>4
  <2>6. v \div pow2[D] \notin Bad
    <3>1. PICK u \in Nat : u = v \div pow2[D] /\ u < v
      BY <1>1, <2>5
    <3>2. ~(v <= u)
      BY <2>2, <3>1
    <3>3. u \notin Bad
      BY <2>1, <3>2
    <3> QED BY <3>1, <3>3
  <2>7. PICK l \in Nat : l = count[v \div pow2[D]] /\ HasDigits(v \div pow2[D], l)
    BY <2>5, <2>6
  <2>8. count[v] = 1 + l
    BY <1>9, <2>2, <2>3, <2>7
  <2>9. HasDigits(v, 1 + l) /\ 1 + l \in Nat
    BY <1>3, <2>2, <2>3, <2>7
  <2> QED BY <2>8, <2>9
<1> QED BY <1>8, <1>10


\* The unit of the last digit kept of m is the one there is.
UnitOf(m, digits, u) == m < u * pow2[D * digits] /\ (u = 1 \/ m >= u * pow2[D * (digits - 1)])

LEMMA UnitUnique ==
    ASSUME NEW m \in Nat, NEW digits \in Nat \ {0}, NEW k \in Nat, NEW l \in Nat,
           UnitOf(m, digits, pow2[D * k]), UnitOf(m, digits, pow2[D * l]), k < l
    PROVE  FALSE
<1>1. digits - 1 \in Nat /\ (digits - 1) + 1 = digits
  OBVIOUS
<1>2. PICK p \in Nat \ {0} : p = pow2[D] /\ p >= 2
  BY DigitsRise
<1>3. PICK t \in Nat \ {0} : t = pow2[D * (digits - 1)] /\ pow2[D * digits] = t * p
  BY <1>1, <1>2, DigitsRise
<1>4. PICK u \in Nat \ {0} : u = pow2[D * k]
  BY DigitsRise
<1>5. PICK w \in Nat \ {0} : w = pow2[D * l]
  BY DigitsRise
<1>6. u * p <= w
  BY <1>2, <1>4, <1>5, DigitsRise
<1>7. w # 1
  <2>1. u * p >= p
    OBVIOUS
  <2> QED BY <1>2, <1>6, <2>1
<1>8. m < u * (t * p) /\ m >= w * t
  BY <1>3, <1>4, <1>5, <1>7 DEF UnitOf
<1>9. (u * p) * t <= w * t
  BY <1>6
<1>10. (u * p) * t = u * (t * p)
  OBVIOUS
<1>11. PICK y \in Nat : y = u * (t * p)
  OBVIOUS
<1>12. PICK z \in Nat : z = w * t
  OBVIOUS
<1>13. m < y /\ m >= z /\ y <= z
  BY <1>8, <1>9, <1>10, <1>11, <1>12
<1> QED BY <1>13

LEMMA UnitChosen ==
    ASSUME NEW m \in Nat, NEW digits \in Nat \ {0}, NEW k \in 0..(2 * W), NEW u, u = pow2[D * k], UnitOf(m, digits, u)
    PROVE  RoundedValue(m, digits) = ((m + (u \div 2)) \div u) * u
<1> DEFINE Units == {pow2[D * l] : l \in 0..(2 * W)}
           Good(w) == m < w * pow2[D * digits] /\ (w = 1 \/ m >= w * pow2[D * (digits - 1)])
           unit == CHOOSE w \in Units : Good(w)
<1>1. RoundedValue(m, digits) = ((m + (unit \div 2)) \div unit) * unit
  BY Zenon DEF RoundedValue
<1>2. u \in Units /\ Good(u)
  BY DEF UnitOf
<1>3. unit \in Units /\ Good(unit)
  <2> HIDE DEF Units, Good
  <2> QED BY <1>2
<1>4. PICK l \in 0..(2 * W) : unit = pow2[D * l]
  <2> HIDE DEF unit
  <2> QED BY <1>3
<1>5. UnitOf(m, digits, pow2[D * l]) /\ UnitOf(m, digits, pow2[D * k])
  <2>1. Good(pow2[D * l])
    BY <1>3, <1>4, Zenon
  <2> QED BY <2>1 DEF UnitOf
<1> HIDE DEF unit, Units, Good
<1>6. k \in Nat /\ l \in Nat
  BY Width
<1>7. ~(k < l) /\ ~(l < k)
  BY <1>5, <1>6, UnitUnique
<1>8. k = l
  BY <1>6, <1>7
<1> QED BY <1>1, <1>4, <1>8

(***************************************************************************)
(* An integer as a floating-point number.                                  *)
(***************************************************************************)

\* The digits of a magnitude that is not zero.
DigitCount(v) == IF v.hi # 0 THEN (W \div D) + hexdigits(v.hi) ELSE hexdigits(v.lo)

LEMMA MagnitudeDigits ==
    ASSUME NEW v \in dw_t, v # Zero, NEW q \in Nat, q = W \div D, D * q = W
    PROVE  /\ DigitCount(v) \in 1..(2 * q) /\ HasDigits(U(v), DigitCount(v))
<1>1. v.hi \in Nat /\ v.lo \in Nat /\ v.hi < B /\ v.lo < B /\ U(v) = v.hi * B + v.lo /\ U(v) \in Nat /\ U(v) < BB
      /\ (v.hi = 0 => v.lo # 0) /\ v.hi \in Word /\ v.lo \in Word
  <2>1. v = [hi |-> v.hi, lo |-> v.lo] /\ v.hi \in Word /\ v.lo \in Word
    BY DEF dw_t
  <2>2. v.hi = 0 => v.lo # 0
    BY <2>1 DEF Zero
  <2> QED BY <2>1, <2>2, Doubleword
<1>2. PICK m \in Nat \ {0} : m = B /\ m = pow2[D * q]
  BY Width, WordPower
<1>3. ASSUME NEW w \in Nat, NEW k \in Nat, HasDigits(w, k), w # 0, w < m PROVE k \in 1..q
  <2>1. k # 0
    <3> SUFFICES ASSUME k = 0 PROVE FALSE
      OBVIOUS
    <3>1. w < pow2[D * 0]
      BY <1>3 DEF HasDigits
    <3> QED BY <1>3, <3>1, NoDigits
  <2>2. PICK l \in Nat : l <= q /\ HasDigits(w, l)
    BY <1>2, <1>3, DigitsExist
  <2>3. k = l
    BY <1>3, <2>2, DigitsUnique
  <2> QED BY <2>1, <2>2, <2>3
<1>4. CASE v.hi # 0
  <2>1. PICK k \in Nat : k = hexdigits(v.hi) /\ HasDigits(v.hi, k)
    BY <1>1, DigitsCounted
  <2>2. k \in 1..q
    BY <1>1, <1>2, <1>3, <1>4, <2>1
  <2>3. DigitCount(v) = q + k
    BY <1>4, <2>1 DEF DigitCount
  <2>4. PICK y \in Nat : y = v.hi
    BY <1>1
  <2>5. PICK z \in Nat : z = v.lo /\ z < m
    BY <1>1, <1>2
  <2>6. k - 1 \in Nat /\ q + (k - 1) = (q + k) - 1
    BY <2>2
  <2>7. PICK s \in Nat \ {0} : s = pow2[D * (k - 1)] /\ pow2[D * ((q + k) - 1)] = m * s
    <3>1. pow2[D * (q + (k - 1))] = pow2[D * q] * pow2[D * (k - 1)] /\ pow2[D * (k - 1)] \in Nat \ {0}
      BY <2>6, DigitsRise
    <3> QED BY <1>2, <2>6, <3>1, Zenon
  <2>8. PICK t \in Nat \ {0} : t = pow2[D * k] /\ pow2[D * (q + k)] = m * t
    <3>1. pow2[D * (q + k)] = pow2[D * q] * pow2[D * k] /\ pow2[D * k] \in Nat \ {0}
      BY DigitsRise
    <3> QED BY <1>2, <3>1, Zenon
  <2>9. s <= y /\ y <= t - 1
    BY <2>1, <2>2, <2>4, <2>7, <2>8 DEF HasDigits
  <2>10. y * m <= (t - 1) * m /\ (t - 1) * m = m * t - m /\ m * s <= y * m
    BY <2>9
  <2>11. PICK ym \in Nat : ym = y * m
    OBVIOUS
  <2>12. U(v) = ym + z
    BY <1>1, <1>2, <2>4, <2>5, <2>11
  <2>13. ym + z < m * t /\ ym + z >= m * s
    BY <2>5, <2>10, <2>11
  <2>14. HasDigits(U(v), q + k)
    BY <2>7, <2>8, <2>12, <2>13 DEF HasDigits
  <2> QED BY <2>2, <2>3, <2>14
<1>5. CASE v.hi = 0
  <2>1. PICK k \in Nat : k = hexdigits(v.lo) /\ HasDigits(v.lo, k)
    BY <1>1, DigitsCounted
  <2>2. k \in 1..q
    BY <1>1, <1>2, <1>3, <1>5, <2>1
  <2>3. DigitCount(v) = k
    BY <1>5, <2>1 DEF DigitCount
  <2>4. U(v) = v.lo
    BY <1>1, <1>2, <1>5
  <2> QED BY <2>1, <2>2, <2>3, <2>4
<1> QED BY <1>4, <1>5


\* Fraction f and digit count c stand for m: normalized, exact when digits are
\* left over and rounded when not.
Converted(m, digits, f, c) ==
    /\ f \in dw_t /\ c \in Nat
    /\ U(f) < pow2[D * digits] /\ U(f) >= pow2[D * (digits - 1)]
    /\ c < digits => U(f) = m * pow2[D * (digits - c)]
    /\ c >= digits => U(f) * pow2[D * (c - digits)] = RoundedValue(m, digits)

LEMMA Widened ==
    ASSUME NEW q \in Nat, D * q = W, NEW v \in dw_t, NEW digits \in Nat \ {0}, digits <= 2 * q - 2,
           NEW k \in 1..digits, HasDigits(U(v), k)
    PROVE  Converted(U(v), digits, shl64(v, D * (digits - k)), k)
<1>1. PICK m \in Nat : m = U(v)
  BY Doubleword
<1>2. PICK l \in Nat : l = digits - k
  OBVIOUS
<1>3. D \in Nat \ {0} /\ W \in Nat /\ W > 0
  BY DigitAssumption, WordAssumption
<1>4. D * l \in Nat /\ ~(D * l >= 2 * W)
  <2>1. l <= 2 * q - 1
    BY <1>2
  <2>2. D * l <= D * (2 * q - 1)
    BY <1>3, <2>1
  <2>3. D * (2 * q - 1) = 2 * W - D
    BY <1>3
  <2>4. D * l \in Nat
    BY <1>3
  <2> QED BY <1>3, <2>2, <2>3, <2>4
<1>5. PICK p \in Nat \ {0} : p = pow2[D * l]
  BY DigitsRise
<1>6. k - 1 \in Nat /\ (k - 1) + l = digits - 1 /\ k + l = digits /\ k \in Nat /\ digits <= 2 * q /\ 2 * q \in Nat
  BY <1>2
<1>7. PICK s \in Nat \ {0} : s = pow2[D * (k - 1)] /\ pow2[D * (digits - 1)] = s * p
  <2>1. pow2[D * ((k - 1) + l)] = pow2[D * (k - 1)] * pow2[D * l] /\ pow2[D * (k - 1)] \in Nat \ {0}
    BY <1>6, DigitsRise
  <2> QED BY <1>5, <1>6, <2>1, Zenon
<1>8. PICK t \in Nat \ {0} : t = pow2[D * k] /\ pow2[D * digits] = t * p
  <2>1. pow2[D * (k + l)] = pow2[D * k] * pow2[D * l] /\ pow2[D * k] \in Nat \ {0}
    BY <1>6, DigitsRise
  <2> QED BY <1>5, <1>6, <2>1, Zenon
<1>9. m < t /\ m >= s
  BY <1>1, <1>7, <1>8 DEF HasDigits
<1>10. PICK mp \in Nat : mp = m * p
  OBVIOUS
<1>11. mp < t * p /\ mp >= s * p
  BY <1>9, <1>10
<1>12. pow2[D * digits] <= BB
  <2>1. D * (2 * q) = 2 * W
    BY <1>3
  <2>2. pow2[D * digits] <= pow2[D * (2 * q)]
    BY <1>6, DigitsRise
  <2> QED BY <2>1, <2>2, WordPower
<1>13. mp % BB = mp
  <2>1. PICK o \in Nat \ {0} : o = BB
    BY Width
  <2>2. mp < o
    BY <1>8, <1>11, <1>12, <2>1
  <2>3. mp % o = mp
    BY <2>2, ModuloOnce
  <2> QED BY <2>1, <2>3
<1>14. PICK f : f = shl64(v, D * l)
  OBVIOUS
<1>15. f \in dw_t /\ U(f) = mp
  <2>1. f \in dw_t /\ U(f) = (U(v) * pow2[D * l]) % BB
    BY <1>4, <1>14, ShiftsLeft
  <2> QED BY <1>1, <1>5, <1>10, <1>13, <2>1
<1>16. k < digits => U(f) = m * pow2[D * (digits - k)]
  BY <1>2, <1>5, <1>10, <1>15
<1>17. k >= digits => U(f) * pow2[D * (k - digits)] = RoundedValue(m, digits)
  <2> SUFFICES ASSUME k >= digits PROVE U(f) * pow2[D * (k - digits)] = RoundedValue(m, digits)
    OBVIOUS
  <2>1. l = 0 /\ k - digits = 0 /\ k = digits
    BY <1>2
  <2>2. pow2[D * 0] = 1 /\ p = 1
    BY <1>5, <2>1, NoDigits
  <2>3. mp = m /\ m * 1 = m
    BY <1>10, <2>2
  <2>4. m < 1 * pow2[D * digits]
    BY <1>8, <1>9, <2>2
  <2>5. UnitOf(m, digits, 1)
    BY <2>4 DEF UnitOf
  <2>6. 0 \in 0..(2 * W)
    BY <1>3
  <2>7. RoundedValue(m, digits) = ((m + (1 \div 2)) \div 1) * 1
    BY <2>2, <2>5, <2>6, UnitChosen
  <2>8. ((m + (1 \div 2)) \div 1) * 1 = m
    OBVIOUS
  <2> QED BY <1>15, <2>1, <2>2, <2>3, <2>7, <2>8
<1>18. U(f) < pow2[D * digits] /\ U(f) >= pow2[D * (digits - 1)]
  BY <1>7, <1>8, <1>11, <1>15
<1>19. Converted(m, digits, f, k)
  BY <1>6, <1>15, <1>16, <1>17, <1>18 DEF Converted
<1> QED BY <1>1, <1>2, <1>14, <1>19


\* The magnitude with half of the last digit kept added, cut to the digits: no
\* carry out of the double word, and at most the first number too long.
Cut(v, k, digits) == shr64(Half(v, D * (k - digits) - 1), D * (k - digits))

LEMMA CutRounds ==
    ASSUME NEW q \in Nat, D * q = W, q >= 3, NEW v \in dw_t, U(v) <= HH,
           NEW digits \in Nat \ {0}, digits >= q - 2, NEW k \in (digits + 1)..(2 * q), HasDigits(U(v), k)
    PROVE  /\ Cut(v, k, digits) \in dw_t
           /\ U(Cut(v, k, digits)) * pow2[D * (k - digits)] = RoundedValue(U(v), digits)
           /\ U(Cut(v, k, digits)) >= pow2[D * (digits - 1)] /\ U(Cut(v, k, digits)) <= pow2[D * digits]
<1>1. PICK m \in Nat : m = U(v) /\ m <= HH
  BY Doubleword
<1>2. PICK l \in Nat : l = k - digits /\ l >= 1 /\ l <= q + 2
  OBVIOUS
<1>3. D \in Nat \ {0} /\ W \in Nat /\ W > 0
  BY DigitAssumption, WordAssumption
<1>4. PICK t \in Nat \ {0} : t = D * l /\ t <= 2 * W - D
  <2>1. D * l <= D * (2 * q - 1)
    BY <1>2, <1>3
  <2>2. D * (2 * q - 1) = 2 * W - D
    BY <1>3
  <2>3. D * l >= D * 1
    BY <1>2, <1>3
  <2>4. D * l \in Nat
    BY <1>3
  <2> QED BY <1>3, <2>1, <2>2, <2>3, <2>4
<1>5. t - 1 \in Nat /\ (t - 1) + 1 = t /\ t - 1 < 2 * W /\ ~(t >= 2 * W) /\ t - 1 < 2 * W - 1 /\ t - 1 <= 2 * W - 1
      /\ 2 * W - 1 \in Nat
  BY <1>3, <1>4
<1>6. PICK hf \in Nat \ {0} : hf = pow2[t - 1]
  BY <1>5, Powers
<1>7. PICK u \in Nat \ {0} : u = pow2[t] /\ u = 2 * hf
  BY <1>5, <1>6, Powers
<1>8. 2 * hf <= HH
  <2>1. 2 * pow2[t - 1] <= pow2[2 * W - 1]
    BY <1>5, PowersRise
  <2> QED BY <1>6, <2>1, WordPower
<1>9. m + hf < BB
  <2>1. PICK o \in Nat \ {0} : o = HH /\ BB = 2 * o
    BY Width
  <2>2. m <= o /\ 2 * hf <= o
    BY <1>1, <1>8, <2>1
  <2> QED BY <2>1, <2>2
<1>10. PICK y : y = Half(v, t - 1)
  OBVIOUS
<1>11. y \in dw_t /\ U(y) = m + hf
  BY <1>1, <1>5, <1>6, <1>9, <1>10, HalfAdds
<1>12. PICK g : g = shr64(y, t)
  OBVIOUS
<1>13. g \in dw_t /\ U(g) = (m + hf) \div u
  <2>1. g \in dw_t /\ U(g) = U(y) \div pow2[t]
    BY <1>5, <1>11, <1>12, ShiftsRight
  <2> QED BY <1>7, <1>11, <2>1
<1>14. PICK z \in Nat : z = m + hf
  OBVIOUS
<1>15. PICK e \in Nat, r \in Nat : e = z \div u /\ z = e * u + r /\ r < u
  <2>1. z \div u \in Nat /\ z % u \in Nat /\ z % u < u /\ z = ((z \div u) * u) + (z % u)
    BY QuotientAndRest
  <2> QED BY <2>1
<1>16. digits - 1 \in Nat /\ (digits - 1) + l = k - 1 /\ digits + l = k /\ k \in Nat /\ k # 0
  BY <1>2
<1>17. PICK T \in Nat \ {0} : T = pow2[D * digits] /\ pow2[D * k] = T * u
  <2>1. pow2[D * (digits + l)] = pow2[D * digits] * pow2[D * l] /\ pow2[D * digits] \in Nat \ {0}
    BY DigitsRise
  <2> QED BY <1>4, <1>7, <1>16, <2>1, Zenon
<1>18. PICK s \in Nat \ {0} : s = pow2[D * (digits - 1)] /\ pow2[D * (k - 1)] = s * u
  <2>1. pow2[D * ((digits - 1) + l)] = pow2[D * (digits - 1)] * pow2[D * l] /\ pow2[D * (digits - 1)] \in Nat \ {0}
    BY <1>16, DigitsRise
  <2> QED BY <1>4, <1>7, <1>16, <2>1, Zenon
<1>19. m < T * u /\ m >= s * u
  BY <1>1, <1>16, <1>17, <1>18 DEF HasDigits
<1>20. e >= s
  <2> SUFFICES ASSUME e <= s - 1 PROVE FALSE
    OBVIOUS
  <2>1. e * u <= (s - 1) * u
    OBVIOUS
  <2>2. (s - 1) * u = s * u - u
    OBVIOUS
  <2> QED BY <1>14, <1>15, <1>19, <2>1, <2>2
<1>21. e <= T
  <2> SUFFICES ASSUME e >= T + 1 PROVE FALSE
    OBVIOUS
  <2>1. e * u >= (T + 1) * u
    OBVIOUS
  <2>2. (T + 1) * u = T * u + u
    OBVIOUS
  <2> QED BY <1>7, <1>14, <1>15, <1>19, <2>1, <2>2
<1>22. UnitOf(m, digits, u)
  <2>1. T * u = u * T /\ s * u = u * s
    OBVIOUS
  <2> QED BY <1>17, <1>18, <1>19, <2>1 DEF UnitOf
<1>23. l \in 0..(2 * W)
  <2>1. D * q >= q
    BY <1>3
  <2> QED BY <1>2, <1>3, <2>1
<1>24. RoundedValue(m, digits) = ((m + (u \div 2)) \div u) * u
  <2>1. u = pow2[D * l]
    BY <1>4, <1>7, Zenon
  <2> QED BY <1>22, <1>23, <2>1, UnitChosen
<1>25. u \div 2 = hf
  BY <1>7
<1>26. RoundedValue(m, digits) = e * u
  BY <1>14, <1>15, <1>24, <1>25
<1>27. Cut(v, k, digits) = g
  BY <1>2, <1>4, <1>10, <1>12, Zenon DEF Cut
<1>28. U(g) = e
  BY <1>13, <1>14, <1>15
<1>29. pow2[D * (k - digits)] = u
  BY <1>2, <1>4, <1>7, Zenon
<1> QED BY <1>1, <1>13, <1>17, <1>18, <1>20, <1>21, <1>26, <1>27, <1>28, <1>29

\* The first word of a fraction is too large just when the fraction is.
LEMMA TooLong ==
    ASSUME NEW g \in dw_t, FTOP \in Nat \ {0}, FTOP < B
    PROVE  /\ g.hi >= FTOP <=> U(g) >= FTOP * B
           /\ U(g) <= FTOP => g.hi = 0 /\ g.lo = U(g)
<1>1. PICK y \in Nat : y = g.hi
  BY Doubleword
<1>2. PICK m \in Nat \ {0} : m = B
  BY Width
<1>3. PICK z \in Nat : z = g.lo /\ z < m
  BY <1>2, Doubleword
<1>4. PICK t \in Nat \ {0} : t = FTOP /\ t < m
  BY <1>2
<1>5. U(g) = y * m + z
  BY <1>1, <1>2, <1>3, Doubleword
<1>6. y >= t => y * m >= t * m
  OBVIOUS
<1>7. ~(y >= t) => y * m + m <= t * m
  <2> SUFFICES ASSUME y <= t - 1 PROVE y * m + m <= t * m
    OBVIOUS
  <2>1. y * m <= (t - 1) * m
    OBVIOUS
  <2>2. (t - 1) * m = t * m - m
    OBVIOUS
  <2> QED BY <2>1, <2>2
<1>8. y >= t <=> y * m + z >= t * m
  <2>1. PICK ym \in Nat : ym = y * m
    OBVIOUS
  <2>2. PICK tm \in Nat : tm = t * m
    OBVIOUS
  <2>3. (y >= t => ym >= tm) /\ (~(y >= t) => ym + m <= tm)
    BY <1>6, <1>7, <2>1, <2>2
  <2>4. y >= t <=> ym + z >= tm
    BY <1>3, <2>3
  <2> QED BY <2>1, <2>2, <2>4
<1>9. y * m + z <= t => y = 0 /\ y * m + z = z
  <2> SUFFICES ASSUME y * m + z <= t PROVE y = 0 /\ y * m + z = z
    OBVIOUS
  <2>1. y > 0 => y * m >= m
    OBVIOUS
  <2>2. y * m \in Nat
    OBVIOUS
  <2>3. y = 0
    BY <1>4, <2>1, <2>2
  <2> QED BY <2>3
<1> QED BY <1>1, <1>2, <1>3, <1>4, <1>5, <1>8, <1>9


LEMMA RoundsOnce ==
    ASSUME NEW q \in Nat, D * q = W, q >= 3, NEW v \in dw_t, U(v) <= HH,
           NEW digits \in Nat \ {0}, digits = 2 * q - 2 \/ digits = q - 2,
           NEW k \in (digits + 1)..(2 * q), HasDigits(U(v), k)
    PROVE  Converted(U(v), digits, Rounded(v, k, digits).f, Rounded(v, k, digits).n) /\ Rounded(v, k, digits).n \in k..(k + 1)
<1>1. PICK g : g = Cut(v, k, digits)
  OBVIOUS
<1>2. digits >= q - 2 /\ k \in Nat
  OBVIOUS
<1>3. PICK l \in Nat \ {0} : l = k - digits /\ (k + 1) - digits = l + 1 /\ k >= digits /\ k + 1 >= digits /\ ~(k < digits) /\ ~(k + 1 < digits)
  OBVIOUS
<1>4. g \in dw_t /\ U(g) * pow2[D * l] = RoundedValue(U(v), digits)
      /\ U(g) >= pow2[D * (digits - 1)] /\ U(g) <= pow2[D * digits]
  BY <1>1, <1>2, <1>3, CutRounds
<1>5. PICK e \in Nat : e = U(g)
  BY <1>4, Doubleword
<1>6. digits - 1 \in Nat /\ (digits - 1) + 1 = digits
  OBVIOUS
<1>7. PICK p \in Nat \ {0} : p = pow2[D] /\ p >= 2
  BY DigitsRise
<1>8. PICK s \in Nat \ {0} : s = pow2[D * (digits - 1)] /\ pow2[D * digits] = s * p
  <2>1. pow2[D * ((digits - 1) + 1)] = pow2[D * (digits - 1)] * pow2[D] /\ pow2[D * (digits - 1)] \in Nat \ {0}
    BY <1>6, DigitsRise
  <2> QED BY <1>6, <1>7, <2>1, Zenon
<1>9. PICK u \in Nat \ {0} : u = pow2[D * l] /\ pow2[D * (l + 1)] = u * p
  <2>1. pow2[D * (l + 1)] = pow2[D * l] * pow2[D] /\ pow2[D * l] \in Nat \ {0}
    BY DigitsRise
  <2> QED BY <1>7, <2>1, Zenon
<1>10. e >= s /\ e <= s * p /\ e * u = RoundedValue(U(v), digits)
  BY <1>4, <1>5, <1>8, <1>9
<1> DEFINE top == IF digits = DIGITS.fltddf THEN g.hi ELSE g.lo
<1>11. top >= FTOP <=> e >= s * p
  <2>1. PICK c \in Nat : /\ W \div D = c /\ DIGITS["fltddf"] = 2 * c - 2 /\ D * c = W
                         /\ FTOP = pow2[D * (c - 2)] /\ FTOP * B = pow2[D * (2 * c - 2)] /\ FTOP \in Nat \ {0} /\ FTOP < B
    BY DigitsOfWord
  <2>2. c = q
    <3>1. D \in Nat \ {0}
      BY DigitAssumption
    <3>2. D * c = D * q
      BY <2>1
    <3> QED BY <3>1, <3>2
  <2>3. CASE digits = 2 * q - 2
    <3>1. top = g.hi /\ FTOP * B = s * p
      BY <1>8, <2>1, <2>2, <2>3
    <3>2. g.hi >= FTOP <=> U(g) >= FTOP * B
      BY <1>4, <2>1, TooLong
    <3> QED BY <1>5, <3>1, <3>2
  <2>4. CASE digits = q - 2
    <3>1. digits # 2 * q - 2
      BY <2>4
    <3>2. top = g.lo /\ FTOP = s * p
      BY <1>8, <2>1, <2>2, <2>4, <3>1
    <3>3. U(g) <= FTOP
      BY <1>5, <1>10, <3>2
    <3>4. g.lo = U(g)
      BY <1>4, <2>1, <3>3, TooLong
    <3> QED BY <1>5, <3>2, <3>4
  <2> QED BY <2>3, <2>4
<1>12. Rounded(v, k, digits) = IF top >= FTOP THEN [f |-> shr64(g, D), n |-> k + 1] ELSE [f |-> g, n |-> k]
  BY <1>1, Zenon DEF Rounded, Cut
<1> HIDE DEF top
<1>13. CASE top >= FTOP
  <2>1. PICK f : f = shr64(g, D)
    OBVIOUS
  <2>2. Rounded(v, k, digits).f = f /\ Rounded(v, k, digits).n = k + 1
    BY <1>12, <1>13, <2>1
  <2>3. e = s * p
    <3>1. PICK sp \in Nat : sp = s * p
      OBVIOUS
    <3>2. e >= sp /\ e <= sp
      BY <1>10, <1>11, <1>13, <3>1
    <3> QED BY <3>1, <3>2
  <2>4. f \in dw_t /\ U(f) = s
    <3>1. D \in Nat /\ ~(D >= 2 * W)
      BY DigitAssumption, WordAssumption
    <3>2. f \in dw_t /\ U(f) = U(g) \div pow2[D]
      BY <1>4, <2>1, <3>1, ShiftsRight
    <3>3. e \div p = s
      BY <2>3, QuotientIs
    <3> QED BY <1>5, <1>7, <3>2, <3>3
  <2>5. s < s * p /\ s >= s
    BY <1>7
  <2>6. s * (u * p) = (s * p) * u
    OBVIOUS
  <2>7. U(f) * pow2[D * ((k + 1) - digits)] = RoundedValue(U(v), digits)
    BY <1>3, <1>9, <1>10, <2>3, <2>4, <2>6
  <2>8. Converted(U(v), digits, f, k + 1)
    <3>1. k + 1 \in Nat
      BY <1>2
    <3>2. U(f) < pow2[D * digits] /\ U(f) >= pow2[D * (digits - 1)]
      BY <1>8, <2>4, <2>5, Zenon
    <3> QED BY <1>3, <2>4, <2>7, <3>1, <3>2, Zenon DEF Converted
  <2>9. k + 1 \in k..(k + 1)
    BY <1>2
  <2> QED BY <2>2, <2>8, <2>9
<1>14. CASE ~(top >= FTOP)
  <2>1. Rounded(v, k, digits).f = g /\ Rounded(v, k, digits).n = k
    BY <1>12, <1>14
  <2>2. e < s * p
    <3>1. PICK sp \in Nat : sp = s * p
      OBVIOUS
    <3>2. ~(e >= sp)
      BY <1>11, <1>14, <3>1
    <3> QED BY <3>1, <3>2
  <2>3. Converted(U(v), digits, g, k)
    <3>1. U(g) < pow2[D * digits] /\ U(g) >= pow2[D * (digits - 1)]
      BY <1>4, <1>5, <1>8, <2>2, Zenon
    <3> QED BY <1>2, <1>3, <1>4, <3>1, Zenon DEF Converted
  <2>4. k \in k..(k + 1)
    BY <1>2
  <2> QED BY <2>1, <2>3, <2>4
<1> QED BY <1>13, <1>14


\* What the conversions promise of a value r returned, in numbers.
FractionOf(g, r) == IF g = "fltddf" THEN r.hi * B + r.lo ELSE r.hi
Excess(g, r) == r.e - 64 - DIGITS[g]
FloatExact(g, s, r) ==
    /\ r.hi < FTOP /\ r.e < 128
    /\ Abs(s) # 0 => FractionOf(g, r) >= pow2[D * (DIGITS[g] - 1)] /\ r.neg = (s < 0)
    /\ IF Abs(s) # 0 /\ Excess(g, r) < 0
       THEN FractionOf(g, r) = Abs(s) * pow2[D * (0 - Excess(g, r))]
       ELSE FractionOf(g, r) * pow2[D * (IF Abs(s) = 0 THEN 0 ELSE Excess(g, r))] = RoundedValue(Abs(s), DIGITS[g])

Shift(v) == D * (v.e - 64 - DIGITS["fixdfdi"])
IntegerPart(v) ==
    IF Shift(v) >= 2 * W \/ Shift(v) <= 0 - 2 * W THEN 0
    ELSE IF Shift(v) >= 0 THEN (v.hi * B + v.lo) * pow2[Shift(v)] ELSE (v.hi * B + v.lo) \div pow2[-Shift(v)]
FixExact(v, r) == r.hi * B + r.lo = (IF v.neg THEN -IntegerPart(v) ELSE IntegerPart(v)) % (B * B)

LEMMA ConversionRestated ==
    ConversionsExact <=> /\ fn \in Floats /\ pc = "ret" => FloatExact(fn, S(a), ret)
                         /\ fn \in Fixes /\ pc = "ret" => FixExact(a, ret)
BY Zenon DEF ConversionsExact, FloatExact, FixExact, FractionOf, Excess, Shift, IntegerPart, U

LEMMA ConversionRestatedNext ==
    ASSUME fn' = fn, a' = a
    PROVE  ConversionsExact' <=> /\ fn \in Floats /\ pc' = "ret" => FloatExact(fn, S(a), ret')
                                 /\ fn \in Fixes /\ pc' = "ret" => FixExact(a, ret')
<1>1. S(a)' = S(a)
  BY DEF S, U
<1> QED BY <1>1, Zenon DEF ConversionsExact, FloatExact, FixExact, FractionOf, Excess, Shift, IntegerPart, U, S

\* The arguments of the conversions.
ConvInv == (fn \in Floats => a \in dw_t) /\ (fn \in Fixes => a \in Hfp)

LEMMA ConvStarts == Init => ConvInv /\ ConversionsExact
<1> SUFFICES ASSUME Init PROVE ConvInv /\ ConversionsExact
  OBVIOUS
<1>1. ConvInv
  BY DEF Init, ConvInv, Divides, Traps, Wraps, Floats, Fixes
<1> QED BY <1>1, ConversionRestated DEF Init

LEMMA ArgsStay == [Next]_vars => fn' = fn /\ a' = a
<1> SUFFICES ASSUME [Next]_vars PROVE fn' = fn /\ a' = a
  OBVIOUS
<1>1. CASE DivideByZero \/ DivideWord \/ StartDivide \/ Round \/ EndDivide
  BY <1>1 DEF DivideByZero, DivideWord, StartDivide, Round, EndDivide, Return, args
<1>2. CASE muldi3 \/ negdi2 \/ cmpdi2 \/ addvdi3 \/ subvdi3 \/ negvdi2 \/ mulvsi3 \/ mulvdi3
  BY <1>2 DEF muldi3, negdi2, cmpdi2, addvdi3, subvdi3, negvdi2, mulvsi3, mulvdi3, ReturnUnless, Abort, Return, args
<1>3. CASE fixdfdi \/ hfp_float
  BY <1>3 DEF fixdfdi, hfp_float, Return, args
<1>4. CASE UNCHANGED vars
  BY <1>4 DEF vars
<1> QED BY <1>1, <1>2, <1>3, <1>4 DEF Next

\* The value hfp_float returns, from the digits and the fraction.
Floated(g, v, f, c) ==
    IF g = "fltddf" THEN [neg |-> Neg(v), e |-> 64 + c, hi |-> f.hi, lo |-> f.lo]
                    ELSE [neg |-> Neg(v), e |-> 64 + c, hi |-> f.lo, lo |-> 0]

LEMMA FloatedExact ==
    ASSUME NEW g \in Floats, NEW v \in dw_t, Abs(S(v)) # 0, NEW f, NEW c \in Nat, c < 64,
           Converted(Abs(S(v)), DIGITS[g], f, c), NEW r, r = Floated(g, v, f, c)
    PROVE  FloatExact(g, S(v), r)
<1>1. PICK q \in Nat : /\ W \div D = q /\ D * q = W /\ q >= 3
                       /\ DIGITS["fltddf"] = 2 * q - 2 /\ DIGITS["fltdsf"] = q - 2
                       /\ FTOP = pow2[D * (q - 2)] /\ FTOP * B = pow2[D * (2 * q - 2)] /\ FTOP \in Nat \ {0} /\ FTOP < B
  BY DigitsOfWord
<1>2. PICK dig \in Nat \ {0} : dig = DIGITS[g]
  BY <1>1 DEF Floats
<1>3. PICK m : m = Abs(S(v)) /\ m # 0
  OBVIOUS
<1>4. /\ f \in dw_t /\ U(f) < pow2[D * dig] /\ U(f) >= pow2[D * (dig - 1)]
      /\ c < dig => U(f) = m * pow2[D * (dig - c)]
      /\ c >= dig => U(f) * pow2[D * (c - dig)] = RoundedValue(m, dig)
  BY <1>2, <1>3, Zenon DEF Converted
<1>5. Neg(v) <=> S(v) < 0
  BY MagnitudesOf
<1>6. FractionOf(g, r) = U(f) /\ r.hi < FTOP
  <2>1. CASE g = "fltddf"
    <3>1. r.hi = f.hi /\ r.lo = f.lo
      BY <2>1 DEF Floated
    <3>2. ~(U(f) >= FTOP * B)
      <4>1. PICK e \in Nat : e = U(f)
        BY <1>4, Doubleword
      <4>2. PICK t \in Nat : t = FTOP * B
        BY <1>1, Width
      <4>3. e < t
        BY <1>1, <1>2, <1>4, <2>1, <4>1, <4>2
      <4> QED BY <4>1, <4>2, <4>3
    <3>3. ~(f.hi >= FTOP)
      BY <1>1, <1>4, <3>2, TooLong
    <3>4. f.hi \in Nat /\ U(f) = f.hi * B + f.lo
      BY <1>4, Doubleword
    <3> QED BY <1>1, <2>1, <3>1, <3>3, <3>4 DEF FractionOf
  <2>2. CASE g # "fltddf"
    <3>1. r.hi = f.lo /\ g = "fltdsf"
      BY <2>2 DEF Floated, Floats
    <3>2. U(f) < FTOP /\ U(f) <= FTOP
      <4>1. PICK e \in Nat : e = U(f)
        BY <1>4, Doubleword
      <4>2. e < FTOP
        BY <1>1, <1>2, <1>4, <3>1, <4>1
      <4> QED BY <1>1, <4>1, <4>2
    <3>3. f.lo = U(f)
      BY <1>1, <1>4, <3>2, TooLong
    <3> QED BY <2>2, <3>1, <3>2, <3>3 DEF FractionOf
  <2> QED BY <2>1, <2>2
<1>7. r.e = 64 + c /\ r.neg = Neg(v)
  BY DEF Floated
<1>8. r.e < 128 /\ Excess(g, r) = c - dig
  BY <1>2, <1>7 DEF Excess
<1>9. r.neg = (S(v) < 0)
  BY <1>5, <1>7 DEF Neg
<1>10. CASE c < dig
  <2>1. Excess(g, r) < 0 /\ 0 - Excess(g, r) = dig - c
    BY <1>8, <1>10
  <2> QED BY <1>2, <1>3, <1>4, <1>6, <1>8, <1>9, <1>10, <2>1, Zenon DEF FloatExact
<1>11. CASE ~(c < dig)
  <2>1. ~(Excess(g, r) < 0) /\ c >= dig
    BY <1>8, <1>11
  <2> QED BY <1>2, <1>3, <1>4, <1>6, <1>8, <1>9, <2>1, Zenon DEF FloatExact
<1> QED BY <1>10, <1>11


LEMMA ZeroExact ==
    ASSUME NEW g \in Floats, NEW s \in Int, Abs(s) = 0, NEW r, r = [neg |-> FALSE, e |-> 0, hi |-> 0, lo |-> 0]
    PROVE  FloatExact(g, s, r)
<1>1. PICK q \in Nat : /\ q >= 3 /\ DIGITS["fltddf"] = 2 * q - 2 /\ DIGITS["fltdsf"] = q - 2 /\ FTOP \in Nat \ {0}
  BY DigitsOfWord
<1>2. PICK dig \in Nat \ {0} : dig = DIGITS[g]
  BY <1>1 DEF Floats
<1>3. r.hi = 0 /\ r.lo = 0 /\ r.e = 0 /\ 0 * B + 0 = 0
  BY Width
<1>4. FractionOf(g, r) = 0
  BY <1>3 DEF FractionOf
<1>5. pow2[D * 0] = 1
  BY NoDigits
<1>6. pow2[D * dig] \in Nat \ {0}
  BY DigitsRise
<1>7. 0 < 1 * pow2[D * dig]
  BY <1>6
<1>8. UnitOf(0, dig, 1)
  BY <1>7 DEF UnitOf
<1>9. 0 \in 0..(2 * W) /\ 0 \in Nat
  BY Width
<1>10. RoundedValue(0, dig) = ((0 + (1 \div 2)) \div 1) * 1
  BY <1>5, <1>8, <1>9, UnitChosen
<1>11. ((0 + (1 \div 2)) \div 1) * 1 = 0
  OBVIOUS
<1>12. FractionOf(g, r) * pow2[D * 0] = RoundedValue(0, dig)
  BY <1>4, <1>5, <1>10, <1>11
<1>13. r.hi < FTOP /\ r.e < 128
  BY <1>1, <1>3
<1> QED BY <1>2, <1>12, <1>13, Zenon DEF FloatExact

LEMMA FloatMoves == ConvInv /\ hfp_float => ConversionsExact'
<1> SUFFICES ASSUME ConvInv, hfp_float PROVE ConversionsExact'
  OBVIOUS
<1> DEFINE m == MagnitudeOf(a)
           digits == DIGITS[fn]
           c == DigitCount(m)
           r == IF c <= digits THEN [f |-> shl64(m, D * (digits - c)), n |-> c] ELSE Rounded(m, c, digits)
<1>1. fn \in Floats /\ a \in dw_t /\ fn' = fn /\ a' = a /\ pc' = "ret" /\ fn \notin Fixes
  BY DEF hfp_float, Return, ConvInv, args, Floats, Fixes
<1>2. ret' = IF m = Zero THEN [neg |-> FALSE, e |-> 0, hi |-> 0, lo |-> 0] ELSE Floated(fn, a, r.f, r.n)
  BY Zenon DEF hfp_float, Return, Floated, DigitCount, MagnitudeOf
<1>3. m \in dw_t /\ U(m) = Abs(S(a)) /\ S(a) \in Int /\ (m = Zero <=> U(m) = 0)
  BY <1>1, MagnitudesOf, Doubleword
<1>4. U(m) <= HH
  <2>1. S(a) >= -HH /\ S(a) < HH /\ HH \in Nat
    BY <1>1, Doubleword, Width
  <2> QED BY <1>3, <2>1 DEF Abs
<1>5. FloatExact(fn, S(a), ret')
  <2>1. CASE m = Zero
    BY <1>1, <1>2, <1>3, <2>1, ZeroExact
  <2>2. CASE m # Zero
    <3>1. PICK q \in Nat : /\ W \div D = q /\ D * q = W /\ q >= 3 /\ 2 * q < 63
                           /\ DIGITS["fltddf"] = 2 * q - 2 /\ DIGITS["fltdsf"] = q - 2
      BY DigitsOfWord
    <3>2. PICK dig \in Nat \ {0} : dig = digits /\ (dig = 2 * q - 2 \/ dig = q - 2)
      BY <1>1, <3>1 DEF Floats
    <3>3. PICK v : v = m
      OBVIOUS
    <3>4. v \in dw_t /\ v # Zero /\ U(v) <= HH /\ U(v) = Abs(S(a)) /\ Abs(S(a)) # 0
      BY <1>3, <1>4, <2>2, <3>3
    <3>5. PICK k \in 1..(2 * q) : k = DigitCount(v) /\ HasDigits(U(v), k)
      BY <3>1, <3>4, MagnitudeDigits
    <3>6. r = IF k <= dig THEN [f |-> shl64(v, D * (dig - k)), n |-> k] ELSE Rounded(v, k, dig)
      BY <3>2, <3>3, <3>5, Zenon
    <3>7. Converted(U(v), dig, r.f, r.n) /\ r.n \in Nat /\ r.n < 64
      <4>1. CASE k <= dig
        <5>1. r.f = shl64(v, D * (dig - k)) /\ r.n = k
          BY <3>6, <4>1
        <5>2. k \in 1..dig /\ dig <= 2 * q - 2 /\ k \in Nat /\ k < 64
          BY <3>1, <3>2, <4>1
        <5>3. Converted(U(v), dig, shl64(v, D * (dig - k)), k)
          BY <3>1, <3>4, <3>5, <5>2, Widened
        <5> QED BY <5>1, <5>2, <5>3
      <4>2. CASE ~(k <= dig)
        <5>1. r = Rounded(v, k, dig)
          BY <3>6, <4>2
        <5>2. k \in (dig + 1)..(2 * q)
          BY <4>2
        <5>3. Converted(U(v), dig, r.f, r.n) /\ r.n \in k..(k + 1)
          BY <3>1, <3>2, <3>4, <3>5, <5>1, <5>2, RoundsOnce
        <5>4. PICK e \in k..(k + 1) : e = r.n
          BY <5>3
        <5>5. e \in Nat /\ e < 64
          BY <3>1
        <5> QED BY <5>3, <5>4, <5>5
      <4> QED BY <4>1, <4>2
    <3>8. ret' = Floated(fn, a, r.f, r.n)
      BY <1>2, <2>2
    <3> HIDE DEF r, m, c
    <3>9. Converted(Abs(S(a)), DIGITS[fn], r.f, r.n)
      BY <3>2, <3>4, <3>7
    <3> QED BY <1>1, <3>4, <3>7, <3>8, <3>9, FloatedExact
  <2> QED BY <2>1, <2>2
<1> QED BY <1>1, <1>5, ConversionRestatedNext

\* A number modulo m, and the complement of it.
LEMMA ModuloNegated ==
    ASSUME NEW m \in Nat \ {0}, NEW v \in Int
    PROVE  /\ v % m \in Nat /\ v % m < m
           /\ (-v) % m = IF v % m = 0 THEN 0 ELSE m - (v % m)
<1>1. PICK k \in Int, c \in Nat : v = k * m + c /\ c < m /\ c = v % m
  <2>1. v % m \in Nat /\ v % m < m /\ v \div m \in Int /\ v = (v \div m) * m + (v % m)
    OBVIOUS
  <2> QED BY <2>1
<1>2. CASE c = 0
  <2>1. v = k * m
    BY <1>1, <1>2
  <2>2. (-v) % m = 0
    <3>1. PICK e \in Int, l \in Int : e = -v /\ l = -k
      OBVIOUS
    <3>2. -(k * m) = (-k) * m
      OBVIOUS
    <3>3. e = l * m + 0
      BY <2>1, <3>1, <3>2
    <3>4. e % m = 0
      BY <3>3, Modulo
    <3> QED BY <3>1, <3>4
  <2> QED BY <1>1, <1>2, <2>2
<1>3. CASE c # 0
  <2>1. -v = (-k - 1) * m + (m - c) /\ -k - 1 \in Int /\ -v \in Int /\ m - c \in Nat /\ m - c < m
    BY <1>1, <1>3
  <2>2. (-v) % m = m - c
    <3>1. PICK e \in Int, l \in Int, z \in Nat : e = -v /\ l = -k - 1 /\ z = m - c /\ z < m
      BY <2>1
    <3>2. e = l * m + z
      BY <2>1, <3>1
    <3>3. e % m = z
      BY <3>1, <3>2, Modulo
    <3> QED BY <3>1, <3>3
  <2> QED BY <1>1, <1>3, <2>2
<1> QED BY <1>1, <1>2, <1>3

LEMMA FixMoves == ConvInv /\ fixdfdi => ConversionsExact'
<1> SUFFICES ASSUME ConvInv, fixdfdi PROVE ConversionsExact'
  OBVIOUS
<1> DEFINE f == [hi |-> a.hi, lo |-> a.lo]
           k == Shift(a)
           w == IF k >= 0 THEN shl64(f, k) ELSE shr64(f, -k)
<1>1. fn \in Fixes /\ a \in Hfp /\ fn' = fn /\ a' = a /\ pc' = "ret" /\ fn \notin Floats
  BY DEF fixdfdi, Return, ConvInv, args, Floats, Fixes
<1>2. ret' = IF a.neg THEN negate(w) ELSE w
  BY Zenon DEF fixdfdi, Return, Shift
<1>3. a.hi \in 0..(B - 1) /\ a.lo \in 0..(B - 1) /\ a.e \in Int /\ a.neg \in BOOLEAN
  <2>1. a.hi \in 0..(FTOP - 1) /\ a.lo \in Word /\ a.e \in Exponents /\ a.neg \in BOOLEAN
    BY <1>1 DEF Hfp
  <2>2. FTOP \in Nat \ {0} /\ FTOP < B
    BY DigitsOfWord
  <2>3. a.e \in 0..127
    BY <2>1, ExponentsAssumption
  <2>4. B \in Nat
    BY Width
  <2>5. a.hi \in 0..(B - 1)
    BY <2>1, <2>2, <2>4
  <2>6. a.e \in Int
    BY <2>3
  <2> QED BY <2>1, <2>5, <2>6 DEF Word
<1>4. f \in dw_t /\ U(f) = a.hi * B + a.lo
  BY <1>3, Paired
<1>5. k \in Int
  <2>1. PICK q \in Nat : DIGITS["fixdfdi"] = 2 * q - 2
    BY DigitsOfWord
  <2>2. D \in Nat
    BY DigitAssumption
  <2> QED BY <1>3, <2>1, <2>2 DEF Shift
<1>6. PICK v \in dw_t : v = f
  BY <1>4
<1>7. PICK y \in Nat : y = U(v) /\ y < BB
  BY Doubleword
<1>8. PICK l \in Int : l = k
  BY <1>5
<1>9. PICK o \in Nat \ {0} : o = BB
  BY Width
<1>10. W \in Nat
  BY Width
<1>11. IntegerPart(a) = IF l >= 2 * W \/ l <= 0 - 2 * W THEN 0 ELSE IF l >= 0 THEN y * pow2[l] ELSE y \div pow2[-l]
  BY <1>4, <1>6, <1>7, <1>8, Zenon DEF IntegerPart
<1>12. w = IF l >= 0 THEN shl64(v, l) ELSE shr64(v, -l)
  BY <1>6, <1>8, Zenon
<1> HIDE DEF w, f, k
<1>13. w \in dw_t /\ IntegerPart(a) \in Int /\ U(w) = IntegerPart(a) % o
  <2>1. CASE l >= 0
    <3>1. l \in Nat
      BY <2>1
    <3>2. w \in dw_t /\ U(w) = IF l >= 2 * W THEN 0 ELSE (U(v) * pow2[l]) % BB
      BY <1>12, <2>1, <3>1, ShiftsLeft
    <3>3. CASE l >= 2 * W
      BY <1>11, <3>2, <3>3
    <3>4. CASE ~(l >= 2 * W)
      <4>1. pow2[l] \in Nat
        BY <3>1, Powers
      <4>2. ~(l <= 0 - 2 * W)
        BY <1>10, <3>1, <3>4
      <4>3. IntegerPart(a) = y * pow2[l]
        BY <1>11, <2>1, <3>4, <4>2
      <4>4. y * pow2[l] \in Int
        BY <4>1
      <4> QED BY <1>7, <1>9, <3>2, <3>4, <4>3, <4>4
    <3> QED BY <3>3, <3>4
  <2>2. CASE ~(l >= 0)
    <3>1. -l \in Nat
      BY <2>2
    <3>2. w \in dw_t /\ U(w) = IF -l >= 2 * W THEN 0 ELSE U(v) \div pow2[-l]
      BY <1>12, <2>2, <3>1, ShiftsRight
    <3>3. CASE -l >= 2 * W
      <4>1. l <= 0 - 2 * W
        BY <1>10, <3>3
      <4> QED BY <1>11, <3>2, <3>3, <4>1
    <3>4. CASE ~(-l >= 2 * W)
      <4>1. ~(l <= 0 - 2 * W) /\ ~(l >= 2 * W)
        BY <1>10, <2>2, <3>4
      <4>2. IntegerPart(a) = y \div pow2[-l] /\ U(w) = y \div pow2[-l]
        BY <1>7, <1>11, <2>2, <3>2, <3>4, <4>1
      <4>3. U(w) \in Nat /\ U(w) < o
        BY <1>9, <3>2, Doubleword
      <4>4. U(w) % o = U(w)
        BY <4>3, ModuloOnce
      <4> QED BY <3>2, <4>2, <4>3, <4>4
    <3> QED BY <3>3, <3>4
  <2> QED BY <2>1, <2>2
<1>14. U(ret') = (IF a.neg THEN -IntegerPart(a) ELSE IntegerPart(a)) % o
  <2>1. CASE a.neg
    <3>1. U(negate(w)) = IF U(w) = 0 THEN 0 ELSE BB - U(w)
      BY <1>13, Negates
    <3>2. (-IntegerPart(a)) % o = IF IntegerPart(a) % o = 0 THEN 0 ELSE o - (IntegerPart(a) % o)
      BY <1>13, ModuloNegated
    <3>3. U(negate(w)) = (-IntegerPart(a)) % o
      BY <1>9, <1>13, <3>1, <3>2, Zenon
    <3> QED BY <1>2, <2>1, <3>3
  <2>2. CASE ~a.neg
    BY <1>2, <1>13, <2>2
  <2> QED BY <2>1, <2>2
<1>15. FixExact(a, ret')
  BY <1>9, <1>14, Zenon DEF FixExact, U, BB
<1> QED BY <1>1, <1>15, ConversionRestatedNext

\* For words and digits of any size, every integer and every floating-point
\* number: a converted integer is normalized, exact or rounded once, and a
\* converted number is its integer part modulo the width (@@fltdi.c, @@fixdi.c).
THEOREM ConversionsRight == Spec => []ConversionsExact
<1>1. Init => CallInv /\ LoopInv /\ QuotInv /\ ConvInv /\ ConversionsExact
  BY CallStarts, ConvStarts
<1>2. CallInv /\ LoopInv /\ QuotInv /\ ConvInv /\ ConversionsExact /\ [Next]_vars
        => (CallInv /\ LoopInv /\ QuotInv /\ ConvInv /\ ConversionsExact)'
  <2> SUFFICES ASSUME LoopInv, ConvInv, ConversionsExact, [Next]_vars PROVE ConvInv' /\ ConversionsExact'
    BY CallMoves, QuotMoves
  <2>1. fn' = fn /\ a' = a
    BY ArgsStay
  <2>2. ConvInv'
    BY <2>1 DEF ConvInv
  <2> SUFFICES ConversionsExact'
    BY <2>2
  <2>3. ASSUME fn \in Integral PROVE ConversionsExact'
    <3>1. fn \notin Floats /\ fn \notin Fixes
      BY <2>3 DEF Integral, Divides, Traps, Wraps, Floats, Fixes
    <3> QED BY <2>1, <3>1, ConversionRestatedNext
  <2>4. CASE DivideByZero \/ DivideWord \/ StartDivide
    BY <2>3, <2>4 DEF DivideByZero, DivideWord, StartDivide, Integral
  <2>5. CASE Round \/ EndDivide
    BY <2>3, <2>5 DEF Round, EndDivide, LoopInv, Integral
  <2>6. CASE muldi3 \/ negdi2 \/ cmpdi2
    BY <2>3, <2>6 DEF muldi3, negdi2, cmpdi2, Integral, Wraps
  <2>7. CASE addvdi3 \/ subvdi3 \/ negvdi2 \/ mulvsi3 \/ mulvdi3
    BY <2>3, <2>7 DEF addvdi3, subvdi3, negvdi2, mulvsi3, mulvdi3, Integral, Traps
  <2>8. CASE UNCHANGED vars
    <3>1. pc' = pc /\ ret' = ret
      BY <2>8 DEF vars
    <3> QED BY <2>1, <3>1, ConversionRestated, ConversionRestatedNext
  <2> QED BY <2>4, <2>5, <2>6, <2>7, <2>8, FloatMoves, FixMoves DEF Next
<1> QED BY <1>1, <1>2, PTL DEF Spec
=============================================================================

------------------------------ MODULE Runtime ------------------------------
(***************************************************************************)
(* The 64-bit helpers that compiled programs call.  Every helper works on  *)
(* the two words of a double word, since cc370 would compile a 64-bit      *)
(* operation into a call of the helper itself.  The word is scaled down to *)
(* W bits; a call is one behaviour, the rounds of the division loop are    *)
(* its steps.  A call returns, abends S0C9 (divisor zero) or aborts        *)
(* (-ftrapv overflow).                                                     *)
(***************************************************************************)
EXTENDS Integers

CONSTANTS
    W,          \* bits in a word (32 on the machine)
    SIGN,       \* the word with only its sign bit on
    HALF,       \* 2 to the bits of half a word (16 on the machine)
    D,          \* bits in a digit of a floating-point number (4)
    Args,       \* argument pairs considered
    Exponents   \* floating-point exponents considered

\* Two to the k-th, for which the prover has no notation.
pow2[k \in Nat] == IF k = 0 THEN 1 ELSE 2 * pow2[k - 1]

ASSUME WordAssumption == W \in Nat \ {0, 1} /\ SIGN = pow2[W - 1]
\* A word has more than two digits, and a count of them goes into the seven bits
\* of an exponent.
ASSUME DigitAssumption == D \in Nat \ {0} /\ W % D = 0 /\ W > 2 * D /\ 2 * (W \div D) < 63
ASSUME HalfAssumption == HALF \in Nat /\ HALF * HALF = 2 * SIGN

B == 2 * SIGN
Word == 0..(B - 1)
\* dw_t: a double word, hi the more significant one.
dw_t == [hi : Word, lo : Word]
Zero == [hi |-> 0, lo |-> 0]

ASSUME ArgsAssumption == Args \subseteq dw_t \X dw_t
ASSUME ExponentsAssumption == Exponents \subseteq 0..127

\* What a double word stands for, unsigned and signed.
U(v) == v.hi * B + v.lo
S(v) == IF v.hi < SIGN THEN U(v) ELSE U(v) - B * B
MAXS == B * SIGN - 1
MINS == -(B * SIGN)

Abs(v) == IF v < 0 THEN -v ELSE v
Bit(p) == IF p THEN 1 ELSE 0
Neg(v) == v.hi >= SIGN

Divides == {"divdi3", "moddi3", "udivdi3", "umoddi3"}
Traps == {"addvdi3", "subvdi3", "mulvdi3", "negvdi2", "mulvsi3"}
Wraps == {"muldi3", "negdi2", "cmpdi2"}
Floats == {"fltddf", "fltdsf"}
Fixes == {"fixdfdi", "fixsfdi"}

\* A floating-point number: sign, exponent in excess 64, and the fraction in
\* what its first word has left, below FTOP, and its second word (0 when short).
FTOP == pow2[W - 2 * D]
DIGITS == [fltddf |-> 2 * (W \div D) - 2, fixdfdi |-> 2 * (W \div D) - 2,
           fltdsf |-> (W \div D) - 2]
Hfp == [neg : BOOLEAN, e : Exponents, hi : 0..(FTOP - 1), lo : Word]

VARIABLES
    fn, a, b,       \* the helper called and its arguments
    pc,             \* "call", "loop", "ret", "S0C9" or "abort"
    n, d,           \* udivmod: what is left of the dividend; the divisor
    x, h,           \* udivmod: quotient and remainder so far
    i,              \* udivmod: rounds done
    ret             \* the value returned

vars == <<fn, a, b, pc, n, d, x, h, i, ret>>
args == <<fn, a, b>>
regs == <<n, d, x, h, i>>

\* --------------------------------------------------------------------------
\* negate, neg64: the two's complement.
negate(v) ==
    LET lo == (B - 1 - v.lo + 1) % B
    IN [hi |-> (B - 1 - v.hi + Bit(lo = 0)) % B, lo |-> lo]

\* Faulty variant: the carry of the middle column is lost.
mul32_nocarry(p, q) ==
    LET p00 == (p % HALF) * (q % HALF)
        p01 == (p % HALF) * (q \div HALF)
        p10 == (p \div HALF) * (q % HALF)
        p11 == (p \div HALF) * (q \div HALF)
        mid == ((p00 \div HALF) + (p01 % HALF) + (p10 % HALF)) % HALF
    IN [hi |-> (p11 + (p01 \div HALF) + (p10 \div HALF)) % B,
        lo |-> (p00 % HALF) + mid * HALF]

\* mul32: word times word, from products of half words.
mul32(p, q) ==
    LET p00 == (p % HALF) * (q % HALF)
        p01 == (p % HALF) * (q \div HALF)
        p10 == (p \div HALF) * (q % HALF)
        p11 == (p \div HALF) * (q \div HALF)
        mid == (p00 \div HALF) + (p01 % HALF) + (p10 % HALF)
    IN [hi |-> (p11 + (p01 \div HALF) + (p10 \div HALF) + (mid \div HALF)) % B,
        lo |-> (p00 % HALF) + ((mid * HALF) % B)]

shl64(v, k) ==
    IF k >= 2 * W THEN Zero
    ELSE IF k >= W THEN [hi |-> (v.lo * pow2[k - W]) % B, lo |-> 0]
    ELSE IF k = 0 THEN v
    ELSE [hi |-> ((v.hi * pow2[k]) % B) + (v.lo \div pow2[W - k]), lo |-> (v.lo * pow2[k]) % B]

shr64(v, k) ==
    IF k >= 2 * W THEN Zero
    ELSE IF k >= W THEN [hi |-> 0, lo |-> v.hi \div pow2[k - W]]
    ELSE IF k = 0 THEN v
    ELSE [hi |-> v.hi \div pow2[k], lo |-> (v.lo \div pow2[k]) + ((v.hi * pow2[W - k]) % B)]

hexdigits(w) ==
    LET count[v \in Word] == IF v = 0 THEN 0 ELSE 1 + count[v \div pow2[D]]
    IN count[w]

\* One bit to the left, bringing in a bit on the right.
shl1(v, bit) == [hi |-> (2 * v.hi + v.lo \div SIGN) % B, lo |-> (2 * v.lo + bit) % B]

\* --------------------------------------------------------------------------
Init ==
    /\ \/ /\ fn \in Divides \cup Traps \cup Wraps
          /\ \E p \in Args : a = p[1] /\ b = p[2]
       \/ /\ fn \in Floats \cup {"negvdi2", "negdi2"}
          /\ a \in dw_t /\ b = Zero
       \/ /\ fn \in Fixes
          /\ a \in Hfp /\ b = Zero
          /\ fn = "fixsfdi" => a.lo = 0
    /\ pc = "call"
    /\ n = Zero /\ d = Zero /\ x = Zero /\ h = Zero /\ i = 0
    /\ ret = Zero

Return(v) == pc' = "ret" /\ ret' = v /\ UNCHANGED <<args, regs>>
Abort == pc' = "abort" /\ UNCHANGED <<args, regs, ret>>
ReturnUnless(overflow, v) == IF overflow THEN Abort ELSE Return(v)

IsSigned == fn \in {"divdi3", "moddi3"}

DivideByZero ==
    /\ pc = "call" /\ fn \in Divides
    /\ b = Zero
    /\ pc' = "S0C9"
    /\ UNCHANGED <<args, regs, ret>>

\* The sign the result gets: of the quotient, or of the dividend.
Negative ==
    CASE fn = "divdi3" -> Neg(a) # Neg(b)
      [] fn = "moddi3" -> Neg(a)
      [] OTHER -> FALSE

\* The entry point picks quotient or remainder and puts the sign back.
Result(q, r) ==
    LET v == IF fn \in {"divdi3", "udivdi3"} THEN q ELSE r
    IN IF Negative THEN negate(v) ELSE v

Magnitude(v) == IF IsSigned /\ Neg(v) THEN negate(v) ELSE v

\* udivmod's short way: both fit in a word.
DivideWord ==
    LET m == Magnitude(a)
        v == Magnitude(b)
        q == m.lo \div v.lo
    IN /\ pc = "call" /\ fn \in Divides
       /\ b # Zero
       /\ m.hi = 0 /\ v.hi = 0
       /\ Return(Result([hi |-> 0, lo |-> q], [hi |-> 0, lo |-> m.lo - q * v.lo]))

StartDivide ==
    /\ pc = "call" /\ fn \in Divides
    /\ b # Zero
    /\ Magnitude(a).hi # 0 \/ Magnitude(b).hi # 0
    /\ n' = Magnitude(a) /\ d' = Magnitude(b)
    /\ pc' = "loop"
    /\ UNCHANGED <<args, x, h, i, ret>>

\* Faulty variant: the borrow out of the low word is not taken.
Subtracted_noborrow(v, w) == [hi |-> (v.hi - w.hi) % B, lo |-> (v.lo - w.lo) % B]

\* The remainder less the divisor, word by word with the borrow.
Subtracted(v, w) == [hi |-> (v.hi - (w.hi + Bit(v.lo < w.lo))) % B, lo |-> (v.lo - w.lo) % B]

\* One round: shift a bit of the dividend into the remainder, and take the
\* divisor off if it goes.
Round ==
    LET s == shl1(h, n.hi \div SIGN)
        goes == s.hi > d.hi \/ (s.hi = d.hi /\ s.lo >= d.lo)
    IN /\ pc = "loop" /\ i < 2 * W
       /\ n' = shl1(n, 0)
       /\ h' = IF goes THEN Subtracted(s, d) ELSE s
       /\ x' = shl1(x, Bit(goes))
       /\ i' = i + 1
       /\ UNCHANGED <<args, pc, d, ret>>

EndDivide ==
    /\ pc = "loop" /\ i = 2 * W
    /\ Return(Result(x, h))

muldi3 ==
    LET p == mul32(a.lo, b.lo)
    IN /\ pc = "call" /\ fn = "muldi3"
       /\ Return([p EXCEPT !.hi = (@ + a.lo * b.hi + a.hi * b.lo) % B])

negdi2 == pc = "call" /\ fn = "negdi2" /\ Return(negate(a))

\* The high words decide as signed, the low words as unsigned.
cmpdi2 ==
    LET signed(w) == IF w >= SIGN THEN w - B ELSE w
        less == signed(a.hi) < signed(b.hi) \/ (a.hi = b.hi /\ a.lo < b.lo)
    IN /\ pc = "call" /\ fn = "cmpdi2"
       /\ Return([hi |-> 0, lo |-> IF less THEN 0 ELSE IF a = b THEN 1 ELSE 2])

addvdi3 ==
    LET lo == (a.lo + b.lo) % B
        r == [hi |-> (a.hi + b.hi + Bit(lo < a.lo)) % B, lo |-> lo]
    IN /\ pc = "call" /\ fn = "addvdi3"
       /\ ReturnUnless(Neg(a) = Neg(b) /\ Neg(a) # Neg(r), r)

subvdi3 ==
    LET r == Subtracted(a, b)
    IN /\ pc = "call" /\ fn = "subvdi3"
       /\ ReturnUnless(Neg(a) # Neg(b) /\ Neg(a) # Neg(r), r)

negvdi2 ==
    /\ pc = "call" /\ fn = "negvdi2"
    /\ ReturnUnless(a = [hi |-> SIGN, lo |-> 0], negate(a))

\* int times int: the arguments and the result are low words.
mulvsi3 ==
    LET mag(w) == IF w >= SIGN THEN (B - w) % B ELSE w
        neg == (a.lo >= SIGN) # (b.lo >= SIGN)
        p == mul32(mag(a.lo), mag(b.lo))
    IN /\ pc = "call" /\ fn = "mulvsi3"
       /\ ReturnUnless(p.hi # 0 \/ p.lo > SIGN - 1 + Bit(neg),
                       [hi |-> 0, lo |-> IF neg THEN (B - p.lo) % B ELSE p.lo])

\* Magnitudes first; at most one cross product can be there.
mulvdi3 ==
    LET mag(v) == IF Neg(v) THEN negate(v) ELSE v
        neg == Neg(a) # Neg(b)
        u == mag(a)
        v == mag(b)
        p == mul32(u.lo, v.lo)
        c == IF u.hi # 0 THEN mul32(u.hi, v.lo) ELSE mul32(u.lo, v.hi)
        r == [p EXCEPT !.hi = (@ + c.lo) % B]
    IN /\ pc = "call" /\ fn = "mulvdi3"
       /\ ReturnUnless(\/ u.hi # 0 /\ v.hi # 0
                       \/ c.hi # 0
                       \/ r.hi < c.lo
                       \/ Neg(r) /\ ~(neg /\ r = [hi |-> SIGN, lo |-> 0]),
                       IF neg THEN negate(r) ELSE r)

\* hfp_fix: the integer part, modulo a double word.
fixdfdi ==
    LET k == D * (a.e - 64 - DIGITS["fixdfdi"])
        f == [hi |-> a.hi, lo |-> a.lo]
        v == IF k >= 0 THEN shl64(f, k) ELSE shr64(f, -k)
    IN /\ pc = "call" /\ fn \in Fixes
       /\ Return(IF a.neg THEN negate(v) ELSE v)

\* Faulty variant: half is added to the low word only.
Half_nocarry(v, k) ==
    IF k >= W THEN [v EXCEPT !.hi = (@ + pow2[k - W]) % B]
    ELSE [v EXCEPT !.lo = (@ + pow2[k]) % B]

\* hfp_float: add bit k to a magnitude, with the carry into the high word.
Half(v, k) ==
    IF k >= W THEN [v EXCEPT !.hi = (@ + pow2[k - W]) % B]
    ELSE LET lo == (v.lo + pow2[k]) % B
         IN [hi |-> (v.hi + Bit(lo < pow2[k])) % B, lo |-> lo]

\* hfp_float: n digits of magnitude m rounded to the digits a fraction has; the
\* round may carry into a new digit.
Rounded(m, k, digits) ==
    LET v == shr64(Half(m, D * (k - digits) - 1), D * (k - digits))
        top == IF digits = DIGITS.fltddf THEN v.hi ELSE v.lo
    IN IF top >= FTOP THEN [f |-> shr64(v, D), n |-> k + 1] ELSE [f |-> v, n |-> k]

hfp_float ==
    LET m == IF Neg(a) THEN negate(a) ELSE a
        digits == DIGITS[fn]
        k == IF m.hi # 0 THEN (W \div D) + hexdigits(m.hi) ELSE hexdigits(m.lo)
        r == IF k <= digits THEN [f |-> shl64(m, D * (digits - k)), n |-> k]
             ELSE Rounded(m, k, digits)
    IN /\ pc = "call" /\ fn \in Floats
       /\ Return(IF m = Zero THEN [neg |-> FALSE, e |-> 0, hi |-> 0, lo |-> 0]
                 ELSE IF fn = "fltddf"
                      THEN [neg |-> Neg(a), e |-> 64 + r.n, hi |-> r.f.hi, lo |-> r.f.lo]
                      ELSE [neg |-> Neg(a), e |-> 64 + r.n, hi |-> r.f.lo, lo |-> 0])

Over == pc \in {"ret", "S0C9", "abort"}

Next ==
    \/ DivideByZero \/ DivideWord \/ StartDivide \/ Round \/ EndDivide
    \/ muldi3 \/ negdi2 \/ cmpdi2
    \/ addvdi3 \/ subvdi3 \/ negvdi2 \/ mulvsi3 \/ mulvdi3
    \/ fixdfdi \/ hfp_float
    \/ (Over /\ UNCHANGED vars)

Spec == Init /\ [][Next]_vars

\* --------------------------------------------------------------------------
\* The truncating quotient and its remainder.
Quot(p, q) == IF (p < 0) = (q < 0) THEN Abs(p) \div Abs(q) ELSE -(Abs(p) \div Abs(q))
Divided(p, q) ==
    IF fn \in {"divdi3", "udivdi3"} THEN Quot(p, q) ELSE p - q * Quot(p, q)

\* Division truncates toward zero and the remainder takes the dividend's sign,
\* the smallest number divided by -1 wraps, a zero divisor and nothing else
\* abends; and after each round of the loop the quotient bits so far times the
\* divisor plus the remainder are the dividend bits so far (@@divdi3.c).
DivTruncates ==
    /\ pc = "S0C9" => b = Zero
    /\ fn \in Divides /\ pc = "ret" =>
          IF IsSigned THEN U(ret) = Divided(S(a), S(b)) % (B * B)
                      ELSE U(ret) = Divided(U(a), U(b))
    /\ pc = "loop" =>
          /\ U(x) * U(d) + U(h) = U(Magnitude(a)) \div pow2[2 * W - i]
          /\ U(h) < U(d)

\* The mathematical result of an operation that may overflow.
Exact ==
    CASE fn = "addvdi3" -> S(a) + S(b)
      [] fn = "subvdi3" -> S(a) - S(b)
      [] fn \in {"mulvdi3", "muldi3"} -> S(a) * S(b)
      [] fn \in {"negvdi2", "negdi2"} -> -S(a)
      [] fn = "mulvsi3" -> (a.lo - B * Bit(a.lo >= SIGN)) * (b.lo - B * Bit(b.lo >= SIGN))
Fits(v) == IF fn = "mulvsi3" THEN v \in -SIGN..(SIGN - 1) ELSE v \in MINS..MAXS

\* The -ftrapv helpers abort exactly when the result does not fit, whichever of
\* their partial products or carries shows it; when it does fit, and always in
\* the helpers that wrap, the result is the exact one modulo the width; and the
\* comparison orders by value (@@trapv.c, @@muldi3.c, @@negdi2.c, @@cmpdi2.c).
OverflowExact ==
    /\ pc = "abort" => fn \in Traps /\ ~Fits(Exact)
    /\ fn \in Traps /\ pc = "ret" => Fits(Exact)
    /\ fn \in {"muldi3", "negdi2", "addvdi3", "subvdi3", "mulvdi3", "negvdi2"} /\ pc = "ret" =>
          U(ret) = Exact % (B * B)
    /\ fn = "mulvsi3" /\ pc = "ret" => ret.lo = Exact % B
    /\ fn = "cmpdi2" /\ pc = "ret" =>
          ret.lo = IF S(a) < S(b) THEN 0 ELSE IF S(a) = S(b) THEN 1 ELSE 2

\* The magnitude of a converted integer, and it rounded to so many digits: half
\* of the last digit kept is added, the rest is cut off.
RoundedValue(m, digits) ==
    LET unit == CHOOSE u \in {pow2[D * k] : k \in 0..(2 * W)} :
                    /\ m < u * pow2[D * digits]
                    /\ u = 1 \/ m >= u * pow2[D * (digits - 1)]
    IN ((m + unit \div 2) \div unit) * unit

\* A converted integer is a normalized number whose value is the integer rounded
\* once, also when the round carries into a new digit; a converted number is
\* its integer part modulo the width, whatever its exponent and however it is
\* (un)normalized (@@fltdi.c, @@fixdi.c).
ConversionsExact ==
    /\ fn \in Floats /\ pc = "ret" =>
          LET f == IF fn = "fltddf" THEN U(ret) ELSE ret.hi
              k == ret.e - 64 - DIGITS[fn]
              m == Abs(S(a))
          IN /\ ret.hi < FTOP /\ ret.e < 128
             /\ m # 0 => f >= pow2[D * (DIGITS[fn] - 1)] /\ ret.neg = (S(a) < 0)
             /\ IF m # 0 /\ k < 0 THEN f = m * pow2[D * (0 - k)]
                ELSE f * pow2[D * (IF m = 0 THEN 0 ELSE k)] = RoundedValue(m, DIGITS[fn])
    /\ fn \in Fixes /\ pc = "ret" =>
          LET k == D * (a.e - 64 - DIGITS["fixdfdi"])
              f == a.hi * B + a.lo
              v == IF k >= 2 * W \/ k <= 0 - 2 * W THEN 0
                   ELSE IF k >= 0 THEN f * pow2[k] ELSE f \div pow2[-k]
          IN U(ret) = (IF a.neg THEN -v ELSE v) % (B * B)
=============================================================================

------------------------------- MODULE Decimal -------------------------------
(***************************************************************************)
(* Exact decimals: a mantissa of fixed width times a power of ten between  *)
(* two bounds.  Sums, products and scalings check for overflow and return  *)
(* Err rather than a wrong number.  Negation and absolute value do not:    *)
(* the smallest mantissa has no positive counterpart, and a release build, *)
(* which is the one modelled, wraps around to it again.  (A build with     *)
(* overflow checks stops there.)  The bounds of the code (an i128,         *)
(* exponents to 18, shifts to 9) are parameters.                           *)
(***************************************************************************)
EXTENDS Integers, FiniteSetsExt

CONSTANTS
  Limit,      \* the largest mantissa; the smallest is -Limit - 1
  MaxExp,     \* exponents run from -MaxExp to MaxExp
  MaxShift,   \* the decimal places a ratio may add
  Err         \* any error

\* The smallest mantissa does not end in a zero (that of an i128 ends in an 8).
ASSUME DecimalConstantsOK ==
  /\ Limit \in Nat \ {0} /\ MaxExp \in Nat /\ MaxShift \in Nat
  /\ (Limit + 1) % 10 # 0

TenTo[k \in Nat] == IF k = 0 THEN 1 ELSE 10 * TenTo[k-1]

Fits(m) == -Limit - 1 <= m /\ m <= Limit

\* What fits the type.
IsDecimal(d) == d \in [mant : Int, exp : -MaxExp..MaxExp] /\ Fits(d.mant)

ASSUME ErrIsNoDecimal == ~IsDecimal(Err)

Abs(m) == IF m < 0 THEN -m ELSE m
Sign(n) == IF n < 0 THEN -1 ELSE IF n = 0 THEN 0 ELSE 1

\* The mantissa whose negation wraps around to itself, and the two unchecked
\* operations at the width of the mantissa.
Lowest == -Limit - 1
negated(m) == IF m = Lowest THEN m ELSE -m
magnitude(m) == IF m < 0 THEN negated(m) ELSE m

\* What the pair stands for, as a number of the smallest decimal places.
Value(d) == d.mant * TenTo[d.exp + MaxExp]

\* Trailing zeros are stripped while the exponent stays within its bound; zero
\* keeps the exponent it came with.
normalized(m, e) ==
  IF m = 0 THEN [mant |-> 0, exp |-> e]
  ELSE LET strips == {k \in 0..MaxExp - e : m % TenTo[k] = 0}
           k      == Max(strips)
       IN  [mant |-> m \div TenTo[k], exp |-> e + k]

new(m, e) == IF -MaxExp <= e /\ e <= MaxExp THEN normalized(m, e) ELSE Err

neg(d) == [d EXCEPT !.mant = negated(@)]

\* Scaling down to a smaller exponent, exactly or not at all.
scale_to(m, from, to) == IF Fits(m * TenTo[from - to]) THEN m * TenTo[from - to] ELSE Err

\* A deviation: the sum wraps around at the width of the mantissa.
add_wrapping(a, b) ==
  LET e     == IF a.exp < b.exp THEN a.exp ELSE b.exp
      width == 2 * (Limit + 1)
      wrap(m) == ((m + Limit + 1) % width) - Limit - 1
  IN  new(wrap(a.mant * TenTo[a.exp - e] + b.mant * TenTo[b.exp - e]), e)

add(a, b) ==
  LET e  == IF a.exp < b.exp THEN a.exp ELSE b.exp
      ma == scale_to(a.mant, a.exp, e)
      mb == scale_to(b.mant, b.exp, e)
  IN  IF ma # Err /\ mb # Err THEN IF Fits(ma + mb) THEN new(ma + mb, e) ELSE Err
                              ELSE Err

sub(a, b) == add(a, neg(b))

mul(a, b) == IF Fits(a.mant * b.mant) THEN new(a.mant * b.mant, a.exp + b.exp) ELSE Err

\* The places tried before an intermediate product overflows.
ShiftsTried(d, num) ==
  {k \in 0..MaxShift : \A j \in 0..k : Fits(d.mant * TenTo[j]) /\ Fits(d.mant * TenTo[j] * num)}

\* Times num/den, exactly: the first shift that makes the division come out even.
mul_ratio_exact(d, num, den) ==
  LET n  == IF den < 0 THEN negated(num) ELSE num
      dn == IF den < 0 THEN negated(den) ELSE den
      even == {k \in ShiftsTried(d, n) : (d.mant * TenTo[k] * n) % Abs(dn) = 0}
      k    == Min(even)
  IN  IF den = 0 \/ even = {} THEN Err
      ELSE new(Sign(dn) * ((d.mant * TenTo[k] * n) \div Abs(dn)), d.exp - k)

\* Comparison goes by sign, then by the position of the leading digit, then by
\* the digits padded with zeros to one length.
Digits(m) == CHOOSE n \in 1..Limit + 1 : Abs(m) < TenTo[n] /\ (n = 1 \/ Abs(m) >= TenTo[n-1])

\* A deviation: the exponents are left out of the position of the leading digit.
cmp_by_digits(a, b) == Sign(a.mant - b.mant)

\* A magnitude that wrapped is printed with its minus sign, which counts as a
\* character and sorts before every digit.
Printed(m) == Digits(m) + (IF m < 0 THEN 1 ELSE 0)

cmp_magnitudes(m1, e1, m2, e2) ==
  LET l1 == Printed(m1) + e1
      l2 == Printed(m2) + e2
      n  == IF Digits(m1) > Digits(m2) THEN Digits(m1) ELSE Digits(m2)
  IN  IF m1 = 0 \/ m2 = 0 THEN Sign(Abs(m1) - Abs(m2))
      ELSE IF l1 # l2 THEN Sign(l1 - l2)
      ELSE IF m1 < 0 \/ m2 < 0 THEN Sign(Sign(m1) - Sign(m2))
      ELSE Sign(m1 * TenTo[n - Digits(m1)] - m2 * TenTo[n - Digits(m2)])

cmp(a, b) ==
  LET magnitudes == cmp_magnitudes(magnitude(a.mant), a.exp, magnitude(b.mant), b.exp)
  IN  CASE a.mant >= 0 /\ b.mant < 0 -> 1
        [] a.mant < 0 /\ b.mant >= 0 -> -1
        [] a.mant >= 0 /\ b.mant >= 0 -> magnitudes
        [] OTHER -> -magnitudes

\* Two decimals are equal when they compare equal; the hash is that of the
\* normalized pair.
eq(a, b) == cmp(a, b) = 0
hash(d) == normalized(d.mant, d.exp)

\* The text of a decimal: its digits as one number, and how many of them are
\* behind the point.  Zero is the text "0"; a magnitude that wrapped brings a
\* second minus sign, and no reader takes two.
text(d) ==
  [digits |-> IF d.exp >= 0 THEN d.mant * TenTo[d.exp] ELSE d.mant,
   places |-> IF d.exp >= 0 \/ d.mant = 0 THEN 0 ELSE -d.exp,
   signs  |-> IF d.mant = Lowest THEN 2 ELSE IF d.mant < 0 THEN 1 ELSE 0]

parse(t) ==
  IF t.signs < 2 /\ t.places <= MaxExp /\ Fits(t.digits)
    THEN new(t.digits, -t.places) ELSE Err

=============================================================================

----------------------------- MODULE RollupProofs -----------------------------
(***************************************************************************)
(* Decimals and quantities, for every width of the mantissa, every range   *)
(* of exponents and every registry: each operation returns the number it   *)
(* stands for, or an error, except where the lower bound of the mantissa   *)
(* wraps around.  Then what a roll-up attestation is worth, for every      *)
(* number of children, every listing, quantity and registry.               *)
(***************************************************************************)
EXTENDS Rollup, InductionProofs

-----------------------------------------------------------------------------
(* Multiples and powers of ten.                                            *)

LEMMA TimesCancels ==
  ASSUME NEW a \in Int, NEW b \in Int, NEW c \in Nat \ {0}, a * c = b * c
  PROVE  a = b
OBVIOUS

LEMMA TimesGrows ==
  ASSUME NEW a \in Int, NEW b \in Int, NEW c \in Nat \ {0}, a < b
  PROVE  a * c < b * c
OBVIOUS

LEMMA TimesGrows2 ==
  ASSUME NEW a \in Int, NEW b \in Int, NEW c \in Nat \ {0}, a <= b
  PROVE  a * c <= b * c
OBVIOUS

LEMMA TimesTurns ==
  ASSUME NEW a \in Int, NEW b \in Int, NEW c \in Int
  PROVE  (a * b) * c = a * (b * c) /\ (a * b) * c = (a * c) * b /\ a * b \in Int
         /\ (a + b) * c = a * c + b * c /\ a * b = b * a /\ (a - b) * c = a * c - b * c
OBVIOUS

LEMMA DivExact ==
  ASSUME NEW a \in Int, NEW c \in Nat \ {0}, a % c = 0
  PROVE  a \div c \in Int /\ (a \div c) * c = a
OBVIOUS

LEMMA ModOfMultiple ==
  ASSUME NEW a \in Int, NEW c \in Nat \ {0}
  PROVE  (a * c) % c = 0 /\ (a * c) \div c = a
OBVIOUS

PowersOn(g, n) == g = [k \in 0..n |-> IF k = 0 THEN 1 ELSE 10 * g[k-1]]

LEMMA PowersExist == \A n \in Nat : \E g : PowersOn(g, n)
<1> DEFINE P == {n \in Nat : \E g : PowersOn(g, n)}
<1>1. 0 \in P
  <2>1. PowersOn([k \in 0..0 |-> 1], 0)
    BY DEF PowersOn
  <2> QED BY <2>1
<1>2. ASSUME NEW n \in Nat, n \in P PROVE n + 1 \in P
  <2>1. PICK g : PowersOn(g, n)
    BY <1>2
  <2> DEFINE h == [k \in 0..n + 1 |-> IF k = 0 THEN 1 ELSE 10 * g[k-1]]
  <2>2. \A k \in 0..n : h[k] = g[k]
    BY <2>1 DEF PowersOn
  <2>3. ASSUME NEW k \in 0..n + 1, k # 0 PROVE h[k-1] = g[k-1]
    <3>1. k - 1 \in 0..n
      BY <2>3
    <3> HIDE DEF h
    <3> QED BY <2>2, <3>1
  <2>4. PowersOn(h, n + 1)
    <3> HIDE DEF h
    <3>1. \A k \in 0..n + 1 : h[k] = IF k = 0 THEN 1 ELSE 10 * h[k-1]
      BY <2>3 DEF h
    <3>2. h = [k \in 0..n + 1 |-> h[k]]
      BY DEF h
    <3> QED BY <3>1, <3>2 DEF PowersOn
  <2> HIDE DEF h
  <2> QED BY <2>4
<1> HIDE DEF P
<1>3. Nat \subseteq P
  BY <1>1, <1>2, NatSetInduction
<1> QED BY <1>3 DEF P

LEMMA PowersUnique ==
  ASSUME NEW m \in Nat, NEW n \in Nat, m <= n, NEW g, NEW h, PowersOn(g, m), PowersOn(h, n)
  PROVE  \A k \in 0..m : g[k] = h[k]
<1> DEFINE P == {k \in Nat : k <= m => g[k] = h[k]}
<1>1. 0 \in P
  BY DEF PowersOn
<1>2. ASSUME NEW k \in Nat, k \in P PROVE k + 1 \in P
  <2> SUFFICES ASSUME k + 1 <= m PROVE g[k + 1] = h[k + 1]
    OBVIOUS
  <2>1. g[k] = h[k] /\ k + 1 \in 0..m /\ k + 1 \in 0..n /\ (k + 1) - 1 = k
    BY <1>2
  <2>2. g[k + 1] = 10 * g[k] /\ h[k + 1] = 10 * h[k]
    BY <2>1 DEF PowersOn
  <2> QED BY <2>1, <2>2
<1> HIDE DEF P
<1>3. Nat \subseteq P
  BY <1>1, <1>2, NatSetInduction
<1> QED BY <1>3 DEF P

\* The powers of ten, by their recursion.
LEMMA TenToIs == TenTo[0] = 1 /\ \A k \in Nat : TenTo[k + 1] = 10 * TenTo[k]
<1> DEFINE least(n) == CHOOSE g : PowersOn(g, n)
           f == [k \in Nat |-> least(k)[k]]
           Tens(g) == g = [k \in Nat |-> IF k = 0 THEN 1 ELSE 10 * g[k-1]]
<1>1. \A n \in Nat : PowersOn(least(n), n)
  BY PowersExist, Zenon
<1> HIDE DEF least
<1>2. ASSUME NEW k \in Nat PROVE f[k] = IF k = 0 THEN 1 ELSE 10 * f[k-1]
  <2>1. CASE k = 0
    BY <1>1, <2>1 DEF PowersOn
  <2>2. CASE k # 0
    <3>1. k - 1 \in Nat /\ k \in 0..k /\ k - 1 \in 0..k-1
      BY <2>2
    <3>2. least(k)[k] = 10 * least(k)[k-1]
      BY <1>1, <2>2, <3>1 DEF PowersOn
    <3>3. least(k-1)[k-1] = least(k)[k-1]
      BY <1>1, <3>1, PowersUnique
    <3> QED BY <2>2, <3>1, <3>2, <3>3
  <2> QED BY <2>1, <2>2
<1>3. Tens(f)
  <2>1. f = [k \in Nat |-> f[k]]
    OBVIOUS
  <2> HIDE DEF f
  <2> QED BY <1>2, <2>1
<1>4. Tens(TenTo)
  <2>1. TenTo = CHOOSE g : Tens(g)
    BY Zenon DEF TenTo
  <2> HIDE DEF Tens, f
  <2> QED BY <1>3, <2>1, Zenon
<1>5. \A k \in Nat : TenTo[k] = IF k = 0 THEN 1 ELSE 10 * TenTo[k-1]
  BY <1>4
<1> QED BY <1>5

LEMMA TenToPositive == \A k \in Nat : TenTo[k] \in Nat /\ TenTo[k] > k
<1> DEFINE P == {k \in Nat : TenTo[k] \in Nat /\ TenTo[k] > k}
<1>1. 0 \in P
  BY TenToIs
<1>2. ASSUME NEW k \in Nat, k \in P PROVE k + 1 \in P
  BY <1>2, TenToIs
<1> HIDE DEF P
<1>3. Nat \subseteq P
  BY <1>1, <1>2, NatSetInduction
<1> QED BY <1>3 DEF P

LEMMA TenToSum ==
  ASSUME NEW j \in Nat, NEW k \in Nat
  PROVE  TenTo[j + k] = TenTo[j] * TenTo[k]
<1> DEFINE P == {n \in Nat : TenTo[j + n] = TenTo[j] * TenTo[n]}
<1>1. 0 \in P
  BY TenToIs, TenToPositive
<1>2. ASSUME NEW n \in Nat, n \in P PROVE n + 1 \in P
  <2>1. TenTo[j + (n + 1)] = 10 * TenTo[j + n]
    <3>1. j + (n + 1) = (j + n) + 1 /\ j + n \in Nat
      OBVIOUS
    <3> QED BY <3>1, TenToIs
  <2>2. TenTo[n + 1] = 10 * TenTo[n] /\ TenTo[j] \in Int /\ TenTo[n] \in Int
    BY TenToIs, TenToPositive
  <2>3. TenTo[j + n] = TenTo[j] * TenTo[n]
    BY <1>2
  <2>4. \A x, y \in Int : 10 * (x * y) = x * (10 * y)
    OBVIOUS
  <2> QED BY <2>1, <2>2, <2>3, <2>4
<1> HIDE DEF P
<1>3. Nat \subseteq P
  BY <1>1, <1>2, NatSetInduction
<1> QED BY <1>3 DEF P

LEMMA QuotientSmaller ==
  ASSUME NEW q \in Int, NEW t \in Nat \ {0}
  PROVE  (q >= 0 => q <= q * t) /\ (q <= 0 => q * t <= q)
OBVIOUS

LEMMA FitsQuotient ==
  ASSUME NEW m \in Int, Fits(m), NEW t \in Nat \ {0}, m % t = 0
  PROVE  /\ m \div t \in Int /\ (m \div t) * t = m /\ Fits(m \div t)
<1> DEFINE q == m \div t
<1>1. q \in Int /\ q * t = m
  BY DivExact
<1> HIDE DEF q
<1>2. (q >= 0 => q <= q * t) /\ (q <= 0 => q * t <= q)
  BY <1>1, QuotientSmaller
<1>3. Limit \in Nat
  BY DecimalConstantsOK
<1>4. Fits(q)
  BY <1>1, <1>2, <1>3 DEF Fits
<1> QED BY <1>1, <1>4 DEF q

LEMMA GreatestUpTo ==
  ASSUME NEW n \in Nat, NEW T, T \subseteq 0..n, T # {}
  PROVE  \E x \in T : \A y \in T : y <= x
<1> DEFINE U == {k \in 0..n : n - k \in T}
<1>1. \A k \in U : k \in 0..n /\ n - k \in T
  OBVIOUS
<1>2. ASSUME NEW y \in T PROVE n - y \in U /\ y \in 0..n
  <2>1. y \in 0..n
    OBVIOUS
  <2>2. n - y \in 0..n /\ n - (n - y) = y
    BY <2>1
  <2> QED BY <2>1, <2>2
<1>3. U # {} /\ U \subseteq Nat
  <2>1. PICK t \in T : TRUE
    OBVIOUS
  <2>2. n - t \in U
    BY <1>2, <2>1
  <2> QED BY <2>2
<1> HIDE DEF U
<1>4. PICK u \in U : \A v \in U : u <= v
  BY <1>3, LeastElement
<1>5. n - u \in T /\ u \in 0..n
  BY <1>1, <1>4
<1>6. ASSUME NEW y \in T PROVE y <= n - u
  <2>1. u <= n - y /\ y \in 0..n
    BY <1>2, <1>4
  <2> QED BY <1>5, <2>1
<1> QED BY <1>5, <1>6

-----------------------------------------------------------------------------
(* Decimals and what they stand for.                                       *)

\* What is left of trailing zeros.
Stripped(d) == d.mant # 0 => d.exp = MaxExp \/ d.mant % 10 # 0

LEMMA NormalizedIs ==
  ASSUME NEW m \in Int, Fits(m), NEW e \in -MaxExp..MaxExp
  PROVE  /\ IsDecimal(normalized(m, e)) /\ Stripped(normalized(m, e))
         /\ Value(normalized(m, e)) = m * TenTo[e + MaxExp]
<1>1. MaxExp \in Nat /\ Limit \in Nat /\ e \in Int /\ e + MaxExp \in Nat /\ MaxExp - e \in Nat
  BY DecimalConstantsOK
<1>2. CASE m = 0
  <2>1. normalized(m, e) = [mant |-> 0, exp |-> e]
    BY <1>2 DEF normalized
  <2>2. TenTo[e + MaxExp] \in Int
    BY <1>1, TenToPositive
  <2> QED BY <1>1, <1>2, <2>1, <2>2 DEF IsDecimal, Fits, Stripped, Value
<1>3. CASE m # 0
  <2> DEFINE strips == {k \in 0..MaxExp - e : m % TenTo[k] = 0}
             k      == Max(strips)
             t      == TenTo[k]
             q      == m \div t
  <2>1. normalized(m, e) = [mant |-> q, exp |-> e + k]
    BY <1>3 DEF normalized
  <2>2. k \in strips /\ \A j \in strips : j <= k
    <3>1. 0 \in strips
      <4>1. m % 1 = 0
        OBVIOUS
      <4> QED BY <1>1, <4>1, TenToIs
    <3>2. \E x \in strips : \A y \in strips : y <= x
      <4>1. strips \subseteq 0..MaxExp - e /\ strips # {}
        BY <3>1
      <4> HIDE DEF strips
      <4> QED BY <1>1, <4>1, GreatestUpTo
    <3>3. strips \subseteq Int
      BY <1>1
    <3> HIDE DEF strips
    <3>4. \E x \in strips : \A y \in strips : x >= y
      BY <3>2, <3>3
    <3>5. k \in strips /\ \A y \in strips : k >= y
      BY <3>4, Zenon DEF Max
    <3> HIDE DEF k
    <3> QED BY <3>3, <3>5
  <2>3. k \in Nat /\ k <= MaxExp - e /\ m % t = 0 /\ t \in Nat \ {0}
    <3>1. k \in 0..MaxExp - e /\ m % TenTo[k] = 0
      <4> HIDE DEF k
      <4> QED BY <2>2
    <3> HIDE DEF k, strips
    <3>2. k \in Nat /\ k <= MaxExp - e
      BY <1>1, <3>1
    <3> QED BY <3>1, <3>2, TenToPositive
  <2>4. \A j \in Nat : j <= MaxExp - e /\ m % TenTo[j] = 0 => j <= k
    <3> HIDE DEF k
    <3> QED BY <1>1, <2>2
  <2> HIDE DEF k, strips
  <2>5. q \in Int /\ q * t = m /\ Fits(q)
    BY <2>3, FitsQuotient
  <2> HIDE DEF q
  <2>6. e + k \in -MaxExp..MaxExp /\ e + k + MaxExp = k + (e + MaxExp)
    BY <1>1, <2>3
  <2>7. IsDecimal(normalized(m, e))
    BY <2>1, <2>5, <2>6 DEF IsDecimal
  <2>8. Value(normalized(m, e)) = m * TenTo[e + MaxExp]
    <3>1. Value(normalized(m, e)) = q * TenTo[k + (e + MaxExp)]
      BY <2>1, <2>6 DEF Value
    <3>2. TenTo[k + (e + MaxExp)] = t * TenTo[e + MaxExp]
      BY <1>1, <2>3, TenToSum
    <3>3. t \in Int /\ TenTo[e + MaxExp] \in Int
      BY <1>1, <2>3, TenToPositive
    <3> HIDE DEF t
    <3>4. q * (t * TenTo[e + MaxExp]) = (q * t) * TenTo[e + MaxExp]
      BY <2>5, <3>3, TimesTurns
    <3> QED BY <2>5, <3>1, <3>2, <3>4
  <2>9. Stripped(normalized(m, e))
    <3> SUFFICES ASSUME e + k # MaxExp, q % 10 = 0 PROVE FALSE
      BY <2>1 DEF Stripped
    <3>1. PICK c \in Int : q = c * 10
      BY <2>5
    <3>2. TenTo[k + 1] = 10 * t /\ TenTo[k + 1] \in Nat \ {0} /\ k + 1 \in Nat
      <4>1. k + 1 \in Nat
        BY <2>3
      <4> QED BY <2>3, <4>1, TenToIs, TenToPositive
    <3>3. m = c * TenTo[k + 1]
      <4> HIDE DEF t
      <4>1. (c * 10) * t = c * (10 * t)
        BY <2>3, TimesTurns
      <4> QED BY <2>5, <3>1, <3>2, <4>1
    <3>4. m % TenTo[k + 1] = 0
      BY <3>1, <3>2, <3>3, ModOfMultiple
    <3>5. k + 1 <= MaxExp - e
      BY <1>1, <2>3
    <3>6. k + 1 <= k
      BY <2>4, <3>2, <3>4, <3>5
    <3> QED BY <2>3, <3>6
  <2> QED BY <2>7, <2>8, <2>9
<1> QED BY <1>2, <1>3

LEMMA NewIs ==
  ASSUME NEW m \in Int, Fits(m), NEW e \in Int, new(m, e) # Err
  PROVE  /\ e \in -MaxExp..MaxExp /\ e + MaxExp \in Nat
         /\ IsDecimal(new(m, e)) /\ Stripped(new(m, e))
         /\ Value(new(m, e)) = m * TenTo[e + MaxExp]
<1>1. e \in -MaxExp..MaxExp /\ e + MaxExp \in Nat /\ new(m, e) = normalized(m, e)
  BY DecimalConstantsOK DEF new
<1> QED BY <1>1, NormalizedIs

LEMMA ValueIs ==
  ASSUME NEW d, IsDecimal(d)
  PROVE  /\ d.mant \in Int /\ d.exp \in Int /\ -MaxExp <= d.exp /\ d.exp <= MaxExp
         /\ d.exp + MaxExp \in Nat /\ Fits(d.mant)
         /\ Value(d) = d.mant * TenTo[d.exp + MaxExp] /\ Value(d) \in Int
         /\ TenTo[d.exp + MaxExp] \in Nat \ {0}
<1>1. /\ d.mant \in Int /\ d.exp \in -MaxExp..MaxExp /\ MaxExp \in Nat /\ Fits(d.mant)
  BY DecimalConstantsOK DEF IsDecimal
<1>2. d.exp + MaxExp \in Nat
  BY <1>1
<1>3. TenTo[d.exp + MaxExp] \in Nat \ {0}
  BY <1>2, TenToPositive
<1> QED BY <1>1, <1>2, <1>3 DEF Value

\* Scaling to a smaller exponent keeps the value.
LEMMA ScaleIs ==
  ASSUME NEW d, IsDecimal(d), NEW e \in -MaxExp..MaxExp, e <= d.exp,
         scale_to(d.mant, d.exp, e) # Err
  PROVE  /\ scale_to(d.mant, d.exp, e) \in Int
         /\ scale_to(d.mant, d.exp, e) = d.mant * TenTo[d.exp - e]
         /\ scale_to(d.mant, d.exp, e) * TenTo[e + MaxExp] = Value(d)
<1> DEFINE m == d.mant * TenTo[d.exp - e]
<1>1. scale_to(d.mant, d.exp, e) = m
  BY DEF scale_to
<1>2. /\ d.mant \in Int /\ d.exp - e \in Nat /\ e + MaxExp \in Nat
      /\ Value(d) = d.mant * TenTo[d.exp + MaxExp]
      /\ d.exp + MaxExp = (d.exp - e) + (e + MaxExp)
  BY ValueIs, DecimalConstantsOK
<1>3. TenTo[d.exp - e] \in Int /\ TenTo[e + MaxExp] \in Int
  BY <1>2, TenToPositive
<1>4. TenTo[d.exp + MaxExp] = TenTo[d.exp - e] * TenTo[e + MaxExp]
  BY <1>2, TenToSum
<1>5. m \in Int /\ m * TenTo[e + MaxExp] = Value(d)
  BY <1>2, <1>3, <1>4, TimesTurns
<1> QED BY <1>1, <1>5

LEMMA AddIs ==
  ASSUME NEW a, IsDecimal(a), NEW b, IsDecimal(b), add(a, b) # Err
  PROVE  /\ IsDecimal(add(a, b)) /\ Stripped(add(a, b))
         /\ Value(add(a, b)) = Value(a) + Value(b)
<1> DEFINE e  == IF a.exp < b.exp THEN a.exp ELSE b.exp
           ma == scale_to(a.mant, a.exp, e)
           mb == scale_to(b.mant, b.exp, e)
<1>1. /\ ma # Err /\ mb # Err /\ Fits(ma + mb) /\ add(a, b) = new(ma + mb, e)
  BY DEF add
<1>2. e \in -MaxExp..MaxExp /\ e <= a.exp /\ e <= b.exp /\ e \in Int
  BY ValueIs, DecimalConstantsOK
<1> HIDE DEF e
<1>3. /\ ma \in Int /\ ma * TenTo[e + MaxExp] = Value(a)
      /\ mb \in Int /\ mb * TenTo[e + MaxExp] = Value(b)
  BY <1>1, <1>2, ScaleIs
<1> HIDE DEF ma, mb
<1>4. /\ IsDecimal(add(a, b)) /\ Stripped(add(a, b)) /\ e + MaxExp \in Nat
      /\ Value(add(a, b)) = (ma + mb) * TenTo[e + MaxExp]
  <2>1. ma + mb \in Int
    BY <1>3
  <2> QED BY <1>1, <1>2, <2>1, NewIs
<1>5. TenTo[e + MaxExp] \in Int
  BY <1>4, TenToPositive
<1> QED BY <1>3, <1>4, <1>5, TimesTurns

\* The negation stands for the negated number, but on the lower bound.
LEMMA NegIs ==
  ASSUME NEW d, IsDecimal(d)
  PROVE  /\ IsDecimal(neg(d))
         /\ Value(neg(d)) = IF d.mant = Lowest THEN Value(d) ELSE -Value(d)
<1>1. /\ d.mant \in Int /\ -d.mant \in Int /\ TenTo[d.exp + MaxExp] \in Int
      /\ Value(d) = d.mant * TenTo[d.exp + MaxExp] /\ Fits(d.mant) /\ Limit \in Nat
  BY ValueIs, DecimalConstantsOK
<1>2. neg(d) = [d EXCEPT !.mant = negated(d.mant)]
  BY DEF neg
<1>3. d \in [mant : Int, exp : -MaxExp..MaxExp]
  BY DEF IsDecimal
<1>4. /\ negated(d.mant) \in Int /\ Fits(negated(d.mant))
      /\ negated(d.mant) = IF d.mant = Lowest THEN d.mant ELSE -d.mant
  BY <1>1 DEF negated, Lowest, Fits
<1>5. /\ neg(d) \in [mant : Int, exp : -MaxExp..MaxExp]
      /\ neg(d).mant = negated(d.mant) /\ neg(d).exp = d.exp
  BY <1>2, <1>3, <1>4
<1>6. IsDecimal(neg(d))
  BY <1>4, <1>5 DEF IsDecimal
<1>7. \A x, y \in Int : (-x) * y = -(x * y)
  OBVIOUS
<1>8. Value(neg(d)) = negated(d.mant) * TenTo[d.exp + MaxExp]
  BY <1>5 DEF Value
<1> QED BY <1>1, <1>4, <1>6, <1>7, <1>8

LEMMA SubIs ==
  ASSUME NEW a, IsDecimal(a), NEW b, IsDecimal(b), sub(a, b) # Err
  PROVE  /\ IsDecimal(sub(a, b))
         /\ Value(sub(a, b)) = Value(a) + (IF b.mant = Lowest THEN Value(b) ELSE -Value(b))
<1>1. sub(a, b) = add(a, neg(b))
  BY DEF sub
<1>2. IsDecimal(neg(b)) /\ Value(neg(b)) = IF b.mant = Lowest THEN Value(b) ELSE -Value(b)
  BY NegIs
<1>3. IsDecimal(add(a, neg(b))) /\ Value(add(a, neg(b))) = Value(a) + Value(neg(b))
  BY <1>1, <1>2, AddIs
<1> QED BY <1>1, <1>2, <1>3

LEMMA MulIs ==
  ASSUME NEW a, IsDecimal(a), NEW b, IsDecimal(b), mul(a, b) # Err
  PROVE  /\ IsDecimal(mul(a, b))
         /\ Value(mul(a, b)) * TenTo[MaxExp] = Value(a) * Value(b)
<1> DEFINE m == a.mant * b.mant
           e == a.exp + b.exp
           x == TenTo[a.exp + MaxExp]
           y == TenTo[b.exp + MaxExp]
<1>1. /\ a.mant \in Int /\ a.exp \in Int /\ b.mant \in Int /\ b.exp \in Int
      /\ a.exp + MaxExp \in Nat /\ b.exp + MaxExp \in Nat
      /\ Value(a) = a.mant * x /\ Value(b) = b.mant * y /\ x \in Int /\ y \in Int
  BY ValueIs
<1>2. Fits(m) /\ mul(a, b) = new(m, e)
  BY DEF mul
<1>3. m \in Int /\ e \in Int
  BY <1>1
<1>4. /\ IsDecimal(mul(a, b)) /\ e + MaxExp \in Nat
      /\ Value(mul(a, b)) = m * TenTo[e + MaxExp]
  BY <1>2, <1>3, NewIs
<1>5. TenTo[e + MaxExp] * TenTo[MaxExp] = x * y
  <2> HIDE DEF x, y, m
  <2>1. MaxExp \in Nat /\ (e + MaxExp) + MaxExp = (a.exp + MaxExp) + (b.exp + MaxExp)
    <3>1. MaxExp \in Int /\ MaxExp \in Nat
      BY DecimalConstantsOK
    <3> QED BY <1>1, <3>1
  <2> HIDE DEF e
  <2>2. TenTo[(e + MaxExp) + MaxExp] = TenTo[e + MaxExp] * TenTo[MaxExp]
    BY <1>4, <2>1, TenToSum
  <2>3. TenTo[(a.exp + MaxExp) + (b.exp + MaxExp)] = x * y
    BY <1>1, TenToSum DEF x, y
  <2> QED BY <2>1, <2>2, <2>3
<1> DEFINE t == TenTo[e + MaxExp]
           u == TenTo[MaxExp]
           p == a.mant
           q == b.mant
<1>6. t \in Int /\ u \in Int /\ p \in Int /\ q \in Int
  BY <1>1, <1>4, TenToPositive, DecimalConstantsOK
<1>7. t * u = x * y /\ Value(mul(a, b)) = (p * q) * t /\ Value(a) = p * x /\ Value(b) = q * y
  BY <1>1, <1>4, <1>5
<1> HIDE DEF t, u, x, y, p, q, m, e
<1>8. ((p * q) * t) * u = (p * q) * (t * u)
  BY <1>6, TimesTurns
<1>9. (p * q) * (x * y) = (p * x) * (q * y)
  BY <1>1, <1>6
<1> QED BY <1>4, <1>7, <1>8, <1>9 DEF u

\* Times a ratio, or refused.
LEMMA RatioIs ==
  ASSUME NEW d, IsDecimal(d), NEW num \in Nat, NEW den \in Nat,
         mul_ratio_exact(d, num, den) # Err
  PROVE  /\ den # 0 /\ IsDecimal(mul_ratio_exact(d, num, den))
         /\ Value(mul_ratio_exact(d, num, den)) * den = Value(d) * num
<1> DEFINE n    == IF den < 0 THEN negated(num) ELSE num
           dn   == IF den < 0 THEN negated(den) ELSE den
           even == {k \in ShiftsTried(d, n) : (d.mant * TenTo[k] * n) % Abs(dn) = 0}
           k    == Min(even)
           x    == d.mant * TenTo[k] * num
           q    == x \div den
           r    == mul_ratio_exact(d, num, den)
<1>0. n = num /\ dn = den /\ Abs(dn) = den
  BY DEF Abs
<1>1. den # 0 /\ even # {} /\ r = new(Sign(den) * q, d.exp - k)
  <2>1. r = IF den = 0 \/ even = {} THEN Err
            ELSE new(Sign(dn) * ((d.mant * TenTo[k] * n) \div Abs(dn)), d.exp - k)
    BY Zenon DEF mul_ratio_exact
  <2>2. r # Err
    BY Zenon DEF r
  <2> HIDE DEF r, even, k, n, dn
  <2>3. /\ den # 0 /\ even # {}
        /\ r = new(Sign(dn) * ((d.mant * TenTo[k] * n) \div Abs(dn)), d.exp - k)
    BY <2>1, <2>2, Zenon
  <2> QED BY <1>0, <2>3, Zenon
<1>2. k \in even
  <2>1. even \subseteq Nat
    <3>1. ShiftsTried(d, n) \subseteq Nat
      BY DecimalConstantsOK DEF ShiftsTried
    <3> QED BY <3>1
  <2> HIDE DEF even
  <2>2. \E y \in even : \A j \in even : y <= j
    BY <1>1, <2>1, LeastElement
  <2> QED BY <2>2, Zenon DEF Min
<1>3. k \in Nat /\ x % den = 0 /\ Fits(x)
  <2> HIDE DEF k
  <2>1. k \in ShiftsTried(d, n) /\ (d.mant * TenTo[k] * n) % Abs(dn) = 0
    BY <1>2
  <2> HIDE DEF n, dn
  <2>2. k \in 0..MaxShift /\ \A j \in 0..k : Fits(d.mant * TenTo[j] * n)
    BY <2>1 DEF ShiftsTried
  <2>3. k \in Nat /\ k \in 0..k
    BY <2>2, DecimalConstantsOK
  <2> QED BY <1>0, <2>1, <2>2, <2>3
<1> HIDE DEF even, k
<1>4. /\ d.mant \in Int /\ d.exp \in Int /\ MaxExp \in Nat
      /\ Value(d) = d.mant * TenTo[d.exp + MaxExp]
  BY ValueIs, DecimalConstantsOK
<1>5. TenTo[k] \in Int
  BY <1>3, TenToPositive
<1>6. x \in Int
  BY <1>4, <1>5
<1>7. q \in Int /\ q * den = x /\ Fits(q)
  <2> HIDE DEF x
  <2> QED BY <1>1, <1>3, <1>6, FitsQuotient
<1> HIDE DEF q, r
<1>8. /\ IsDecimal(r) /\ (d.exp - k) + MaxExp \in Nat
      /\ Value(r) = q * TenTo[(d.exp - k) + MaxExp]
  <2>0. Sign(den) * q = q
    BY <1>1, <1>7 DEF Sign
  <2>1. d.exp - k \in Int /\ r = new(q, d.exp - k) /\ new(q, d.exp - k) # Err
    BY <1>1, <1>3, <1>4, <2>0 DEF r
  <2> QED BY <1>1, <1>7, <2>1, NewIs
<1> DEFINE t == TenTo[(d.exp - k) + MaxExp]
           u == TenTo[k]
           m == d.mant
<1>9. t \in Int /\ TenTo[d.exp + MaxExp] = u * t
  <2>1. d.exp + MaxExp = k + ((d.exp - k) + MaxExp)
    BY <1>3, <1>4
  <2>2. TenTo[k + ((d.exp - k) + MaxExp)] = u * t
    BY <1>3, <1>8, TenToSum
  <2>3. t \in Int
    BY <1>8, TenToPositive
  <2> QED BY <2>1, <2>2, <2>3
<1>10. m \in Int /\ u \in Int /\ q * den = m * u * num /\ Value(r) = q * t
       /\ Value(d) = m * (u * t)
  BY <1>4, <1>5, <1>7, <1>8, <1>9
<1> HIDE DEF t, u, m
<1>11. (q * t) * den = (q * den) * t
  BY <1>7, <1>9, TimesTurns
<1>12. (m * u * num) * t = (m * (u * t)) * num
  BY <1>9, <1>10
<1>13. Value(r) * den = Value(d) * num
  BY <1>10, <1>11, <1>12
<1> QED BY <1>1, <1>8, <1>13 DEF r

-----------------------------------------------------------------------------
(* The order of decimals.                                                  *)

LEMMA TenToGrows ==
  ASSUME NEW j \in Nat, NEW k \in Nat, j <= k
  PROVE  TenTo[j] <= TenTo[k]
<1>1. k - j \in Nat /\ k = j + (k - j)
  OBVIOUS
<1>2. TenTo[j + (k - j)] = TenTo[j] * TenTo[k - j]
  BY <1>1, TenToSum
<1>3. TenTo[j] \in Nat /\ TenTo[k - j] \in Nat \ {0}
  BY <1>1, TenToPositive
<1> DEFINE x == TenTo[j]
           y == TenTo[k - j]
<1>4. TenTo[k] = x * y /\ x \in Nat /\ y \in Nat \ {0}
  BY <1>1, <1>2, <1>3
<1> HIDE DEF x, y
<1>5. x <= x * y
  BY <1>4, QuotientSmaller
<1> QED BY <1>4, <1>5 DEF x

LEMMA SignIs ==
  ASSUME NEW a \in Int, NEW b \in Int
  PROVE  /\ a < b => Sign(a - b) = -1
         /\ a = b => Sign(a - b) = 0
         /\ a > b => Sign(a - b) = 1
         /\ Sign(b - a) = -Sign(a - b) /\ Sign(a - b) \in Int
         /\ Sign(a - b) = 0 => a = b
BY DEF Sign

LEMMA SignScaled ==
  ASSUME NEW a \in Int, NEW b \in Int, NEW c \in Nat \ {0}
  PROVE  Sign(a * c - b * c) = Sign(a - b)
<1>1. a * c \in Int /\ b * c \in Int
  BY TimesTurns
<1>2. a < b => a * c < b * c
  BY TimesGrows
<1>3. b < a => b * c < a * c
  BY TimesGrows
<1>4. a < b \/ a = b \/ b < a
  OBVIOUS
<1> QED BY <1>1, <1>2, <1>3, <1>4, SignIs

\* The number of digits is found below the width of the mantissa.
LEMMA DigitsAre ==
  ASSUME NEW m \in Nat, m <= Limit + 1
  PROVE  /\ Digits(m) \in Nat \ {0}
         /\ m < TenTo[Digits(m)]
         /\ m # 0 => m >= TenTo[Digits(m) - 1]
<1> DEFINE S == {n \in 1..Limit + 1 : m < TenTo[n]}
           Has(n) == Abs(m) < TenTo[n] /\ (n = 1 \/ Abs(m) >= TenTo[n-1])
<1>0. Limit \in Nat /\ Abs(m) = m
  BY DecimalConstantsOK DEF Abs
<1>1. Limit + 1 \in S
  <2>1. TenTo[Limit + 1] > Limit + 1 /\ TenTo[Limit + 1] \in Nat
    BY <1>0, TenToPositive
  <2> QED BY <1>0, <2>1
<1>2. PICK n \in S : \A k \in S : n <= k
  <2>1. S \subseteq Nat /\ S # {}
    BY <1>0, <1>1
  <2> HIDE DEF S
  <2> QED BY <2>1, LeastElement
<1>3. n \in 1..Limit + 1 /\ m < TenTo[n] /\ n \in Nat \ {0}
  BY <1>0, <1>2
<1>4. n = 1 \/ m >= TenTo[n-1]
  <2> SUFFICES ASSUME n # 1, ~(m >= TenTo[n-1]) PROVE FALSE
    OBVIOUS
  <2>1. n - 1 \in 1..Limit + 1 /\ n - 1 \in Nat
    BY <1>0, <1>3
  <2>2. TenTo[n-1] \in Nat
    BY <2>1, TenToPositive
  <2>3. n - 1 \in S
    BY <2>1, <2>2
  <2> HIDE DEF S
  <2>4. n <= n - 1
    BY <1>2, <2>3
  <2> QED BY <1>3, <2>4
<1>5. Has(n)
  BY <1>0, <1>3, <1>4
<1>6. Digits(m) \in 1..Limit + 1 /\ Has(Digits(m))
  <2>1. Digits(m) = CHOOSE x \in 1..Limit + 1 : Has(x)
    BY DEF Digits
  <2> HIDE DEF Has
  <2> QED BY <1>3, <1>5, <2>1
<1>7. Digits(m) = 1 => Digits(m) - 1 = 0
  OBVIOUS
<1> HIDE DEF S
<1> QED BY <1>0, <1>6, <1>7, TenToIs

\* A number with its last digit further to the left is the greater one.
LEMMA FurtherLeft ==
  ASSUME NEW m1 \in Nat, NEW m2 \in Nat, m1 # 0, m1 <= Limit + 1, m2 <= Limit + 1,
         NEW k1 \in Nat, NEW k2 \in Nat,
         Digits(m1) + k1 > Digits(m2) + k2
  PROVE  m2 * TenTo[k2] < m1 * TenTo[k1]
<1> DEFINE d1 == Digits(m1)
           d2 == Digits(m2)
<1>1. /\ d1 \in Nat \ {0} /\ d2 \in Nat \ {0} /\ m2 < TenTo[d2] /\ m1 >= TenTo[d1 - 1]
      /\ d1 - 1 \in Nat /\ d1 + k1 > d2 + k2
  BY DigitsAre
<1> HIDE DEF d1, d2
<1>2. /\ TenTo[d2 + k2] = TenTo[d2] * TenTo[k2]
      /\ TenTo[(d1 - 1) + k1] = TenTo[d1 - 1] * TenTo[k1]
  BY <1>1, TenToSum
<1>3. TenTo[d2 + k2] <= TenTo[(d1 - 1) + k1]
  BY <1>1, TenToGrows
<1>4. /\ TenTo[k1] \in Nat \ {0} /\ TenTo[k2] \in Nat \ {0} /\ TenTo[d2] \in Nat
      /\ TenTo[d1 - 1] \in Nat
  BY <1>1, TenToPositive
<1>5. m2 * TenTo[k2] < TenTo[d2] * TenTo[k2]
  BY <1>1, <1>4, TimesGrows
<1>6. TenTo[d1 - 1] * TenTo[k1] <= m1 * TenTo[k1]
  BY <1>1, <1>4, TimesGrows2
<1>7. m2 * TenTo[k2] \in Int /\ m1 * TenTo[k1] \in Int
  BY <1>4, TimesTurns
<1>8. TenTo[d2] * TenTo[k2] \in Int /\ TenTo[d1 - 1] * TenTo[k1] \in Int
  BY <1>4, TimesTurns
<1> QED BY <1>2, <1>3, <1>5, <1>6, <1>7, <1>8

\* Digits padded to one length compare as the numbers do.
LEMMA Padded ==
  ASSUME NEW m1 \in Nat, NEW m2 \in Nat, NEW k1 \in Nat, NEW k2 \in Nat,
         NEW d1 \in Nat, NEW d2 \in Nat, d1 >= d2, d1 + k1 = d2 + k2
  PROVE  Sign(m1 * TenTo[d1 - d1] - m2 * TenTo[d1 - d2])
           = Sign(m1 * TenTo[k1] - m2 * TenTo[k2])
<1>1. d1 - d1 = 0 /\ d1 - d2 \in Nat /\ k2 = (d1 - d2) + k1
  OBVIOUS
<1>2. TenTo[0] = 1 /\ TenTo[k1] \in Nat \ {0} /\ TenTo[d1 - d2] \in Nat
  BY <1>1, TenToIs, TenToPositive
<1>3. TenTo[k2] = TenTo[d1 - d2] * TenTo[k1]
  BY <1>1, TenToSum
<1> DEFINE x == TenTo[d1 - d2]
           y == TenTo[k1]
<1>4. TenTo[d1 - d1] = 1 /\ TenTo[k2] = x * y /\ x \in Nat /\ y \in Nat \ {0}
  BY <1>1, <1>2, <1>3
<1> HIDE DEF x, y
<1>5. m2 * (x * y) = (m2 * x) * y /\ m2 * x \in Int
  BY <1>4, TimesTurns
<1>6. Sign(m1 * y - (m2 * x) * y) = Sign(m1 - m2 * x)
  <2> DEFINE z == m2 * x
  <2>1. z \in Int
    BY <1>5
  <2> HIDE DEF z
  <2>2. Sign(m1 * y - z * y) = Sign(m1 - z)
    BY <1>4, <2>1, SignScaled
  <2> QED BY <2>2 DEF z
<1>7. m1 * TenTo[d1 - d1] = m1
  BY <1>4
<1> QED BY <1>4, <1>5, <1>6, <1>7 DEF x, y

LEMMA MagnitudesAre ==
  ASSUME NEW m1 \in Nat, NEW m2 \in Nat, m1 <= Limit + 1, m2 <= Limit + 1,
         NEW e1 \in -MaxExp..MaxExp, NEW e2 \in -MaxExp..MaxExp
  PROVE  cmp_magnitudes(m1, e1, m2, e2)
           = Sign(m1 * TenTo[e1 + MaxExp] - m2 * TenTo[e2 + MaxExp])
<1> DEFINE k1 == e1 + MaxExp
           k2 == e2 + MaxExp
           d1 == Digits(m1)
           d2 == Digits(m2)
           v1 == m1 * TenTo[k1]
           v2 == m2 * TenTo[k2]
<1>1. e1 \in Int /\ e2 \in Int /\ MaxExp \in Nat /\ k1 \in Nat /\ k2 \in Nat
  BY DecimalConstantsOK
<1>2. d1 \in Nat /\ d2 \in Nat
  BY DigitsAre
<1>3. TenTo[k1] \in Nat \ {0} /\ TenTo[k2] \in Nat \ {0}
  BY <1>1, TenToPositive
<1>4. v1 \in Int /\ v2 \in Int
  BY <1>3, TimesTurns
<1>5. cmp_magnitudes(m1, e1, m2, e2) =
        IF m1 = 0 \/ m2 = 0 THEN Sign(m1 - m2)
        ELSE IF d1 + e1 # d2 + e2 THEN Sign((d1 + e1) - (d2 + e2))
        ELSE IF d1 > d2 THEN Sign(m1 * TenTo[d1 - d1] - m2 * TenTo[d1 - d2])
        ELSE Sign(m1 * TenTo[d2 - d1] - m2 * TenTo[d2 - d2])
  <2>1. Printed(m1) = d1 /\ Printed(m2) = d2 /\ Abs(m1) = m1 /\ Abs(m2) = m2
    BY <1>2 DEF Printed, Abs
  <2> HIDE DEF d1, d2
  <2>2. ~(m1 < 0 \/ m2 < 0)
    OBVIOUS
  <2> QED BY <2>1, <2>2 DEF cmp_magnitudes, d1, d2
<1>6. CASE m1 = 0 \/ m2 = 0
  <2> HIDE DEF k1, k2
  <2>1. v1 - v2 \in Int /\ m1 - m2 \in Int
    BY <1>4
  <2>2. (m1 = 0 <=> v1 = 0) /\ (m2 = 0 <=> v2 = 0) /\ v1 >= 0 /\ v2 >= 0
    BY <1>3
  <2> HIDE DEF v1, v2
  <2>3. Sign(m1 - m2) = Sign(v1 - v2)
    BY <1>4, <1>6, <2>2 DEF Sign
  <2> QED BY <1>5, <1>6, <2>3 DEF v1, v2, k1, k2
<1>7. CASE m1 # 0 /\ m2 # 0 /\ d1 + e1 # d2 + e2
  <2>1. cmp_magnitudes(m1, e1, m2, e2) = Sign((d1 + e1) - (d2 + e2))
    BY <1>5, <1>7
  <2>2. d1 + e1 > d2 + e2 => d1 + k1 > d2 + k2
    <3> HIDE DEF d1, d2
    <3> QED BY <1>1, <1>2
  <2>3. d2 + e2 > d1 + e1 => d2 + k2 > d1 + k1
    <3> HIDE DEF d1, d2
    <3> QED BY <1>1, <1>2
  <2> HIDE DEF k1, k2
  <2>4. d1 + e1 > d2 + e2 => v2 < v1
    BY <1>1, <1>7, <2>2, FurtherLeft
  <2>5. d2 + e2 > d1 + e1 => v1 < v2
    BY <1>1, <1>7, <2>3, FurtherLeft
  <2>6. d1 + e1 \in Int /\ d2 + e2 \in Int
    BY <1>1, <1>2
  <2> HIDE DEF v1, v2, d1, d2
  <2>7. Sign((d1 + e1) - (d2 + e2)) = Sign(v1 - v2)
    BY <1>4, <1>7, <2>4, <2>5, <2>6, SignIs
  <2> QED BY <2>1, <2>7 DEF v1, v2, k1, k2
<1>8. CASE m1 # 0 /\ m2 # 0 /\ d1 + e1 = d2 + e2
  <2>1. d1 + k1 = d2 + k2
    <3> HIDE DEF d1, d2
    <3> QED BY <1>1, <1>2, <1>8
  <2> HIDE DEF k1, k2, d1, d2
  <2>2. CASE d1 > d2
    <3>1. Sign(m1 * TenTo[d1 - d1] - m2 * TenTo[d1 - d2]) = Sign(v1 - v2)
      BY <1>1, <1>2, <2>1, <2>2, Padded, SMTT(30)
    <3> QED BY <1>5, <1>8, <2>2, <3>1 DEF k1, k2
  <2>3. CASE ~(d1 > d2)
    <3>1. d2 >= d1 /\ d2 + k2 = d1 + k1
      BY <1>2, <2>1, <2>3
    <3>2. Sign(m2 * TenTo[d2 - d2] - m1 * TenTo[d2 - d1]) = Sign(v2 - v1)
      BY <1>1, <1>2, <3>1, Padded, SMTT(30)
    <3>3. m2 * TenTo[d2 - d2] \in Int /\ m1 * TenTo[d2 - d1] \in Int
      <4>1. d2 - d2 \in Nat /\ d2 - d1 \in Nat
        BY <1>2, <3>1
      <4>2. TenTo[d2 - d2] \in Int /\ TenTo[d2 - d1] \in Int
        BY <4>1, TenToPositive
      <4> QED BY <4>2, TimesTurns
    <3> DEFINE x == m2 * TenTo[d2 - d2]
               y == m1 * TenTo[d2 - d1]
    <3> HIDE DEF v1, v2, x, y
    <3>4. Sign(x - y) = Sign(v2 - v1) /\ x \in Int /\ y \in Int
      BY <3>2, <3>3 DEF x, y
    <3>5. Sign(y - x) = -Sign(x - y) /\ Sign(v1 - v2) = -Sign(v2 - v1)
      BY <1>4, <3>4, SignIs
    <3>6. Sign(y - x) = Sign(v1 - v2)
      BY <3>4, <3>5
    <3>7. cmp_magnitudes(m1, e1, m2, e2) = Sign(y - x)
      BY <1>5, <1>8, <2>3 DEF x, y
    <3> QED BY <3>6, <3>7 DEF v1, v2, k1, k2
  <2> QED BY <2>2, <2>3
<1> QED BY <1>6, <1>7, <1>8

\* Decimals are ordered as the numbers they stand for, unless they are negative and
\* one of them is on the lower bound.
LEMMA CmpIs ==
  ASSUME NEW a, IsDecimal(a), NEW b, IsDecimal(b),
         a.mant < 0 /\ b.mant < 0 => a.mant # Lowest /\ b.mant # Lowest
  PROVE  cmp(a, b) = Sign(Value(a) - Value(b))
<1> DEFINE ma == a.mant
           mb == b.mant
           x  == TenTo[a.exp + MaxExp]
           y  == TenTo[b.exp + MaxExp]
<1>1. /\ ma \in Int /\ Fits(ma) /\ a.exp \in -MaxExp..MaxExp /\ x \in Nat \ {0}
      /\ Value(a) = ma * x /\ Value(a) \in Int
      /\ mb \in Int /\ Fits(mb) /\ b.exp \in -MaxExp..MaxExp /\ y \in Nat \ {0}
      /\ Value(b) = mb * y /\ Value(b) \in Int
  BY ValueIs DEF IsDecimal
<1>2. Limit \in Nat
  BY DecimalConstantsOK
<1>3. ma <= Limit + 1 /\ mb <= Limit + 1 /\ -ma <= Limit + 1 /\ -mb <= Limit + 1
  BY <1>1, <1>2 DEF Fits
<1>4. (ma >= 0 => ma * x >= 0) /\ (ma < 0 => ma * x < 0)
  BY <1>1
<1>5. (mb >= 0 => mb * y >= 0) /\ (mb < 0 => mb * y < 0)
  BY <1>1
<1>6. CASE ma >= 0 /\ mb < 0
  BY <1>1, <1>4, <1>5, <1>6, SignIs DEF cmp
<1>7. CASE ma < 0 /\ mb >= 0
  BY <1>1, <1>4, <1>5, <1>7, SignIs DEF cmp
<1>8. CASE ma >= 0 /\ mb >= 0
  <2>1. magnitude(ma) = ma /\ magnitude(mb) = mb
    BY <1>1, <1>8 DEF magnitude
  <2>2. cmp(a, b) = cmp_magnitudes(ma, a.exp, mb, b.exp)
    BY <1>1, <1>8, <2>1 DEF cmp
  <2>3. ma \in Nat /\ mb \in Nat
    BY <1>1, <1>8
  <2> QED BY <1>1, <1>3, <2>2, <2>3, MagnitudesAre
<1>9. CASE ma < 0 /\ mb < 0
  <2>0. magnitude(ma) = -ma /\ magnitude(mb) = -mb
    BY <1>1, <1>9 DEF magnitude, negated
  <2>1. cmp(a, b) = -cmp_magnitudes(-ma, a.exp, -mb, b.exp)
    BY <1>1, <1>9, <2>0 DEF cmp
  <2>2. -ma \in Nat /\ -mb \in Nat
    BY <1>1, <1>9
  <2>3. cmp_magnitudes(-ma, a.exp, -mb, b.exp) = Sign((-ma) * x - (-mb) * y)
    BY <1>1, <1>3, <2>2, MagnitudesAre
  <2>4. (-ma) * x = -(ma * x) /\ (-mb) * y = -(mb * y)
    <3>1. \A p, q \in Int : (-p) * q = -(p * q)
      OBVIOUS
    <3> QED BY <1>1, <3>1
  <2> DEFINE v == Value(a)
             w == Value(b)
  <2>5. cmp(a, b) = -Sign((-v) - (-w)) /\ v \in Int /\ w \in Int
    BY <1>1, <2>1, <2>3, <2>4
  <2> HIDE DEF v, w
  <2>6. Sign((-v) - (-w)) = Sign(w - v)
    <3>1. (-v) - (-w) = w - v
      BY <2>5
    <3> QED BY <3>1
  <2>7. Sign(w - v) = -Sign(v - w) /\ Sign(v - w) \in Int
    BY <2>5, SignIs
  <2>8. cmp(a, b) = Sign(v - w)
    BY <2>5, <2>6, <2>7
  <2> QED BY <2>8 DEF v, w
<1> QED BY <1>1, <1>6, <1>7, <1>8, <1>9

\* Beside one negative amount on the lower bound, another never compares equal, and
\* is never worth as much.
LEMMA LowestApart ==
  ASSUME NEW a, IsDecimal(a), a.mant = Lowest, NEW b, IsDecimal(b), b.mant # Lowest,
         b.mant < 0
  PROVE  Value(a) # Value(b) /\ cmp(a, b) # 0 /\ cmp(b, a) # 0
<1> DEFINE m == b.mant
           e == a.exp
           f == b.exp
           x == TenTo[e + MaxExp]
           y == TenTo[f + MaxExp]
<1>1. /\ e \in Int /\ f \in Int /\ MaxExp \in Nat /\ e + MaxExp \in Nat /\ f + MaxExp \in Nat
      /\ x \in Nat \ {0} /\ y \in Nat \ {0} /\ m \in Int /\ Fits(m)
      /\ Value(a) = Lowest * x /\ Value(b) = m * y
  BY ValueIs, DecimalConstantsOK
<1>2. Limit \in Nat /\ Lowest \in Int /\ Lowest = -(Limit + 1) /\ (Limit + 1) % 10 # 0
  BY DecimalConstantsOK DEF Lowest
<1>3. Lowest < m /\ m < 0
  BY <1>1, <1>2 DEF Fits
<1>4. Value(a) # Value(b)
  <2> SUFFICES ASSUME Lowest * x = m * y PROVE FALSE
    BY <1>1
  <2>1. CASE e < f
    <3> DEFINE j == (f - e) - 1
               t == TenTo[j]
    <3>1. j \in Nat /\ j + 1 \in Nat /\ f + MaxExp = (j + 1) + (e + MaxExp)
      BY <1>1, <2>1
    <3>2. TenTo[j + 1] = 10 * t /\ t \in Nat
      BY <3>1, TenToIs, TenToPositive
    <3>3. y = (10 * t) * x
      <4>1. TenTo[(j + 1) + (e + MaxExp)] = TenTo[j + 1] * TenTo[e + MaxExp]
        BY <1>1, <3>1, TenToSum
      <4> QED BY <3>1, <3>2, <4>1
    <3> HIDE DEF x, y, j, t, m, e, f
    <3>4. m * ((10 * t) * x) = (10 * (m * t)) * x /\ m * t \in Int /\ 10 * (m * t) \in Int
      BY <1>1, <3>2
    <3>5. Lowest = 10 * (m * t)
      BY <1>1, <1>2, <3>3, <3>4, TimesCancels
    <3> DEFINE u == -(m * t)
    <3>6. Limit + 1 = u * 10 /\ u \in Int
      BY <1>2, <3>4, <3>5
    <3> HIDE DEF u
    <3> QED BY <1>2, <3>6, ModOfMultiple
  <2>2. CASE f <= e
    <3> DEFINE t == TenTo[e - f]
    <3>1. e - f \in Nat /\ e + MaxExp = (e - f) + (f + MaxExp)
      BY <1>1, <2>2
    <3>2. x = t * y /\ t \in Nat \ {0}
      <4>1. TenTo[(e - f) + (f + MaxExp)] = TenTo[e - f] * TenTo[f + MaxExp]
        BY <1>1, <3>1, TenToSum
      <4> QED BY <3>1, <4>1, TenToPositive
    <3> HIDE DEF x, y, t, m, e, f
    <3>3. Lowest * (t * y) = (Lowest * t) * y /\ Lowest * t \in Int
      BY <1>1, <1>2, <3>2, TimesTurns
    <3>4. Lowest * t = m
      BY <1>1, <3>2, <3>3, TimesCancels
    <3>5. Lowest * t <= Lowest
      BY <1>2, <3>2
    <3> QED BY <1>1, <1>2, <1>3, <3>4, <3>5
  <2> QED BY <1>1, <2>1, <2>2
<1>5. magnitude(Lowest) = Lowest /\ magnitude(m) = -m /\ Lowest # 0 /\ -m # 0
      /\ Lowest < 0 /\ ~(-m < 0) /\ Sign(Lowest) = -1 /\ Sign(-m) = 1
  BY <1>1, <1>2, <1>3 DEF magnitude, negated, Sign
<1>6. Printed(Lowest) \in Int /\ Printed(-m) \in Int
  <2>1. Limit + 1 \in Nat /\ -m \in Nat /\ -m <= Limit + 1
    BY <1>1, <1>2, <1>3
  <2>2. Digits(Limit + 1) \in Int /\ Digits(-m) \in Int
    BY <1>2, <2>1, DigitsAre
  <2>3. Digits(Lowest) = Digits(Limit + 1)
    <3>1. Abs(Lowest) = Limit + 1 /\ Abs(Limit + 1) = Limit + 1
      BY <1>2 DEF Abs
    <3> QED BY <3>1 DEF Digits
  <2> QED BY <2>2, <2>3 DEF Printed
<1>7. \A u, v \in Int : u # v => Sign(u - v) # 0 /\ -Sign(u - v) # 0
  BY DEF Sign
<1>8. /\ Sign(-1 - 1) = -1 /\ Sign(1 - (-1)) = 1
  BY DEF Sign
<1> DEFINE l == Printed(Lowest) + e
           k == Printed(-m) + f
<1>9. l \in Int /\ k \in Int
  BY <1>1, <1>6
<1>10. /\ cmp(a, b) = -cmp_magnitudes(Lowest, e, -m, f)
       /\ cmp(b, a) = -cmp_magnitudes(-m, f, Lowest, e)
  BY <1>1, <1>2, <1>3, <1>5 DEF cmp
<1> HIDE DEF m, e, f
<1>11. /\ cmp_magnitudes(Lowest, e, -m, f) = IF l # k THEN Sign(l - k) ELSE -1
       /\ cmp_magnitudes(-m, f, Lowest, e) = IF k # l THEN Sign(k - l) ELSE 1
  BY <1>5, <1>8, Zenon DEF cmp_magnitudes
<1> HIDE DEF l, k
<1>12. cmp_magnitudes(Lowest, e, -m, f) \in {-1, 1} /\ cmp_magnitudes(-m, f, Lowest, e) \in {-1, 1}
  BY <1>9, <1>11 DEF Sign
<1> QED BY <1>4, <1>10, <1>12 DEF m, e, f

\* Two amounts on the lower bound compare equal when their exponents are the same.
LEMMA LowestAlike ==
  ASSUME NEW a, IsDecimal(a), a.mant = Lowest, NEW b, IsDecimal(b), b.mant = Lowest
  PROVE  cmp(a, b) = Sign(Value(a) - Value(b))
<1> DEFINE e == a.exp
           f == b.exp
           k == e + MaxExp
           l == f + MaxExp
           n == Limit + 1
           d == Digits(n)
<1>1. /\ e \in Int /\ f \in Int /\ MaxExp \in Nat /\ k \in Nat /\ l \in Nat
      /\ Value(a) = Lowest * TenTo[k] /\ Value(b) = Lowest * TenTo[l]
      /\ TenTo[k] \in Nat /\ TenTo[l] \in Nat
  BY ValueIs, DecimalConstantsOK
<1>2. Limit \in Nat /\ Lowest \in Int /\ Lowest = -n /\ n \in Nat \ {0}
  BY DecimalConstantsOK DEF Lowest
<1>3. d \in Nat /\ Digits(Lowest) = d
  <2>1. Digits(n) \in Nat
    BY <1>2, DigitsAre
  <2>2. Abs(Lowest) = n /\ Abs(n) = n
    BY <1>2 DEF Abs
  <2> QED BY <2>1, <2>2 DEF Digits
<1>4. /\ l < k => n * TenTo[l] < n * TenTo[k]
      /\ k < l => n * TenTo[k] < n * TenTo[l]
  <2>1. /\ l < k => d + k > d + l
        /\ k < l => d + l > d + k
    <3> HIDE DEF d, k, l
    <3> QED BY <1>1, <1>3
  <2> HIDE DEF k, l
  <2> QED BY <1>1, <1>2, <2>1, FurtherLeft
<1>5. /\ Value(a) = -(n * TenTo[k]) /\ Value(b) = -(n * TenTo[l])
      /\ n * TenTo[k] \in Int /\ n * TenTo[l] \in Int
  <2>1. \A p, q \in Int : (-p) * q = -(p * q)
    OBVIOUS
  <2>2. n * TenTo[k] \in Int /\ n * TenTo[l] \in Int
    <3> HIDE DEF k, l, n
    <3> QED BY <1>1, <1>2
  <2> HIDE DEF k, l, n
  <2> QED BY <1>1, <1>2, <2>1, <2>2
<1>6. magnitude(Lowest) = Lowest /\ Lowest < 0 /\ Lowest # 0 /\ ~(Lowest >= 0)
  BY <1>2 DEF magnitude, negated
<1>7. cmp(a, b) = -cmp_magnitudes(Lowest, e, Lowest, f)
  BY <1>6 DEF cmp
<1>8. Printed(Lowest) = d + 1
  BY <1>3, <1>6 DEF Printed
<1>9. cmp_magnitudes(Lowest, e, Lowest, f)
        = IF (d + 1) + e # (d + 1) + f THEN Sign(((d + 1) + e) - ((d + 1) + f))
          ELSE Sign(Sign(Lowest) - Sign(Lowest))
  BY <1>6, <1>8, Zenon DEF cmp_magnitudes
<1>10. Sign(Lowest) - Sign(Lowest) = 0 /\ Sign(0) = 0
  BY <1>2 DEF Sign
<1> DEFINE u == n * TenTo[k]
           v == n * TenTo[l]
<1>11. /\ cmp(a, b) = -Sign(k - l) /\ k \in Int /\ l \in Int
  <2>1. cmp_magnitudes(Lowest, e, Lowest, f) = Sign(k - l)
    <3> HIDE DEF d
    <3>1. CASE e = f
      BY <1>1, <1>3, <1>9, <1>10, <3>1
    <3>2. CASE e # f
      <4>1. (d + 1) + e # (d + 1) + f /\ ((d + 1) + e) - ((d + 1) + f) = k - l
        BY <1>1, <1>3, <3>2
      <4> QED BY <1>9, <4>1
    <3> QED BY <3>1, <3>2
  <2> QED BY <1>1, <1>7, <2>1
<1>12. (l < k => v < u) /\ (k < l => u < v) /\ (k = l => u = v) /\ u \in Int /\ v \in Int
       /\ Value(a) - Value(b) = v - u
  BY <1>4, <1>5
<1> HIDE DEF u, v, k, l
<1>13. Sign(v - u) = -Sign(k - l)
  BY <1>11, <1>12 DEF Sign
<1> QED BY <1>11, <1>12, <1>13

\* The order is that of the numbers, but beside the lower bound.
LEMMA OrderIs ==
  ASSUME NEW a, IsDecimal(a), NEW b, IsDecimal(b), ~OneWraps(a, b)
  PROVE  cmp(a, b) = Sign(Value(a) - Value(b))
<1>1. CASE a.mant = Lowest /\ b.mant = Lowest
  BY <1>1, LowestAlike
<1>2. CASE a.mant < 0 /\ b.mant < 0 => a.mant # Lowest /\ b.mant # Lowest
  BY <1>2, CmpIs
<1> QED BY <1>1, <1>2 DEF OneWraps

\* Two decimals are equal exactly when they stand for one number.
LEMMA EqIs ==
  ASSUME NEW a, IsDecimal(a), NEW b, IsDecimal(b)
  PROVE  eq(a, b) <=> Value(a) = Value(b)
<1>1. CASE ~OneWraps(a, b)
  <2>1. cmp(a, b) = Sign(Value(a) - Value(b)) /\ Value(a) \in Int /\ Value(b) \in Int
    BY <1>1, OrderIs, ValueIs
  <2> QED BY <2>1, SignIs DEF eq
<1>2. CASE OneWraps(a, b)
  <2>1. Value(a) # Value(b) /\ cmp(a, b) # 0
    <3>1. \/ a.mant = Lowest /\ b.mant # Lowest /\ b.mant < 0
          \/ b.mant = Lowest /\ a.mant # Lowest /\ a.mant < 0
      BY <1>2 DEF OneWraps
    <3> QED BY <3>1, LowestApart
  <2> QED BY <2>1 DEF eq
<1> QED BY <1>1, <1>2

\* Two numbers without trailing zeros that are worth the same are the same.
LEMMA StrippedSame ==
  ASSUME NEW a, IsDecimal(a), Stripped(a), NEW b, IsDecimal(b), Stripped(b),
         Value(a) = Value(b), Value(a) # 0
  PROVE  a = b
<1>1. ASSUME NEW c, IsDecimal(c), NEW d, IsDecimal(d), Stripped(c), Value(c) = Value(d),
             Value(c) # 0, c.exp < d.exp
      PROVE  FALSE
  <2> DEFINE m == c.mant
             p == d.mant
             x == TenTo[c.exp + MaxExp]
             j == (d.exp - c.exp) - 1
             t == TenTo[j]
  <2>1. /\ m \in Int /\ c.exp \in Int /\ x \in Nat \ {0} /\ Value(c) = m * x
        /\ p \in Int /\ d.exp \in Int /\ Value(d) = p * TenTo[d.exp + MaxExp]
        /\ d.exp <= MaxExp /\ c.exp + MaxExp \in Nat /\ MaxExp \in Nat
    BY <1>1, ValueIs, DecimalConstantsOK
  <2>2. /\ j \in Nat /\ j + 1 \in Nat /\ d.exp + MaxExp = (j + 1) + (c.exp + MaxExp)
        /\ c.exp # MaxExp
    BY <1>1, <2>1
  <2>3. TenTo[j + 1] = 10 * t /\ t \in Nat
    BY <2>2, TenToIs, TenToPositive
  <2>4. TenTo[d.exp + MaxExp] = (10 * t) * x
    <3>1. TenTo[(j + 1) + (c.exp + MaxExp)] = TenTo[j + 1] * TenTo[c.exp + MaxExp]
      BY <2>1, <2>2, TenToSum
    <3> QED BY <2>2, <2>3, <3>1
  <2> HIDE DEF j, x
  <2>5. m * x = p * ((10 * t) * x)
    BY <1>1, <2>1, <2>4
  <2> HIDE DEF t, m, p
  <2>6. p * ((10 * t) * x) = ((p * t) * 10) * x /\ p * t \in Int
    BY <2>1, <2>3
  <2> DEFINE u == (p * t) * 10
  <2>7. u \in Int /\ m * x = u * x
    BY <2>5, <2>6
  <2>8. u % 10 = 0
    <3>1. \A v \in Int : (v * 10) % 10 = 0
      OBVIOUS
    <3> QED BY <2>6, <3>1
  <2> HIDE DEF u
  <2>9. m = u
    BY <2>1, <2>7, TimesCancels
  <2>10. m # 0
    BY <1>1, <2>1
  <2> QED BY <1>1, <2>2, <2>8, <2>9, <2>10 DEF Stripped, m
<1>2. a.exp \in Int /\ b.exp \in Int
  BY ValueIs
<1>3. a.exp = b.exp
  BY <1>1, <1>2
<1>4. a.mant = b.mant
  <2>1. /\ a.mant \in Int /\ b.mant \in Int /\ TenTo[a.exp + MaxExp] \in Nat \ {0}
        /\ a.mant * TenTo[a.exp + MaxExp] = b.mant * TenTo[a.exp + MaxExp]
    BY <1>3, ValueIs
  <2> QED BY <2>1, TimesCancels
<1>5. a \in [mant : Int, exp : -MaxExp..MaxExp] /\ b \in [mant : Int, exp : -MaxExp..MaxExp]
  BY DEF IsDecimal
<1> QED BY <1>3, <1>4, <1>5

\* Equal numbers hash alike.
LEMMA HashIs ==
  ASSUME NEW a, IsDecimal(a), NEW b, IsDecimal(b), eq(a, b), a.mant # 0
  PROVE  hash(a) = hash(b)
<1>1. Value(a) = Value(b)
  BY EqIs
<1>2. /\ a.mant \in Int /\ b.mant \in Int /\ Fits(a.mant) /\ Fits(b.mant)
      /\ a.exp \in -MaxExp..MaxExp /\ b.exp \in -MaxExp..MaxExp
  BY ValueIs DEF IsDecimal
<1>3. /\ IsDecimal(hash(a)) /\ Stripped(hash(a)) /\ Value(hash(a)) = Value(a)
      /\ IsDecimal(hash(b)) /\ Stripped(hash(b)) /\ Value(hash(b)) = Value(b)
  BY <1>2, NormalizedIs DEF hash, Value
<1>4. Value(a) # 0
  <2>1. Value(a) = a.mant * TenTo[a.exp + MaxExp] /\ TenTo[a.exp + MaxExp] \in Nat \ {0}
    BY ValueIs
  <2>2. \A x \in Int, y \in Nat \ {0} : x # 0 => x * y # 0
    OBVIOUS
  <2> QED BY <1>2, <2>1, <2>2
<1> QED BY <1>1, <1>3, <1>4, StrippedSame

\* What is printed is read back, or refused.
LEMMA ReadBack ==
  ASSUME NEW a, IsDecimal(a), parse(text(a)) # Err
  PROVE  IsDecimal(parse(text(a))) /\ Value(parse(text(a))) = Value(a)
<1> DEFINE n == text(a).digits
           p == text(a).places
<1>1. /\ a.mant \in Int /\ a.exp \in Int /\ MaxExp \in Nat /\ a.exp + MaxExp \in Nat
      /\ Value(a) = a.mant * TenTo[a.exp + MaxExp]
  BY ValueIs, DecimalConstantsOK
<1>2. /\ n = IF a.exp >= 0 THEN a.mant * TenTo[a.exp] ELSE a.mant
      /\ p = IF a.exp >= 0 \/ a.mant = 0 THEN 0 ELSE -a.exp
  BY DEF text
<1>3. Fits(n) /\ parse(text(a)) = new(n, -p)
  BY Zenon DEF parse
<1>4. n \in Int /\ -p \in Int
  <2>1. a.exp >= 0 => TenTo[a.exp] \in Int
    BY <1>1, TenToPositive
  <2> QED BY <1>1, <1>2, <2>1
<1> HIDE DEF n, p
<1>5. IsDecimal(parse(text(a))) /\ Value(parse(text(a))) = n * TenTo[-p + MaxExp]
  BY <1>3, <1>4, NewIs
<1>6. n * TenTo[-p + MaxExp] = Value(a)
  <2>1. CASE a.exp >= 0
    <3>1. -p + MaxExp = MaxExp /\ n = a.mant * TenTo[a.exp] /\ a.exp \in Nat
      BY <1>1, <1>2, <2>1
    <3>2. TenTo[a.exp + MaxExp] = TenTo[a.exp] * TenTo[MaxExp]
      BY <1>1, <3>1, TenToSum
    <3>3. TenTo[a.exp] \in Int /\ TenTo[MaxExp] \in Int
      BY <1>1, <3>1, TenToPositive
    <3>4. (a.mant * TenTo[a.exp]) * TenTo[MaxExp] = a.mant * (TenTo[a.exp] * TenTo[MaxExp])
      BY <1>1, <3>3, TimesTurns
    <3> QED BY <1>1, <3>1, <3>2, <3>4
  <2>2. CASE ~(a.exp >= 0) /\ a.mant # 0
    <3>1. -p + MaxExp = a.exp + MaxExp /\ n = a.mant
      BY <1>1, <1>2, <2>2
    <3> QED BY <1>1, <3>1
  <2>3. CASE ~(a.exp >= 0) /\ a.mant = 0
    <3>1. -p + MaxExp = MaxExp /\ n = 0
      BY <1>1, <1>2, <2>3
    <3>2. TenTo[MaxExp] \in Int /\ TenTo[a.exp + MaxExp] \in Int
      BY <1>1, TenToPositive
    <3> QED BY <1>1, <2>3, <3>1, <3>2
  <2> QED BY <2>1, <2>2, <2>3
<1> QED BY <1>5, <1>6

\* What has no trailing zeros is refused only on the lower bound.
LEMMA TextReadable ==
  ASSUME NEW a, IsDecimal(a), a.exp <= 0
  PROVE  parse(text(a)) = Err <=> a.mant = Lowest
<1>1. /\ a.mant \in Int /\ Fits(a.mant) /\ a.exp \in Int /\ -MaxExp <= a.exp
      /\ MaxExp \in Nat /\ Limit \in Nat
  BY ValueIs, DecimalConstantsOK
<1>2. a.exp = 0 => a.mant * TenTo[a.exp] = a.mant
  <2>1. TenTo[0] = 1
    BY TenToIs
  <2> QED BY <1>1, <2>1
<1> DEFINE p == text(a).places
<1>3. /\ text(a).digits = a.mant
      /\ p \in Nat /\ p <= MaxExp
      /\ text(a).signs = IF a.mant = Lowest THEN 2 ELSE IF a.mant < 0 THEN 1 ELSE 0
  BY <1>1, <1>2 DEF text
<1>4. parse(text(a)) = IF text(a).signs < 2 THEN new(a.mant, -p) ELSE Err
  BY <1>1, <1>3, Zenon DEF parse
<1> HIDE DEF p
<1>5. -p \in -MaxExp..MaxExp /\ -MaxExp <= -p /\ -p <= MaxExp
  BY <1>1, <1>3
<1>6. new(a.mant, -p) # Err
  <2>1. new(a.mant, -p) = normalized(a.mant, -p)
    BY <1>5 DEF new
  <2>2. IsDecimal(normalized(a.mant, -p))
    BY <1>1, <1>5, NormalizedIs
  <2> QED BY <2>1, <2>2, ErrIsNoDecimal
<1> QED BY <1>3, <1>4, <1>6

-----------------------------------------------------------------------------
(* Quantities in registered units.                                         *)

FactorsOK(units) == \A u \in DOMAIN units : IsFactor(units[u])

LEMMA CanonicalIs ==
  ASSUME NEW units, FactorsOK(units), NEW q, IsDecimal(q.amount),
         canonical_amount(q, units) # Err
  PROVE  /\ q.uom \in DOMAIN units
         /\ units[q.uom].num \in Nat /\ units[q.uom].den \in Nat \ {0}
         /\ IsDecimal(canonical_amount(q, units))
         /\ Value(canonical_amount(q, units)) * units[q.uom].den
               = Value(q.amount) * units[q.uom].num
<1>1. /\ q.uom \in DOMAIN units
      /\ canonical_amount(q, units)
           = mul_ratio_exact(q.amount, units[q.uom].num, units[q.uom].den)
  BY DEF canonical_amount, Known
<1>2. units[q.uom].num \in Nat /\ units[q.uom].den \in Nat \ {0}
  BY <1>1 DEF FactorsOK, IsFactor
<1> QED BY <1>1, <1>2, RatioIs

LEMMA FromCanonicalIs ==
  ASSUME NEW units, FactorsOK(units), NEW c, IsDecimal(c), NEW u \in DOMAIN units,
         from_canonical(c, u, units) # Err
  PROVE  /\ from_canonical(c, u, units)
               = [amount |-> from_canonical(c, u, units).amount, uom |-> u]
         /\ IsDecimal(from_canonical(c, u, units).amount)
         /\ units[u].num \in Nat \ {0} /\ units[u].den \in Nat \ {0}
         /\ Value(from_canonical(c, u, units).amount) * units[u].num
               = Value(c) * units[u].den
<1> DEFINE r == mul_ratio_exact(c, units[u].den, units[u].num)
<1>1. r # Err /\ from_canonical(c, u, units) = [amount |-> r, uom |-> u]
  BY Zenon DEF from_canonical
<1>2. units[u].num \in Nat /\ units[u].den \in Nat \ {0}
  BY DEF FactorsOK, IsFactor
<1>3. units[u].num # 0 /\ IsDecimal(r) /\ Value(r) * units[u].num = Value(c) * units[u].den
  BY <1>1, <1>2, RatioIs
<1> HIDE DEF r
<1> QED BY <1>1, <1>2, <1>3

\* What is taken to a unit has the canonical amount it was made from.
LEMMA ThereAndBack ==
  ASSUME NEW units, FactorsOK(units), NEW c, IsDecimal(c), NEW u \in DOMAIN units,
         from_canonical(c, u, units) # Err,
         canonical_amount(from_canonical(c, u, units), units) # Err
  PROVE  /\ IsDecimal(canonical_amount(from_canonical(c, u, units), units))
         /\ Value(canonical_amount(from_canonical(c, u, units), units)) = Value(c)
<1> DEFINE q == from_canonical(c, u, units)
           k == canonical_amount(q, units)
<1>1. /\ q.uom = u /\ IsDecimal(q.amount)
      /\ units[u].num \in Nat \ {0} /\ units[u].den \in Nat \ {0}
      /\ Value(q.amount) * units[u].num = Value(c) * units[u].den
  <2>1. q = [amount |-> q.amount, uom |-> u]
    BY FromCanonicalIs
  <2> HIDE DEF q
  <2>2. q.uom = u
    BY <2>1
  <2> QED BY <2>2, FromCanonicalIs DEF q
<1>2. k # Err
  BY Zenon DEF k
<1> HIDE DEF q
<1>3. IsDecimal(k) /\ Value(k) * units[u].den = Value(q.amount) * units[u].num
  BY <1>1, <1>2, CanonicalIs
<1>4. Value(k) \in Int /\ Value(c) \in Int
  BY <1>3, ValueIs
<1>5. Value(k) = Value(c)
  BY <1>1, <1>3, <1>4, TimesCancels
<1> QED BY <1>3, <1>5 DEF q

\* A sum is exact, and in the unit of the first.
LEMMA PlusIs ==
  ASSUME NEW units, FactorsOK(units), NEW q, IsDecimal(q.amount),
         NEW r, IsDecimal(r.amount), plus(q, r, units) # Err
  PROVE  /\ canonical_amount(q, units) # Err /\ canonical_amount(r, units) # Err
         /\ IsQuantity(plus(q, r, units)) /\ plus(q, r, units).uom = q.uom
         /\ q.uom \in DOMAIN units /\ r.uom \in DOMAIN units
         /\ units[q.uom].num \in Nat \ {0} /\ units[q.uom].den \in Nat \ {0}
         /\ Value(plus(q, r, units).amount) * units[q.uom].num
              = (Value(canonical_amount(q, units)) + Value(canonical_amount(r, units)))
                  * units[q.uom].den
         /\ canonical_amount(plus(q, r, units), units) # Err =>
              /\ IsDecimal(canonical_amount(plus(q, r, units), units))
              /\ Value(canonical_amount(plus(q, r, units), units))
                   = Value(canonical_amount(q, units)) + Value(canonical_amount(r, units))
<1> DEFINE cq == canonical_amount(q, units)
           cr == canonical_amount(r, units)
           t  == add(cq, cr)
           p  == plus(q, r, units)
<1>1. /\ same_dimension(q, r, units) /\ cq # Err /\ cr # Err /\ t # Err
      /\ p = from_canonical(t, q.uom, units) /\ p # Err
  <2>1. p = IF same_dimension(q, r, units)
              THEN IF cq = Err \/ cr = Err \/ t = Err THEN Err
                   ELSE from_canonical(t, q.uom, units)
              ELSE Err
    BY Zenon DEF plus, sum_of
  <2>2. p # Err
    BY Zenon
  <2> HIDE DEF p, cq, cr, t
  <2> QED BY <2>1, <2>2, Zenon
<1>2. q.uom \in DOMAIN units /\ r.uom \in DOMAIN units
  BY <1>1 DEF same_dimension, Known
<1>3. IsDecimal(cq) /\ IsDecimal(cr)
  BY <1>1, CanonicalIs
<1> HIDE DEF cq, cr, p
<1>4. IsDecimal(t) /\ Value(t) = Value(cq) + Value(cr)
  BY <1>1, <1>3, AddIs
<1> HIDE DEF t
<1>5. /\ p = [amount |-> p.amount, uom |-> q.uom] /\ IsDecimal(p.amount)
      /\ units[q.uom].num \in Nat \ {0} /\ units[q.uom].den \in Nat \ {0}
      /\ Value(p.amount) * units[q.uom].num = Value(t) * units[q.uom].den
  BY <1>1, <1>2, <1>4, FromCanonicalIs
<1>6. p.uom = q.uom /\ p = [amount |-> p.amount, uom |-> p.uom]
  BY <1>5
<1>7. canonical_amount(p, units) # Err =>
        IsDecimal(canonical_amount(p, units)) /\ Value(canonical_amount(p, units)) = Value(t)
  BY <1>1, <1>2, <1>4, ThereAndBack
<1> QED BY <1>1, <1>2, <1>4, <1>5, <1>6, <1>7 DEF IsQuantity, p, cq, cr

\* A quantity is worth what its canonical amount is.
LEMMA WorthIs ==
  ASSUME NEW units, FactorsOK(units), NEW q, IsDecimal(q.amount),
         canonical_amount(q, units) # Err, NEW a, IsDecimal(a),
         Value(a) * units[q.uom].num
           = Value(canonical_amount(q, units)) * units[q.uom].den,
         units[q.uom].num # 0
  PROVE  Value(a) = Value(q.amount)
<1>1. /\ units[q.uom].num \in Nat
      /\ Value(canonical_amount(q, units)) * units[q.uom].den
               = Value(q.amount) * units[q.uom].num
  BY CanonicalIs
<1>2. Value(a) \in Int /\ Value(q.amount) \in Int
  BY ValueIs
<1> QED BY <1>1, <1>2, TimesCancels

\* A conversion is exact: it compares equal, and so does the way back.
LEMMA ConversionIs ==
  ASSUME NEW units, FactorsOK(units), NEW q, IsQuantity(q), NEW u \in DOMAIN units,
         convert_to(q, u, units) # Err
  PROVE  /\ cmp_qty(q, convert_to(q, u, units), units) \in {0, Err}
         /\ \/ convert_to(convert_to(q, u, units), q.uom, units) = Err
            \/ eq_qty(convert_to(convert_to(q, u, units), q.uom, units), q)
<1> DEFINE there == convert_to(q, u, units)
           c     == canonical_amount(q, units)
           d     == canonical_amount(there, units)
           back  == convert_to(there, q.uom, units)
<1>0. IsDecimal(q.amount)
  BY DEF IsQuantity
<1>1. c # Err /\ there = from_canonical(c, u, units) /\ there # Err
      /\ q.uom \in DOMAIN units
  BY Zenon DEF convert_to, same_dimension, Known
<1>2. IsDecimal(c)
  BY <1>0, <1>1, CanonicalIs
<1> HIDE DEF there, c
<1>3. there = [amount |-> there.amount, uom |-> u] /\ IsDecimal(there.amount)
  BY <1>1, <1>2, FromCanonicalIs
<1>4. d # Err => IsDecimal(d) /\ Value(d) = Value(c)
  BY <1>1, <1>2, ThereAndBack
<1> HIDE DEF d
<1>5. cmp_qty(q, there, units) \in {0, Err}
  <2>1. \/ cmp_qty(q, there, units) = Err
        \/ d # Err /\ cmp_qty(q, there, units) = cmp(c, d)
    BY Zenon DEF cmp_qty, c, d
  <2>2. d # Err => cmp(c, d) = 0
    BY <1>2, <1>4, EqIs DEF eq
  <2> QED BY <2>1, <2>2
<1>6. back = Err \/ eq_qty(back, q)
  <2> SUFFICES ASSUME back # Err PROVE eq_qty(back, q)
    OBVIOUS
  <2>1. d # Err /\ back = from_canonical(d, q.uom, units)
    BY Zenon DEF convert_to, d
  <2> HIDE DEF back
  <2>2. /\ back = [amount |-> back.amount, uom |-> q.uom] /\ IsDecimal(back.amount)
        /\ units[q.uom].num \in Nat \ {0}
        /\ Value(back.amount) * units[q.uom].num = Value(d) * units[q.uom].den
    BY <1>1, <1>4, <2>1, FromCanonicalIs
  <2>3. Value(back.amount) = Value(q.amount)
    BY <1>0, <1>1, <1>4, <2>1, <2>2, WorthIs DEF c
  <2>4. eq(back.amount, q.amount)
    BY <1>0, <2>2, <2>3, EqIs
  <2>5. back.uom = q.uom
    BY <2>2
  <2> QED BY <2>4, <2>5 DEF eq_qty
<1> QED BY <1>5, <1>6 DEF there, back

\* What was added can be taken away again.
LEMMA MinusIs ==
  ASSUME NEW units, FactorsOK(units), NEW q, IsQuantity(q), NEW r, IsQuantity(r),
         r.amount.mant # Lowest,
         plus(q, r, units) # Err, minus(plus(q, r, units), r, units) # Err
  PROVE  eq_qty(minus(plus(q, r, units), r, units), q)
<1> DEFINE t  == plus(q, r, units)
           s  == [r EXCEPT !.amount = neg(@)]
           m  == minus(t, r, units)
           cq == canonical_amount(q, units)
           cr == canonical_amount(r, units)
           ct == canonical_amount(t, units)
           cs == canonical_amount(s, units)
<1>0. IsDecimal(q.amount) /\ IsDecimal(r.amount) /\ r = [amount |-> r.amount, uom |-> r.uom]
  BY DEF IsQuantity
<1>1. /\ t # Err /\ cq # Err /\ cr # Err /\ IsQuantity(t) /\ t.uom = q.uom
      /\ q.uom \in DOMAIN units /\ r.uom \in DOMAIN units
      /\ ct # Err => IsDecimal(ct) /\ Value(ct) = Value(cq) + Value(cr)
  BY <1>0, PlusIs
<1>2. m = plus(t, s, units) /\ m # Err
  BY Zenon DEF minus, m
<1>3. s.amount = neg(r.amount) /\ s.uom = r.uom
  BY <1>0
<1>4. IsDecimal(s.amount) /\ Value(s.amount) = -Value(r.amount)
  BY <1>0, <1>2, <1>3, NegIs
<1>5. IsDecimal(t.amount)
  BY <1>1 DEF IsQuantity
<1> HIDE DEF s, t, m
<1>6. /\ ct # Err /\ cs # Err /\ IsQuantity(m) /\ m.uom = t.uom
      /\ units[t.uom].num \in Nat \ {0} /\ units[t.uom].den \in Nat \ {0}
      /\ Value(m.amount) * units[t.uom].num = (Value(ct) + Value(cs)) * units[t.uom].den
  BY <1>2, <1>4, <1>5, PlusIs
<1>7. /\ IsDecimal(cr) /\ Value(cr) * units[r.uom].den = Value(r.amount) * units[r.uom].num
      /\ IsDecimal(cs) /\ Value(cs) * units[r.uom].den = Value(s.amount) * units[r.uom].num
      /\ units[r.uom].den \in Nat \ {0} /\ units[r.uom].num \in Nat
  BY <1>0, <1>1, <1>3, <1>4, <1>6, CanonicalIs
<1>8. IsDecimal(cq)
  BY <1>0, <1>1, CanonicalIs
<1>9. /\ Value(cr) \in Int /\ Value(cs) \in Int /\ Value(cq) \in Int
      /\ Value(r.amount) \in Int
  BY <1>0, <1>7, <1>8, ValueIs
<1>10. Value(cs) = -Value(cr)
  <2> DEFINE x == Value(cr)
             y == Value(cs)
             v == Value(r.amount)
             d == units[r.uom].den
             n == units[r.uom].num
  <2>1. x * d = v * n /\ y * d = (-v) * n /\ x \in Int /\ y \in Int /\ v \in Int
        /\ d \in Nat \ {0} /\ n \in Nat
    BY <1>4, <1>7, <1>9
  <2> HIDE DEF x, y, v, d, n
  <2>2. (-v) * n = -(v * n) /\ (-x) * d = -(x * d) /\ -x \in Int
    <3>1. \A a, b \in Int : (-a) * b = -(a * b)
      OBVIOUS
    <3> QED BY <2>1, <3>1
  <2>3. y * d = (-x) * d
    BY <2>1, <2>2
  <2>4. y = -x
    BY <2>1, <2>2, <2>3, TimesCancels
  <2> QED BY <2>4 DEF x, y
<1>11. Value(ct) + Value(cs) = Value(cq)
  BY <1>1, <1>6, <1>9, <1>10
<1>12. IsDecimal(m.amount)
  BY <1>6 DEF IsQuantity
<1>13. Value(m.amount) = Value(q.amount)
  <2>1. units[q.uom].num # 0 /\ Value(m.amount) * units[q.uom].num = Value(cq) * units[q.uom].den
    BY <1>1, <1>6, <1>11
  <2> QED BY <1>0, <1>1, <1>12, <2>1, WorthIs
<1>14. eq(m.amount, q.amount)
  BY <1>0, <1>12, <1>13, EqIs
<1> QED BY <1>1, <1>6, <1>14 DEF eq_qty, m, t

-----------------------------------------------------------------------------
(* Sums of many quantities.                                                *)

TotalNext(g, qs, units, k) ==
  IF k = 1 THEN qs[1]
  ELSE IF g[k-1] = Err THEN Err ELSE plus(g[k-1], qs[k], units)
TotalsOn(g, qs, units, n) == g = [k \in 1..n |-> TotalNext(g, qs, units, k)]

LEMMA TotalsExist ==
  ASSUME NEW qs, NEW units
  PROVE  \A n \in Nat : \E g : TotalsOn(g, qs, units, n)
<1> DEFINE P == {n \in Nat : \E g : TotalsOn(g, qs, units, n)}
<1>1. 0 \in P
  <2>1. TotalsOn([k \in 1..0 |-> 0], qs, units, 0)
    BY DEF TotalsOn
  <2> QED BY <2>1
<1>2. ASSUME NEW n \in Nat, n \in P PROVE n + 1 \in P
  <2>1. PICK g : TotalsOn(g, qs, units, n)
    BY <1>2
  <2> DEFINE h == [k \in 1..n + 1 |-> TotalNext(g, qs, units, k)]
  <2>2. \A k \in 1..n : h[k] = g[k]
    BY <2>1 DEF TotalsOn
  <2>3. ASSUME NEW k \in 1..n + 1 PROVE TotalNext(h, qs, units, k) = TotalNext(g, qs, units, k)
    <3> HIDE DEF h
    <3>1. k # 1 => k - 1 \in 1..n
      BY <2>3
    <3>2. k # 1 => h[k-1] = g[k-1]
      BY <2>2, <3>1
    <3> QED BY <3>2, Zenon DEF TotalNext
  <2>4. TotalsOn(h, qs, units, n + 1)
    <3>1. \A k \in 1..n + 1 : h[k] = TotalNext(h, qs, units, k)
      <4>1. \A k \in 1..n + 1 : h[k] = TotalNext(g, qs, units, k)
        OBVIOUS
      <4> HIDE DEF h
      <4> QED BY <2>3, <4>1
    <3>2. h = [k \in 1..n + 1 |-> h[k]]
      OBVIOUS
    <3> HIDE DEF h
    <3> QED BY <3>1, <3>2 DEF TotalsOn
  <2> HIDE DEF h
  <2> QED BY <2>4
<1> HIDE DEF P
<1>3. Nat \subseteq P
  BY <1>1, <1>2, NatSetInduction
<1> QED BY <1>3 DEF P

\* A sum that is made is the last of the totals.
LEMMA SumIs ==
  ASSUME NEW qs, NEW units, NEW n \in Nat, n = Len(qs), sum(qs, units) # Err
  PROVE  /\ qs # << >>
         /\ \E g : TotalsOn(g, qs, units, n) /\ sum(qs, units) = g[n]
<1> DEFINE total == CHOOSE g : TotalsOn(g, qs, units, n)
<1>1. TotalsOn(total, qs, units, n)
  <2>1. \E g : TotalsOn(g, qs, units, n)
    BY TotalsExist
  <2> QED BY <2>1, Zenon
<1>2. sum(qs, units) = IF qs = << >> THEN Err ELSE total[n]
  <2>1. sum(qs, units) = IF qs = << >> THEN Err
          ELSE (CHOOSE g : TotalsOn(g, qs, units, Len(qs)))[Len(qs)]
    BY Zenon DEF sum, TotalsOn, TotalNext
  <2> QED BY <2>1, Zenon
<1> HIDE DEF total
<1> QED BY <1>1, <1>2, Zenon

Steps(g, qs, units, n) ==
  /\ n >= 1 => g[1] = qs[1]
  /\ \A k \in 1..n : k + 1 \in 1..n /\ g[k+1] # Err =>
       g[k] # Err /\ g[k+1] = plus(g[k], qs[k+1], units)

\* The sum of one quantity is that quantity; a longer sum was made from one that
\* was made.
LEMMA TotalsAre ==
  ASSUME NEW qs, NEW units, NEW n \in Nat, NEW g, TotalsOn(g, qs, units, n)
  PROVE  Steps(g, qs, units, n)
<1>1. \A k \in 1..n : g[k] = TotalNext(g, qs, units, k)
  BY DEF TotalsOn
<1>2. n >= 1 => g[1] = qs[1]
  BY <1>1 DEF TotalNext
<1>3. ASSUME NEW k \in 1..n, k + 1 \in 1..n, g[k+1] # Err
      PROVE  g[k] # Err /\ g[k+1] = plus(g[k], qs[k+1], units)
  <2>1. (k + 1) - 1 = k /\ k + 1 # 1
    BY <1>3
  <2>2. g[k+1] = IF g[k] = Err THEN Err ELSE plus(g[k], qs[k+1], units)
    BY <1>1, <1>3, <2>1 DEF TotalNext
  <2> QED BY <1>3, <2>2
<1> QED BY <1>2, <1>3 DEF Steps

\* Every total on the way to one that is made is made.
LEMMA TotalsMade ==
  ASSUME NEW qs, NEW units, NEW n \in Nat, NEW g, TotalsOn(g, qs, units, n),
         n >= 1, g[n] # Err
  PROVE  \A k \in 1..n : g[k] # Err
<1>0. Steps(g, qs, units, n)
  BY TotalsAre, Zenon
<1> DEFINE P == {j \in Nat : j < n => g[n - j] # Err}
<1>1. 0 \in P
  <2>1. n - 0 = n
    OBVIOUS
  <2> QED BY <2>1
<1>2. ASSUME NEW j \in Nat, j \in P PROVE j + 1 \in P
  <2> SUFFICES ASSUME j + 1 < n PROVE g[n - (j + 1)] # Err
    OBVIOUS
  <2> DEFINE k == n - (j + 1)
  <2>1. k \in 1..n /\ k + 1 \in 1..n /\ k + 1 = n - j /\ j < n
    OBVIOUS
  <2>2. g[k + 1] # Err
    BY <1>2, <2>1
  <2> HIDE DEF k
  <2>3. g[k] # Err
    BY <1>0, <2>1, <2>2 DEF Steps
  <2> QED BY <2>3 DEF k
<1> HIDE DEF P
<1>3. Nat \subseteq P
  BY <1>1, <1>2, NatSetInduction
<1>4. ASSUME NEW k \in 1..n PROVE g[k] # Err
  <2>1. n - k \in Nat /\ n - k < n /\ n - (n - k) = k
    OBVIOUS
  <2>2. n - k \in P
    BY <1>3, <2>1
  <2> QED BY <2>1, <2>2 DEF P
<1> QED BY <1>4

\* Registering more units leaves what was defined.
Grown(units, more) ==
  DOMAIN units \subseteq DOMAIN more /\ \A u \in DOMAIN units : more[u] = units[u]

LEMMA PlusKept ==
  ASSUME NEW units, NEW more, Grown(units, more), NEW q, NEW r, plus(q, r, units) # Err
  PROVE  plus(q, r, more) = plus(q, r, units)
<1>1. /\ q.uom \in DOMAIN units /\ r.uom \in DOMAIN units
      /\ same_dimension(q, r, units)
      /\ canonical_amount(q, units) # Err /\ canonical_amount(r, units) # Err
  <2>1. /\ same_dimension(q, r, units)
        /\ canonical_amount(q, units) # Err /\ canonical_amount(r, units) # Err
    BY Zenon DEF plus, sum_of
  <2> QED BY <2>1, Zenon DEF same_dimension, Known
<1>2. /\ q.uom \in DOMAIN more /\ r.uom \in DOMAIN more
      /\ more[q.uom] = units[q.uom] /\ more[r.uom] = units[r.uom]
  BY <1>1 DEF Grown
<1>3. /\ canonical_amount(q, more) = canonical_amount(q, units)
      /\ canonical_amount(r, more) = canonical_amount(r, units)
  BY <1>1, <1>2, Zenon DEF canonical_amount, Known
<1>4. same_dimension(q, r, more)
  BY <1>1, <1>2, Zenon DEF same_dimension, Known
<1>5. \A c : from_canonical(c, q.uom, more) = from_canonical(c, q.uom, units)
  BY <1>2, Zenon DEF from_canonical
<1>6. \A c, d : sum_of(c, d, q.uom, more) = sum_of(c, d, q.uom, units)
  BY <1>5, Zenon DEF sum_of
<1> QED BY <1>1, <1>3, <1>4, <1>6, Zenon DEF plus

LEMMA SumKept ==
  ASSUME NEW units, NEW more, Grown(units, more), NEW qs, NEW n \in Nat, n = Len(qs),
         n >= 1, sum(qs, units) # Err
  PROVE  sum(qs, more) = sum(qs, units)
<1>1. PICK g : TotalsOn(g, qs, units, n) /\ sum(qs, units) = g[n]
  BY SumIs, Zenon
<1>2. qs # << >>
  BY SumIs, Zenon
<1> DEFINE h == CHOOSE x : TotalsOn(x, qs, more, n)
<1>3. TotalsOn(h, qs, more, n)
  <2>1. \E x : TotalsOn(x, qs, more, n)
    BY TotalsExist
  <2> QED BY <2>1, Zenon
<1>4. sum(qs, more) = h[n]
  <2>1. sum(qs, more) = IF qs = << >> THEN Err
          ELSE (CHOOSE x : TotalsOn(x, qs, more, Len(qs)))[Len(qs)]
    BY Zenon DEF sum, TotalsOn, TotalNext
  <2> QED BY <1>2, <2>1, Zenon
<1> HIDE DEF h
<1>5. \A k \in 1..n : g[k] # Err
  <2>1. g[n] # Err
    BY <1>1
  <2> QED BY <1>1, <2>1, TotalsMade, Zenon
<1>10. Steps(g, qs, units, n) /\ Steps(h, qs, more, n)
  BY <1>1, <1>3, TotalsAre, Zenon
<1> DEFINE P == {j \in Nat : j + 1 <= n => h[j + 1] = g[j + 1]}
<1>6. 0 \in P
  BY <1>10 DEF Steps
<1>7. ASSUME NEW j \in Nat, j \in P PROVE j + 1 \in P
  <2> SUFFICES ASSUME (j + 1) + 1 <= n PROVE h[(j + 1) + 1] = g[(j + 1) + 1]
    OBVIOUS
  <2> DEFINE k == j + 1
  <2>1. k \in 1..n /\ k + 1 \in 1..n /\ (k + 1) - 1 = k /\ k + 1 # 1
    OBVIOUS
  <2>2. h[k] = g[k]
    BY <1>7, <2>1
  <2> HIDE DEF k
  <2>3. g[k] # Err /\ g[k + 1] # Err
    BY <1>5, <2>1
  <2>4. g[k + 1] = plus(g[k], qs[k + 1], units)
    BY <1>10, <2>1, <2>3 DEF Steps
  <2>5. h[k + 1] = TotalNext(h, qs, more, k + 1)
    BY <1>3, <2>1 DEF TotalsOn
  <2>6. h[k + 1] = plus(h[k], qs[k + 1], more)
    BY <2>1, <2>2, <2>3, <2>5 DEF TotalNext
  <2>7. plus(g[k], qs[k + 1], more) = plus(g[k], qs[k + 1], units)
    BY <2>3, <2>4, PlusKept
  <2> QED BY <2>2, <2>4, <2>6, <2>7 DEF k
<1> HIDE DEF P
<1>8. Nat \subseteq P
  BY <1>6, <1>7, NatSetInduction
<1>9. h[n] = g[n]
  <2>1. n - 1 \in Nat /\ (n - 1) + 1 = n
    OBVIOUS
  <2>2. n - 1 \in P
    BY <1>8, <2>1
  <2> QED BY <2>1, <2>2 DEF P
<1> QED BY <1>1, <1>4, <1>9

\* A sum of quantities is a quantity.
LEMMA SumIsQuantity ==
  ASSUME NEW units, FactorsOK(units), NEW qs, NEW n \in Nat, n = Len(qs), n >= 1,
         \A i \in 1..n : IsQuantity(qs[i]), sum(qs, units) # Err
  PROVE  IsQuantity(sum(qs, units)) /\ sum(qs, units).uom = qs[1].uom
<1>1. PICK g : TotalsOn(g, qs, units, n) /\ sum(qs, units) = g[n]
  BY SumIs, Zenon
<1>2. \A k \in 1..n : g[k] # Err
  <2>1. g[n] # Err
    BY <1>1
  <2> QED BY <1>1, <2>1, TotalsMade, Zenon
<1>10. Steps(g, qs, units, n)
  BY <1>1, TotalsAre, Zenon
<1> DEFINE P == {j \in Nat : j + 1 <= n => IsQuantity(g[j + 1]) /\ g[j + 1].uom = qs[1].uom}
<1>3. 0 \in P
  <2>1. g[1] = qs[1] /\ IsQuantity(qs[1])
    BY <1>10 DEF Steps
  <2> QED BY <2>1
<1>4. ASSUME NEW j \in Nat, j \in P PROVE j + 1 \in P
  <2> DEFINE k == j + 1
  <2> SUFFICES ASSUME k + 1 <= n
               PROVE  IsQuantity(g[k + 1]) /\ g[k + 1].uom = qs[1].uom
    OBVIOUS
  <2>1. k \in 1..n /\ k + 1 \in 1..n
    OBVIOUS
  <2>2. IsQuantity(g[k]) /\ g[k].uom = qs[1].uom
    BY <1>4, <2>1
  <2> HIDE DEF k
  <2>3. g[k + 1] = plus(g[k], qs[k + 1], units) /\ g[k + 1] # Err
    BY <1>10, <1>2, <2>1 DEF Steps
  <2>4. IsDecimal(g[k].amount) /\ IsDecimal(qs[k + 1].amount)
    BY <2>1, <2>2 DEF IsQuantity
  <2>5. plus(g[k], qs[k + 1], units) # Err
    BY <2>3
  <2>6. IsQuantity(plus(g[k], qs[k + 1], units)) /\ plus(g[k], qs[k + 1], units).uom = g[k].uom
    BY <2>4, <2>5, PlusIs
  <2> QED BY <2>2, <2>3, <2>6
<1> HIDE DEF P
<1>5. Nat \subseteq P
  BY <1>3, <1>4, NatSetInduction
<1>6. IsQuantity(g[n]) /\ g[n].uom = qs[1].uom
  <2>1. n - 1 \in Nat /\ (n - 1) + 1 = n
    OBVIOUS
  <2>2. n - 1 \in P
    BY <1>5, <2>1
  <2> QED BY <2>1, <2>2 DEF P
<1> QED BY <1>1, <1>6

\* What a quantity is worth, in tenths of the canonical unit.
Worth(q, units) == (Value(q.amount) * units[q.uom].num * 10) \div units[q.uom].den

LEMMA TenthsOf ==
  ASSUME NEW v \in Int, NEW n \in Nat, NEW d \in Nat \ {0}, NEW c \in Int, v * n = c * d
  PROVE  (v * n * 10) \div d = 10 * c
<1>1. (v * n) * 10 = (10 * c) * d
  BY TimesTurns
<1>2. 10 * c \in Int
  OBVIOUS
<1> DEFINE x == v * n * 10
           t == 10 * c
<1>3. x = t * d /\ t \in Int
  BY <1>1, <1>2
<1> HIDE DEF x, t
<1>4. x \div d = t
  BY <1>3, ModOfMultiple
<1> QED BY <1>4 DEF x, t

LEMMA WorthOfCanonical ==
  ASSUME NEW units, FactorsOK(units), NEW q, IsDecimal(q.amount),
         canonical_amount(q, units) # Err
  PROVE  /\ Worth(q, units) = 10 * Value(canonical_amount(q, units))
         /\ Value(canonical_amount(q, units)) \in Int
<1>1. /\ units[q.uom].num \in Nat /\ units[q.uom].den \in Nat \ {0}
      /\ IsDecimal(canonical_amount(q, units))
      /\ Value(q.amount) * units[q.uom].num
           = Value(canonical_amount(q, units)) * units[q.uom].den
  BY CanonicalIs
<1>2. Value(q.amount) \in Int /\ Value(canonical_amount(q, units)) \in Int
  BY <1>1, ValueIs
<1> QED BY <1>1, <1>2, TenthsOf DEF Worth

LEMMA WorthIsInt ==
  ASSUME NEW units, FactorsOK(units), NEW q, IsDecimal(q.amount), q.uom \in DOMAIN units
  PROVE  Worth(q, units) \in Int
<1>1. units[q.uom].num \in Nat /\ units[q.uom].den \in Nat \ {0} /\ Value(q.amount) \in Int
  BY ValueIs DEF FactorsOK, IsFactor
<1> DEFINE x == Value(q.amount) * units[q.uom].num * 10
<1>2. x \in Int
  BY <1>1
<1> HIDE DEF x
<1>3. x \div units[q.uom].den \in Int
  BY <1>1, <1>2
<1> QED BY <1>3 DEF Worth, x

\* A sum is worth what its terms are.
LEMMA PlusWorth ==
  ASSUME NEW units, FactorsOK(units), NEW q, IsDecimal(q.amount),
         NEW r, IsDecimal(r.amount), plus(q, r, units) # Err
  PROVE  Worth(plus(q, r, units), units) = Worth(q, units) + Worth(r, units)
<1> DEFINE p  == plus(q, r, units)
           x  == Value(canonical_amount(q, units))
           y  == Value(canonical_amount(r, units))
<1>1. /\ canonical_amount(q, units) # Err /\ canonical_amount(r, units) # Err
      /\ IsQuantity(p) /\ p.uom = q.uom
      /\ units[q.uom].num \in Nat \ {0} /\ units[q.uom].den \in Nat \ {0}
      /\ Value(p.amount) * units[q.uom].num = (x + y) * units[q.uom].den
  BY PlusIs
<1>2. /\ Worth(q, units) = 10 * x /\ x \in Int
      /\ Worth(r, units) = 10 * y /\ y \in Int
  BY <1>1, WorthOfCanonical
<1>3. Value(p.amount) \in Int
  BY <1>1, ValueIs DEF IsQuantity
<1> HIDE DEF p, x, y
<1>4. x + y \in Int /\ units[q.uom].num \in Nat
  BY <1>1, <1>2
<1>5. (Value(p.amount) * units[q.uom].num * 10) \div units[q.uom].den = 10 * (x + y)
  BY <1>1, <1>3, <1>4, TenthsOf
<1>6. Worth(p, units) = 10 * (x + y)
  BY <1>1, <1>5 DEF Worth
<1> QED BY <1>2, <1>6 DEF p

LEMMA SumWorth ==
  ASSUME NEW units, FactorsOK(units), NEW qs, NEW n \in Nat, n = Len(qs), n >= 1,
         DOMAIN qs = 1..n, \A i \in 1..n : IsQuantity(qs[i]),
         sum(qs, units) # Err, sum(qs, units).uom \in DOMAIN units
  PROVE  Worth(sum(qs, units), units)
           = SumFunction([i \in DOMAIN qs |-> Worth(qs[i], units)])
<1> DEFINE w == [i \in 1..n |-> Worth(qs[i], units)]
           S(k) == SumFunctionOnSet(w, 1..k)
<1>1. PICK g : TotalsOn(g, qs, units, n) /\ sum(qs, units) = g[n]
  BY SumIs, Zenon
<1>2. \A k \in 1..n : g[k] # Err
  <2>1. g[n] # Err
    BY <1>1
  <2> QED BY <1>1, <2>1, TotalsMade, Zenon
<1>3. Steps(g, qs, units, n)
  BY <1>1, TotalsAre, Zenon
<1>4. qs[1].uom \in DOMAIN units
  BY SumIsQuantity
<1>5. \A i \in 1..n : IsDecimal(qs[i].amount)
  BY DEF IsQuantity
<1>6. \A i \in 1..n : w[i] = Worth(qs[i], units)
  OBVIOUS
<1>7. SumFunction([i \in DOMAIN qs |-> Worth(qs[i], units)]) = S(n)
  BY DEF SumFunction
<1> HIDE DEF w
<1> DEFINE Right(k) == /\ IsQuantity(g[k]) /\ Worth(g[k], units) = S(k) /\ S(k) \in Int
                       /\ \A i \in 1..k : w[i] \in Int
           P == {j \in Nat : j + 1 <= n => Right(j + 1)}
<1>8. 0 \in P
  <2>1. g[1] = qs[1] /\ IsQuantity(qs[1])
    BY <1>3 DEF Steps
  <2>2. w[1] = Worth(qs[1], units) /\ w[1] \in Int
    <3>1. 1 \in 1..n
      OBVIOUS
    <3>2. IsDecimal(qs[1].amount) /\ w[1] = Worth(qs[1], units)
      BY <1>5, <1>6, <3>1
    <3>3. Worth(qs[1], units) \in Int
      BY <1>4, <3>2, WorthIsInt
    <3> QED BY <3>2, <3>3
  <2>3. 1..1 = {1} /\ IsFiniteSet({1}) /\ 1 \in {1}
    <3>1. 1..1 = {1}
      OBVIOUS
    <3>2. IsFiniteSet({1})
      BY FS_Singleton, Zenon
    <3> QED BY <3>1, <3>2
  <2>4. SumFunctionOnSet(w, {1}) = w[1]
    BY <2>2, <2>3, SumOne
  <2>5. Right(1)
    BY <2>1, <2>2, <2>3, <2>4
  <2> HIDE DEF Right
  <2> QED BY <2>5
<1>9. ASSUME NEW j \in Nat, j \in P PROVE j + 1 \in P
  <2> DEFINE k == j + 1
  <2> SUFFICES ASSUME k + 1 <= n PROVE Right(k + 1)
    OBVIOUS
  <2>1. k \in 1..n /\ k + 1 \in 1..n /\ k \in Nat
    OBVIOUS
  <2>2. Right(k)
    BY <1>9, <2>1
  <2> HIDE DEF k
  <2>3. g[k + 1] = plus(g[k], qs[k + 1], units) /\ g[k + 1] # Err
    BY <1>2, <1>3, <2>1 DEF Steps
  <2>4. IsDecimal(g[k].amount) /\ IsDecimal(qs[k + 1].amount)
    BY <1>5, <2>1, <2>2 DEF IsQuantity
  <2>5. plus(g[k], qs[k + 1], units) # Err
    BY <2>3
  <2>6. /\ IsQuantity(plus(g[k], qs[k + 1], units)) /\ qs[k + 1].uom \in DOMAIN units
    BY <2>4, <2>5, PlusIs
  <2>7. Worth(g[k + 1], units) = Worth(g[k], units) + w[k + 1]
    BY <1>6, <2>1, <2>3, <2>4, <2>5, PlusWorth
  <2>8. w[k + 1] \in Int
    <3>1. Worth(qs[k + 1], units) \in Int
      BY <2>4, <2>6, WorthIsInt
    <3> QED BY <1>6, <2>1, <3>1
  <2>9. 1..k + 1 = (1..k) \cup {k + 1} /\ k + 1 \notin 1..k /\ IsFiniteSet(1..k)
    <3>1. 1..k + 1 = (1..k) \cup {k + 1} /\ k + 1 \notin 1..k
      BY <2>1
    <3>2. k \in Int /\ 1 \in Int
      BY <2>1
    <3>3. IsFiniteSet(1..k)
      BY <3>2, FS_Interval, Zenon
    <3> QED BY <3>1, <3>3
  <2>10. \A i \in (1..k) \cup {k + 1} : w[i] \in Int
    BY <2>2, <2>8
  <2>11. SumFunctionOnSet(w, (1..k) \cup {k + 1}) = w[k + 1] + SumFunctionOnSet(w, 1..k)
    BY <2>9, <2>10, SumAdd
  <2>12. Worth(g[k + 1], units) = S(k + 1) /\ S(k + 1) \in Int
    <3>1. S(k + 1) = w[k + 1] + S(k)
      BY <2>9, <2>11
    <3>2. Worth(g[k], units) = S(k) /\ S(k) \in Int
      BY <2>2
    <3> HIDE DEF S, Right
    <3> QED BY <2>7, <2>8, <3>1, <3>2
  <2>13. \A i \in 1..k + 1 : w[i] \in Int
    BY <2>9, <2>10
  <2>14. IsQuantity(g[k + 1])
    BY <2>3, <2>6
  <2> HIDE DEF S
  <2> QED BY <2>12, <2>13, <2>14
<1> HIDE DEF P, Right
<1>10. Nat \subseteq P
  BY <1>8, <1>9, NatSetInduction
<1>11. Right(n)
  <2>1. n - 1 \in Nat /\ (n - 1) + 1 = n
    OBVIOUS
  <2>2. n - 1 \in P
    BY <1>10, <2>1
  <2> QED BY <2>1, <2>2 DEF P
<1> QED BY <1>1, <1>7, <1>11 DEF Right

-----------------------------------------------------------------------------
(* The trees of the roll-up.                                               *)

TreeFacts == INSTANCE MerkleProofs WITH Pair <- NodeHash

\* The facts are about the trees of the roll-up.
LEMMA SameTrees ==
  ASSUME NEW leaves
  PROVE  /\ Tree!Levels(leaves) = TreeFacts!Levels(leaves)
         /\ Tree!Height(leaves) = TreeFacts!Height(leaves)
         /\ Tree!Root(leaves) = TreeFacts!Levels(leaves)[TreeFacts!Height(leaves)][1]
         /\ \A i : Tree!Path(leaves, i) = TreeFacts!Path(leaves, i)
<1>1. Tree!Levels(leaves) = TreeFacts!Levels(leaves)
  BY Zenon DEF Tree!Levels, TreeFacts!Levels, Tree!Up, TreeFacts!Up, Tree!HalfUp,
               TreeFacts!HalfUp, Tree!Sibling, TreeFacts!Sibling
<1>2. Tree!Height(leaves) = TreeFacts!Height(leaves)
  BY <1>1, Zenon DEF Tree!Height, TreeFacts!Height
<1>3. ASSUME NEW i PROVE Tree!Path(leaves, i) = TreeFacts!Path(leaves, i)
  <2>1. Tree!Places(leaves, i) = TreeFacts!Places(leaves, i)
    BY <1>2, Zenon DEF Tree!Places, TreeFacts!Places, Tree!HalfUp, TreeFacts!HalfUp
  <2> QED BY <1>1, <1>2, <2>1, Zenon DEF Tree!Path, TreeFacts!Path, Tree!Sibling,
                                         TreeFacts!Sibling
<1> QED BY <1>1, <1>2, <1>3, Zenon DEF Tree!Root

LEMMA NodeTellsBoth ==
  ASSUME NEW a, NEW b, NEW c, NEW d, NodeHash(a, b) = NodeHash(c, d)
  PROVE  a = c /\ b = d
BY DEF NodeHash

LEMMA LeafIsNoNode ==
  ASSUME NEW m, NEW c, NEW d
  PROVE  LeafHash(m) # NodeHash(c, d)
<1>1. "leaf" \in DOMAIN LeafHash(m) /\ "leaf" \notin DOMAIN NodeHash(c, d)
  BY DEF LeafHash, NodeHash
<1> QED BY <1>1, Zenon

\* Two trees of as many leaves with the same root have the same leaves.
LEMMA RootTellsLeaves ==
  ASSUME NEW l1, NEW l2, TreeFacts!IsSeq(l1), TreeFacts!IsSeq(l2),
         NEW n \in Nat, n >= 1, n = Len(l1), n = Len(l2),
         Tree!Root(l1) = Tree!Root(l2)
  PROVE  \A i \in 1..n : l1[i] = l2[i]
<1> DEFINE L1 == TreeFacts!Levels(l1)
           L2 == TreeFacts!Levels(l2)
           H1 == TreeFacts!Height(l1)
           H2 == TreeFacts!Height(l2)
           S  == {k \in Nat : k <= n => Len(L1[k]) = Len(L2[k])}
<1>1. /\ \A k \in 0..n : /\ Len(L1[k]) \in Nat /\ Len(L1[k]) >= 1
                         /\ Len(L2[k]) \in Nat /\ Len(L2[k]) >= 1
      /\ \A k \in 1..n : /\ Len(L1[k]) = TreeFacts!HalfUp(Len(L1[k-1]))
                         /\ Len(L2[k]) = TreeFacts!HalfUp(Len(L2[k-1]))
  BY TreeFacts!LevelLengths DEF TreeFacts!IsSeq
<1>2. L1[0] = l1 /\ L2[0] = l2
  BY TreeFacts!LevelsAre
<1>3. /\ H1 \in 0..n /\ Len(L1[H1]) = 1 /\ \A k \in 0..H1-1 : Len(L1[k]) > 1
      /\ H2 \in 0..n /\ Len(L2[H2]) = 1 /\ \A k \in 0..H2-1 : Len(L2[k]) > 1
  BY TreeFacts!HeightIs
<1>4. /\ \A k \in 1..n : \A j \in 1..Len(L1[k]) :
           /\ 2*j - 1 \in 1..Len(L1[k-1])
           /\ L1[k][j] = NodeHash(L1[k-1][2*j - 1],
                                  L1[k-1][TreeFacts!Sibling(2*j - 1, Len(L1[k-1]))])
      /\ \A k \in 1..n : \A j \in 1..Len(L2[k]) :
           L2[k][j] = NodeHash(L2[k-1][2*j - 1],
                               L2[k-1][TreeFacts!Sibling(2*j - 1, Len(L2[k-1]))])
  BY TreeFacts!NodesArePairs, Zenon
<1>5. L1[H1][1] = L2[H2][1]
  BY SameTrees
<1> HIDE DEF L1, L2, H1, H2
<1>6. \A k \in 0..n : Len(L1[k]) = Len(L2[k])
  <2>1. 0 \in S
    BY <1>2
  <2>2. ASSUME NEW k \in Nat, k \in S PROVE k + 1 \in S
    <3> SUFFICES ASSUME k + 1 <= n PROVE Len(L1[k + 1]) = Len(L2[k + 1])
      OBVIOUS
    <3>1. k + 1 \in 1..n /\ (k + 1) - 1 = k /\ k <= n
      OBVIOUS
    <3>2. Len(L1[k]) = Len(L2[k])
      BY <2>2, <3>1
    <3> QED BY <1>1, <3>1, <3>2
  <2> HIDE DEF S
  <2>3. Nat \subseteq S
    BY <2>1, <2>2, NatSetInduction
  <2> QED BY <2>3 DEF S
<1>7. H1 = H2
  <2>1. ~(H1 < H2)
    <3> SUFFICES ASSUME H1 < H2 PROVE FALSE
      OBVIOUS
    <3>1. H1 \in 0..H2-1 /\ H1 \in 0..n
      BY <1>3
    <3>2. Len(L1[H1]) = 1 /\ Len(L2[H1]) > 1 /\ Len(L1[H1]) = Len(L2[H1])
      BY <1>3, <1>6, <3>1, Zenon
    <3>3. 1 > 1
      BY <3>2, Zenon
    <3> QED BY <3>3
  <2>2. ~(H2 < H1)
    <3> SUFFICES ASSUME H2 < H1 PROVE FALSE
      OBVIOUS
    <3>1. H2 \in 0..H1-1 /\ H2 \in 0..n
      BY <1>3
    <3>2. Len(L2[H2]) = 1 /\ Len(L1[H2]) > 1 /\ Len(L1[H2]) = Len(L2[H2])
      BY <1>3, <1>6, <3>1, Zenon
    <3>3. 1 > 1
      BY <3>2, Zenon
    <3> QED BY <3>3
  <2> QED BY <1>3, <2>1, <2>2
<1> DEFINE Same(k) == \A i \in 1..Len(L1[k]) : L1[k][i] = L2[k][i]
           P       == {j \in Nat : j <= H1 => Same(H1 - j)}
<1>8. 0 \in P
  BY <1>3, <1>5, <1>7
<1>9. ASSUME NEW j \in Nat, j \in P PROVE j + 1 \in P
  <2> SUFFICES ASSUME j + 1 <= H1 PROVE Same(H1 - (j + 1))
    OBVIOUS
  <2> DEFINE k == H1 - j
             m == Len(L1[k-1])
  <2>1. k \in 1..n /\ H1 - (j + 1) = k - 1 /\ k - 1 \in 0..n /\ Same(k) /\ k \in 0..n
    BY <1>3, <1>9
  <2>2. m = Len(L2[k-1]) /\ m \in Nat /\ m >= 1 /\ Len(L1[k]) = Len(L2[k])
        /\ Len(L1[k]) = TreeFacts!HalfUp(m)
    BY <1>1, <1>6, <2>1
  <2> HIDE DEF m
  <2> SUFFICES ASSUME NEW i \in 1..m PROVE L1[k-1][i] = L2[k-1][i]
    BY <2>1 DEF m
  <2>3. \A a \in 1..Len(L1[k]) :
          /\ L1[k-1][2*a - 1] = L2[k-1][2*a - 1]
          /\ L1[k-1][TreeFacts!Sibling(2*a - 1, m)] = L2[k-1][TreeFacts!Sibling(2*a - 1, m)]
    <3> TAKE a \in 1..Len(L1[k])
    <3>1. NodeHash(L1[k-1][2*a - 1], L1[k-1][TreeFacts!Sibling(2*a - 1, m)])
            = NodeHash(L2[k-1][2*a - 1], L2[k-1][TreeFacts!Sibling(2*a - 1, m)])
      <4>1. L1[k][a] = NodeHash(L1[k-1][2*a - 1], L1[k-1][TreeFacts!Sibling(2*a - 1, m)])
        BY <1>4, <2>1 DEF m
      <4>2. L2[k][a] = NodeHash(L2[k-1][2*a - 1], L2[k-1][TreeFacts!Sibling(2*a - 1, m)])
        BY <1>4, <2>1, <2>2
      <4>3. L1[k][a] = L2[k][a]
        BY <2>1
      <4> QED BY <4>1, <4>2, <4>3
    <3> QED BY <3>1, NodeTellsBoth
  <2> DEFINE a == TreeFacts!HalfUp(i)
  <2>4. /\ a \in 1..TreeFacts!HalfUp(m)
        /\ i = 2*a - 1 \/ (i = 2*a /\ i = TreeFacts!Sibling(2*a - 1, m))
    <3>1. i \in Nat /\ i <= m /\ a = (i + 1) \div 2 /\ 1 <= i
      BY <2>2 DEF TreeFacts!HalfUp
    <3>2. a \in Nat /\ (2*a = i \/ 2*a = i + 1)
      BY <3>1
    <3>3. a \in 1..TreeFacts!HalfUp(m)
      <4>1. /\ TreeFacts!HalfUp(m) \in Nat
            /\ 2 * TreeFacts!HalfUp(m) = m \/ 2 * TreeFacts!HalfUp(m) = m + 1
        BY <2>2, TreeFacts!HalfUpIs
      <4> HIDE DEF a
      <4> QED BY <2>2, <3>1, <3>2, <4>1
    <3>4. (2*a - 1) % 2 # 0
      BY <3>2
    <3> HIDE DEF a
    <3>5. TreeFacts!Sibling(2*a - 1, m) = IF 2*a - 1 < m THEN 2*a - 1 + 1 ELSE 2*a - 1
      BY <3>4, Zenon DEF TreeFacts!Sibling
    <3> QED BY <2>2, <3>1, <3>2, <3>3, <3>5
  <2>5. a \in 1..Len(L1[k])
    BY <2>2, <2>4
  <2> HIDE DEF a, k
  <2> QED BY <2>3, <2>4, <2>5
<1> HIDE DEF Same
<1>10. Nat \subseteq P
  <2> HIDE DEF P
  <2> QED BY <1>8, <1>9, NatSetInduction
<1>11. Same(0)
  <2>1. H1 \in P /\ H1 - H1 = 0
    BY <1>3, <1>10
  <2> QED BY <2>1
<1> QED BY <1>2, <1>11 DEF Same

-----------------------------------------------------------------------------
(* Traversal sets.                                                         *)

LEMMA ListingIs ==
  ASSUME NEW listing \in Seq(Passports)
  PROVE  LET members == [i \in DOMAIN listing |-> MemberOf(listing[i])]
         IN  /\ Len(listing) \in Nat /\ DOMAIN listing = 1..Len(listing)
             /\ TreeFacts!IsSeq(members) /\ Len(members) = Len(listing)
             /\ members = [i \in 1..Len(listing) |-> members[i]]
             /\ \A i \in 1..Len(listing) : /\ members[i] = MemberOf(listing[i])
                                           /\ listing[i] \in Passports
<1> DEFINE members == [i \in DOMAIN listing |-> MemberOf(listing[i])]
<1>1. /\ Len(listing) \in Nat /\ DOMAIN listing = 1..Len(listing)
      /\ \A i \in 1..Len(listing) : listing[i] \in Passports
  OBVIOUS
<1>2. \A i \in 1..Len(listing) : members[i] = MemberOf(listing[i])
  BY <1>1
<1>3. members = [i \in 1..Len(listing) |-> members[i]]
  BY <1>1
<1> HIDE DEF members
<1>4. TreeFacts!IsSeq(members) /\ Len(members) = Len(listing)
  BY <1>1, <1>3, TreeFacts!FunctionIsSeq
<1> QED BY <1>1, <1>2, <1>3, <1>4 DEF members

\* Listings that name nobody, or somebody twice, are refused.
Refused(members) ==
  \/ members = << >>
  \/ \E i, j \in DOMAIN members : i # j /\ members[i].passport = members[j].passport

LEMMA NotRefused ==
  ASSUME NEW members, TraversalSet(members) # Err
  PROVE  ~Refused(members)
BY Zenon DEF TraversalSet, Refused

\* A listing that is not refused is put in the order of the ids: nothing is
\* left out and nothing is added.
LEMMA TraversalSetIs ==
  ASSUME NEW members, TreeFacts!IsSeq(members), NEW n \in Nat, n = Len(members),
         members = [i \in 1..n |-> members[i]],
         \A i \in 1..n : members[i].passport \in Int,
         ~Refused(members)
  PROVE  /\ n >= 1 /\ TreeFacts!IsSeq(TraversalSet(members)) /\ Len(TraversalSet(members)) = n
         /\ TraversalSet(members) = [k \in 1..n |-> TraversalSet(members)[k]]
         /\ \A k \in 1..n : \E i \in 1..n : TraversalSet(members)[k] = members[i]
<1> DEFINE T    == DOMAIN members
           key  == [i \in T |-> members[i].passport]
           rank(i) == Cardinality({j \in T : members[j].passport < members[i].passport})
           at(k) == members[CHOOSE i \in T : rank(i) = k - 1]
           set  == [k \in 1..Len(members) |-> at(k)]
<1>1. T = 1..n /\ Len(members) = n
  BY DEF TreeFacts!IsSeq
<1>2. /\ members # << >> /\ TraversalSet(members) = set
      /\ \A i, j \in T : members[i].passport = members[j].passport => i = j
  <2>1. TraversalSet(members) = IF Refused(members) THEN Err ELSE set
    BY Zenon DEF TraversalSet, Refused
  <2>2. TraversalSet(members) = set
    BY <2>1, Zenon
  <2> HIDE DEF set
  <2> QED BY <2>2, Zenon DEF Refused
<1>3. n >= 1
  <2> SUFFICES ASSUME n = 0 PROVE FALSE
    OBVIOUS
  <2>1. members = << >>
    OBVIOUS
  <2> QED BY <1>2, <2>1
<1>4. IsFiniteSet(1..n) /\ Cardinality(1..n) = n
  <2>1. 1 \in Int /\ n \in Int
    OBVIOUS
  <2>2. IsFiniteSet(1..n) /\ Cardinality(1..n) = IF 1 > n THEN 0 ELSE n - 1 + 1
    BY <2>1, FS_Interval
  <2> QED BY <1>3, <2>2
<1>5. ASSUME NEW k \in 1..n PROVE \E i \in T : rank(i) = k - 1
  <2>1. /\ \A x \in T : key[x] \in Int
        /\ \A x, y \in T : key[x] = key[y] => x = y
    <3>1. \A x \in T : key[x] = members[x].passport
      OBVIOUS
    <3>2. \A x \in T : members[x].passport \in Int
      BY <1>1
    <3> HIDE DEF set, key, T
    <3> QED BY <1>2, <3>1, <3>2, Zenon
  <2>2. PICK i \in T : Cardinality(Preceding(T, key, i)) = k - 1
    <3> HIDE DEF T, key, set
    <3>1. IsFiniteSet(T) /\ k \in 1..Cardinality(T)
      BY <1>1, <1>4
    <3> QED BY <2>1, <3>1, EveryRankTaken, Zenon
  <2>3. Preceding(T, key, i) = {j \in T : members[j].passport < members[i].passport}
    BY DEF Preceding
  <2> QED BY <2>2, <2>3
<1>6. ASSUME NEW k \in 1..n PROVE \E i \in T : set[k] = members[i]
  <2> DEFINE c == CHOOSE i \in T : rank(i) = k - 1
  <2>1. c \in T
    <3> HIDE DEF T, rank
    <3> QED BY <1>5, Zenon
  <2>2. set[k] = members[c]
    <3> HIDE DEF at
    <3>1. set[k] = at(k)
      BY <1>1
    <3> QED BY <3>1 DEF at
  <2> HIDE DEF c, set, T
  <2> QED BY <2>1, <2>2
<1>7. TreeFacts!IsSeq(set) /\ Len(set) = n /\ set = [k \in 1..n |-> set[k]]
  <2>1. set = [k \in 1..n |-> set[k]]
    <3> HIDE DEF at
    <3> QED BY <1>1
  <2> HIDE DEF set
  <2> QED BY <2>1, TreeFacts!FunctionIsSeq
<1> HIDE DEF set
<1> QED BY <1>1, <1>2, <1>3, <1>6, <1>7

-----------------------------------------------------------------------------
(* The inductive invariant.                                                *)

\* The documents of the children.
DocsOK ==
  /\ docs = [p \in Passports |-> [version |-> docs[p].version,
                                  state_hash |-> docs[p].state_hash,
                                  quantities |-> docs[p].quantities]]
  /\ \A p \in Passports : /\ docs[p].version \in Nat /\ docs[p].state_hash \in Nat
                          /\ docs[p].quantities \in Declared

\* What is known of a member: it is a version of a child that is current or
\* past, and its quantities are those of that version.
KnownMember(m) ==
  /\ m = [passport |-> m.passport, version |-> m.version,
          state_hash |-> m.state_hash, quantities |-> m.quantities]
  /\ m.passport \in Passports /\ m.version \in Nat /\ m.quantities \in Declared
  /\ m.version <= docs[m.passport].version
  /\ m.version = docs[m.passport].version => m.quantities = docs[m.passport].quantities

KnownSet(set) ==
  /\ TreeFacts!IsSeq(set) /\ Len(set) >= 1
  /\ set = [i \in 1..Len(set) |-> set[i]]
  /\ \A i \in 1..Len(set) : KnownMember(set[i])

\* The attestation is of the set it was built over, and signed.
SignedOver(a, set) ==
  /\ a.traversal_set_root = root(set) /\ a.member_count = Len(set)
  /\ a.signature = canonical_body(a)

RInv == DocsOK /\ (Attested => KnownSet(covered) /\ SignedOver(attestation, covered))

LEMMA MemberNow ==
  ASSUME DocsOK, NEW p \in Passports
  PROVE  KnownMember(MemberOf(p)) /\ MemberOf(p).passport = p
<1>1. docs[p].version \in Nat /\ docs[p].quantities \in Declared
  BY DEF DocsOK
<1>2. /\ MemberOf(p).passport = p /\ MemberOf(p).version = docs[p].version
      /\ MemberOf(p).state_hash = docs[p].state_hash
      /\ MemberOf(p).quantities = docs[p].quantities
      /\ MemberOf(p) = [passport |-> MemberOf(p).passport, version |-> MemberOf(p).version,
                        state_hash |-> MemberOf(p).state_hash,
                        quantities |-> MemberOf(p).quantities]
  BY DEF MemberOf
<1> QED BY <1>1, <1>2 DEF KnownMember

\* Every set that can be listed now is of members as they are now.
LEMMA SetNow ==
  ASSUME DocsOK, NEW listing \in Seq(Passports),
         ~Refused([i \in DOMAIN listing |-> MemberOf(listing[i])])
  PROVE  /\ KnownSet(Set(listing)) /\ Len(Set(listing)) = Len(listing)
         /\ \A k \in 1..Len(Set(listing)) :
              \E p \in Passports : Set(listing)[k] = MemberOf(p)
<1> DEFINE members == [i \in DOMAIN listing |-> MemberOf(listing[i])]
           n       == Len(listing)
<1>1. /\ n \in Nat /\ TreeFacts!IsSeq(members) /\ n = Len(members)
      /\ members = [i \in 1..n |-> members[i]]
      /\ \A i \in 1..n : members[i] = MemberOf(listing[i]) /\ listing[i] \in Passports
  BY ListingIs
<1>2. Set(listing) = TraversalSet(members)
  BY DEF Set
<1> HIDE DEF members, n
<1>3. \A i \in 1..n : members[i].passport \in Int
  <2> TAKE i \in 1..n
  <2>1. members[i].passport \in Passports
    BY <1>1, MemberNow
  <2>2. \A p \in Passports : p \in Int
    <3>1. Passports \subseteq Nat
      BY RollupConstantsOK, Zenon
    <3> QED BY <3>1
  <2> QED BY <2>1, <2>2, Zenon
<1>4. /\ n >= 1 /\ TreeFacts!IsSeq(Set(listing)) /\ Len(Set(listing)) = n
      /\ Set(listing) = [k \in 1..n |-> Set(listing)[k]]
      /\ \A k \in 1..n : \E i \in 1..n : Set(listing)[k] = members[i]
  <2>1. ~Refused(members)
    BY Zenon DEF members
  <2>2. /\ n >= 1 /\ TreeFacts!IsSeq(TraversalSet(members)) /\ Len(TraversalSet(members)) = n
        /\ TraversalSet(members) = [k \in 1..n |-> TraversalSet(members)[k]]
        /\ \A k \in 1..n : \E i \in 1..n : TraversalSet(members)[k] = members[i]
    BY <1>1, <1>3, <2>1, TraversalSetIs, Zenon
  <2> QED BY <1>2, <2>2, Zenon
<1>5. ASSUME NEW k \in 1..n
      PROVE  \E p \in Passports : Set(listing)[k] = MemberOf(p)
  BY <1>1, <1>4
<1>6. \A k \in 1..n : KnownMember(Set(listing)[k])
  BY <1>5, MemberNow
<1> QED BY <1>4, <1>5, <1>6 DEF KnownSet, n

LEMMA ListedNotRefused ==
  ASSUME NEW listing, Set(listing) # Err
  PROVE  ~Refused([i \in DOMAIN listing |-> MemberOf(listing[i])])
BY NotRefused, Zenon DEF Set

LEMMA BuildIs ==
  ASSUME NEW set, NEW units, build(set, units) # Err
  PROVE  /\ SignedOver(build(set, units), set)
         /\ build(set, units).aggregates = aggregate_set(set, units)
         /\ aggregate_set(set, units) # Err
<1> DEFINE aggregates == aggregate_set(set, units)
           unsigned   == [traversal_set_root |-> root(set), member_count |-> Len(set),
                          aggregates |-> aggregates, signature |-> Err]
           b          == [unsigned EXCEPT !.signature = canonical_body(unsigned)]
<1>1. aggregates # Err /\ build(set, units) = b
  BY Zenon DEF build
<1>2. /\ b.traversal_set_root = root(set) /\ b.member_count = Len(set)
      /\ b.aggregates = aggregates /\ b.signature = canonical_body(unsigned)
  OBVIOUS
<1>3. canonical_body(b) = canonical_body(unsigned)
  <2>1. /\ b.traversal_set_root = unsigned.traversal_set_root
        /\ b.member_count = unsigned.member_count /\ b.aggregates = unsigned.aggregates
    OBVIOUS
  <2> HIDE DEF b, unsigned
  <2> QED BY <2>1, Zenon DEF canonical_body
<1> HIDE DEF b, unsigned, aggregates
<1> QED BY <1>1, <1>2, <1>3 DEF SignedOver, aggregates

LEMMA RInvInit == RInit => RInv
<1> SUFFICES ASSUME RInit PROVE RInv
  OBVIOUS
<1>1. PICK quantities \in Initial :
        docs = [p \in Passports |-> [version |-> 1, state_hash |-> 0,
                                     quantities |-> quantities[p]]]
  BY DEF RInit
<1>2. \A p \in Passports : quantities[p] \in Declared
  BY RollupConstantsOK
<1>3. DocsOK
  BY <1>1, <1>2 DEF DocsOK
<1> QED BY <1>3 DEF RInit, RInv, Attested

\* A member stays known while its document goes on.
LEMMA MembersKept ==
  ASSUME DocsOK, NEW p \in Passports, NEW m, KnownMember(m), NEW qs \in Declared,
         \/ docs' = [docs EXCEPT ![p].version = @ + 1, ![p].quantities = qs]
         \/ docs' = [docs EXCEPT ![p].state_hash = @ + 1]
  PROVE  DocsOK' /\ KnownMember(m)'
<1>1. /\ DOMAIN docs = Passports
      /\ \A q \in Passports : /\ docs[q].version \in Nat /\ docs[q].state_hash \in Nat
                              /\ docs[q].quantities \in Declared
                              /\ docs[q] = [version |-> docs[q].version,
                                            state_hash |-> docs[q].state_hash,
                                            quantities |-> docs[q].quantities]
  BY DEF DocsOK
<1>2. CASE docs' = [docs EXCEPT ![p].version = @ + 1, ![p].quantities = qs]
  <2>1. docs' = [docs EXCEPT ![p] = [version |-> docs[p].version + 1,
                                      state_hash |-> docs[p].state_hash, quantities |-> qs]]
    <3> DEFINE d == docs[p]
    <3>1. docs' = [docs EXCEPT ![p] = [[d EXCEPT !.version = @ + 1] EXCEPT !.quantities = qs]]
      BY <1>1, <1>2
    <3>2. d = [version |-> d.version, state_hash |-> d.state_hash, quantities |-> d.quantities]
      BY <1>1
    <3> DEFINE e == [d EXCEPT !.version = @ + 1]
    <3> HIDE DEF d
    <3>3. e = [version |-> d.version + 1,
               state_hash |-> d.state_hash, quantities |-> d.quantities]
      BY <3>2
    <3> HIDE DEF e
    <3>4. [e EXCEPT !.quantities = qs] = [version |-> d.version + 1,
             state_hash |-> d.state_hash, quantities |-> qs]
      BY <3>3
    <3> QED BY <3>1, <3>4 DEF d, e
  <2>2. \A q \in Passports : docs'[q] = IF q = p
          THEN [version |-> docs[p].version + 1,
                state_hash |-> docs[p].state_hash, quantities |-> qs] ELSE docs[q]
    BY <1>1, <2>1
  <2>3. DocsOK'
    <3>1. \A q \in Passports : /\ docs'[q].version \in Nat /\ docs'[q].state_hash \in Nat
                               /\ docs'[q].quantities \in Declared
                               /\ docs'[q] = [version |-> docs'[q].version,
                                              state_hash |-> docs'[q].state_hash,
                                              quantities |-> docs'[q].quantities]
      BY <1>1, <2>2
    <3>2. docs' = [q \in Passports |-> docs'[q]]
      BY <1>1, <2>1
    <3> QED BY <3>1, <3>2 DEF DocsOK
  <2>4. KnownMember(m)'
    BY <1>1, <2>2 DEF KnownMember
  <2> QED BY <2>3, <2>4
<1>3. CASE docs' = [docs EXCEPT ![p].state_hash = @ + 1]
  <2>1. docs' = [docs EXCEPT ![p] = [version |-> docs[p].version,
                                      state_hash |-> docs[p].state_hash + 1,
                                      quantities |-> docs[p].quantities]]
    BY <1>1, <1>3
  <2>2. \A q \in Passports : docs'[q] = IF q = p
          THEN [version |-> docs[p].version,
                state_hash |-> docs[p].state_hash + 1,
                quantities |-> docs[p].quantities] ELSE docs[q]
    BY <1>1, <2>1
  <2>3. DocsOK'
    BY <1>1, <2>1, <2>2 DEF DocsOK
  <2>4. KnownMember(m)'
    BY <1>1, <2>2 DEF KnownMember
  <2> QED BY <2>3, <2>4
<1> QED BY <1>2, <1>3

LEMMA RInvNext == RInv /\ [RNext]_rvars => RInv'
<1> SUFFICES ASSUME RInv, [RNext]_rvars PROVE RInv'
  OBVIOUS
<1>1. DocsOK /\ (Attested => KnownSet(covered) /\ SignedOver(attestation, covered))
  BY DEF RInv
<1>2. CASE docs' = docs /\ attestation' = attestation /\ covered' = covered
  <2>1. DocsOK'
    BY <1>1, <1>2 DEF DocsOK
  <2>2. Attested' => KnownSet(covered)' /\ SignedOver(attestation, covered)'
    BY <1>1, <1>2, Zenon DEF Attested, KnownSet, KnownMember, SignedOver
  <2> QED BY <2>1, <2>2 DEF RInv
<1>3. ASSUME NEW p \in Passports, NEW qs \in Declared, Revise(p, qs) \/ Advance(p)
      PROVE  RInv'
  <2>1. /\ \/ docs' = [docs EXCEPT ![p].version = @ + 1, ![p].quantities = qs]
           \/ docs' = [docs EXCEPT ![p].state_hash = @ + 1]
        /\ attestation' = attestation /\ covered' = covered
    BY <1>3 DEF Revise, Advance
  <2>2. DocsOK'
    <3>1. KnownMember(MemberOf(p))
      BY <1>1, MemberNow
    <3> QED BY <1>1, <2>1, <3>1, MembersKept, Zenon
  <2>3. ASSUME Attested'
        PROVE  KnownSet(covered)' /\ SignedOver(attestation, covered)'
    <3>1. Attested
      BY <2>1, <2>3 DEF Attested
    <3>2. \A i \in 1..Len(covered) : KnownMember(covered[i])'
      <4> TAKE i \in 1..Len(covered)
      <4>1. KnownMember(covered[i])
        BY <1>1, <3>1 DEF KnownSet
      <4> DEFINE m == covered[i]
      <4>2. m' = m
        BY <2>1
      <4>3. \A n : KnownMember(n) => KnownMember(n)'
        BY <1>1, <2>1, MembersKept, Zenon
      <4> QED BY <4>1, <4>2, <4>3 DEF KnownMember
    <3> QED BY <1>1, <2>1, <3>1, <3>2 DEF KnownSet, SignedOver
  <2> QED BY <2>2, <2>3 DEF RInv
<1>4. ASSUME NEW listing \in Listings, Attest(listing)
      PROVE  RInv'
  <2> DEFINE set == Set(listing)
  <2>1. /\ set # Err /\ build(set, registry) # Err
        /\ attestation' = build(set, registry) /\ covered' = set /\ docs' = docs
    BY <1>4, Zenon DEF Attest, Set
  <2>2. listing \in Seq(Passports)
    BY RollupConstantsOK, Zenon
  <2>3. KnownSet(set)
    BY <1>1, <2>1, <2>2, SetNow, ListedNotRefused
  <2>4. SignedOver(attestation', set)
    BY <2>1, BuildIs
  <2> HIDE DEF set
  <2>5. KnownSet(covered)'
    BY <2>1, <2>3, Zenon DEF KnownSet, KnownMember
  <2>6. SignedOver(attestation, covered)'
    BY <2>1, <2>4, Zenon DEF SignedOver
  <2>7. DocsOK'
    BY <1>1, <2>1 DEF DocsOK
  <2> QED BY <2>5, <2>6, <2>7 DEF RInv
<1>5. ASSUME NEW d \in Definitions, Register(d.uom, d.def)
      PROVE  docs' = docs /\ attestation' = attestation /\ covered' = covered
  BY <1>5 DEF Register
<1>6. CASE UNCHANGED rvars
  BY <1>2, <1>6 DEF rvars
<1>7. Passports # {} => \E qs : qs \in Declared
  BY <1>1 DEF DocsOK
<1> QED BY <1>2, <1>3, <1>4, <1>5, <1>6, <1>7 DEF RNext

LEMMA RInvHolds == RSpec => []RInv
<1> QED BY RInvInit, RInvNext, PTL DEF RSpec

-----------------------------------------------------------------------------
(* What a verified roll-up is over.                                        *)

\* A leaf tells the member, but for its quantities.
LEMMA LeafTells ==
  ASSUME NEW a, NEW b, LeafHash(a) = LeafHash(b), KnownMember(a), KnownMember(b)
  PROVE  a.passport = b.passport /\ a.version = b.version /\ a.state_hash = b.state_hash
<1> DEFINE printed(m) == [l \in DOMAIN m.quantities |->
             [amount |-> text(m.quantities[l].amount), uom |-> m.quantities[l].uom]]
           pa == printed(a)
           pb == printed(b)
           la == [a EXCEPT !.quantities = pa]
           lb == [b EXCEPT !.quantities = pb]
<1>1. LeafHash(a) = [leaf |-> la] /\ LeafHash(b) = [leaf |-> lb]
  BY Zenon DEF LeafHash
<1> HIDE DEF pa, pb
<1>2. la = lb
  <2>1. ASSUME NEW x, NEW y, [leaf |-> x] = [leaf |-> y] PROVE x = y
    BY <2>1
  <2>2. [leaf |-> la] = [leaf |-> lb]
    BY <1>1, Zenon
  <2> HIDE DEF la, lb
  <2> QED BY <2>1, <2>2, Zenon
<1>3. /\ a = [passport |-> a.passport, version |-> a.version,
              state_hash |-> a.state_hash, quantities |-> a.quantities]
      /\ b = [passport |-> b.passport, version |-> b.version,
              state_hash |-> b.state_hash, quantities |-> b.quantities]
  BY DEF KnownMember
<1>4. ASSUME NEW m, NEW q, m = [passport |-> m.passport, version |-> m.version,
                                state_hash |-> m.state_hash, quantities |-> m.quantities]
      PROVE  /\ [m EXCEPT !.quantities = q].passport = m.passport
             /\ [m EXCEPT !.quantities = q].version = m.version
             /\ [m EXCEPT !.quantities = q].state_hash = m.state_hash
  BY <1>4
<1> QED BY <1>2, <1>3, <1>4

\* A member that was known, and one that is current, are the same when their
\* leaves are.
LEMMA CurrentMember ==
  ASSUME DocsOK, NEW p \in Passports, NEW m, KnownMember(m),
         LeafHash(m) = LeafHash(MemberOf(p))
  PROVE  m = MemberOf(p)
<1>1. KnownMember(MemberOf(p)) /\ MemberOf(p).passport = p
  BY MemberNow
<1>2. /\ m.passport = p /\ m.version = MemberOf(p).version
      /\ m.state_hash = MemberOf(p).state_hash
  BY <1>1, LeafTells
<1>3. m.quantities = MemberOf(p).quantities
  BY <1>2 DEF KnownMember, MemberOf
<1> QED BY <1>1, <1>2, <1>3 DEF KnownMember

LEMMA LeavesAre ==
  ASSUME NEW set, NEW n \in Nat, n = Len(set), DOMAIN set = 1..n
  PROVE  /\ TreeFacts!IsSeq(LeavesOf(set)) /\ Len(LeavesOf(set)) = n
         /\ \A i \in 1..n : LeavesOf(set)[i] = LeafHash(set[i])
<1> DEFINE leaves == LeavesOf(set)
<1>1. leaves = [i \in 1..n |-> leaves[i]] /\ \A i \in 1..n : leaves[i] = LeafHash(set[i])
  BY DEF LeavesOf
<1> HIDE DEF leaves
<1>2. TreeFacts!IsSeq(leaves) /\ Len(leaves) = n
  BY <1>1, TreeFacts!FunctionIsSeq
<1> QED BY <1>1, <1>2 DEF leaves

\* A set that has the root and the size of the attested one is that one.
LEMMA SameRootSameSet ==
  ASSUME RInv, Attested, NEW listing \in Seq(Passports), Set(listing) # Err,
         root(Set(listing)) = root(covered), Len(Set(listing)) = Len(covered)
  PROVE  Set(listing) = covered
<1> DEFINE set == Set(listing)
           n   == Len(covered)
<1>1. KnownSet(covered) /\ DocsOK
  BY DEF RInv
<1>2. KnownSet(set) /\ \A k \in 1..Len(set) : \E p \in Passports : set[k] = MemberOf(p)
  BY <1>1, SetNow, ListedNotRefused
<1>3. /\ n \in Nat /\ n >= 1 /\ n = Len(set)
      /\ DOMAIN covered = 1..n /\ DOMAIN set = 1..n
      /\ covered = [i \in 1..n |-> covered[i]] /\ set = [i \in 1..n |-> set[i]]
  BY <1>1, <1>2 DEF KnownSet, TreeFacts!IsSeq
<1> HIDE DEF set, n
<1> DEFINE l1 == LeavesOf(covered)
           l2 == LeavesOf(set)
<1>5. /\ TreeFacts!IsSeq(l1) /\ Len(l1) = n /\ TreeFacts!IsSeq(l2) /\ Len(l2) = n
      /\ \A i \in 1..n : l1[i] = LeafHash(covered[i]) /\ l2[i] = LeafHash(set[i])
  BY <1>3, LeavesAre DEF TreeFacts!IsSeq
<1>6. Tree!Root(l1) = Tree!Root(l2)
  BY DEF root, set
<1> HIDE DEF l1, l2
<1>7. \A i \in 1..n : l1[i] = l2[i]
  BY <1>3, <1>5, <1>6, RootTellsLeaves
<1>8. ASSUME NEW i \in 1..n PROVE covered[i] = set[i]
  <2>1. PICK p \in Passports : set[i] = MemberOf(p)
    BY <1>2, <1>3
  <2>2. KnownMember(covered[i])
    BY <1>1, <1>3 DEF KnownSet, n
  <2>3. LeafHash(covered[i]) = LeafHash(MemberOf(p))
    BY <1>5, <1>7, <2>1
  <2>4. covered[i] = MemberOf(p)
    BY <1>1, <2>2, <2>3, CurrentMember, Zenon
  <2> QED BY <2>1, <2>4
<1> QED BY <1>3, <1>8 DEF set

\* However the children are revised, attested and listed again, a roll-up that
\* verifies is over the set that was attested.
THEOREM VerifiedAlwaysMeansCovered == RSpec => []VerifiedMeansCovered
<1>1. RInv => VerifiedMeansCovered
  <2> SUFFICES ASSUME RInv, NEW set \in SetsNow, Attested
               PROVE  LET rewritten == build(set, registry)
                          forged    == [rewritten EXCEPT !.signature = attestation.signature]
                      IN  /\ verify_rollup(attestation, set, registry) = "verified"
                               => set = covered
                          /\ rewritten # Err /\ verify_rollup(forged, set, registry) = "verified"
                               => set = covered
    BY Zenon DEF VerifiedMeansCovered
  <2>1. PICK listing \in Seq(Passports) : set = Set(listing) /\ Set(listing) # Err
    <3>1. Listings \subseteq Seq(Passports)
      BY RollupConstantsOK, Zenon
    <3> QED BY <3>1 DEF SetsNow
  <2>2. SignedOver(attestation, covered)
    BY DEF RInv
  <2>3. ASSUME NEW a, verify_rollup(a, set, registry) = "verified"
        PROVE  /\ a.traversal_set_root = root(set) /\ a.member_count = Len(set)
               /\ a.signature = canonical_body(a)
    BY <2>3 DEF verify_rollup
  <2>4. ASSUME verify_rollup(attestation, set, registry) = "verified" PROVE set = covered
    <3>1. root(set) = root(covered) /\ Len(set) = Len(covered)
      BY <2>2, <2>3, <2>4 DEF SignedOver
    <3> QED BY <2>1, <3>1, SameRootSameSet
  <2> DEFINE rewritten == build(set, registry)
             forged    == [rewritten EXCEPT !.signature = attestation.signature]
  <2>5. ASSUME rewritten # Err, verify_rollup(forged, set, registry) = "verified"
        PROVE  set = covered
    <3>1. /\ forged.traversal_set_root = root(set) /\ forged.member_count = Len(set)
          /\ forged.signature = canonical_body(forged)
      BY <2>3, <2>5
    <3>2. forged.signature = attestation.signature
      <4>1. "signature" \in DOMAIN rewritten
        BY <2>5 DEF build
      <4> QED BY <4>1
    <3> HIDE DEF forged
    <3>3. canonical_body(forged) = canonical_body(attestation)
      BY <2>2, <3>1, <3>2 DEF SignedOver
    <3>4. /\ forged.traversal_set_root = attestation.traversal_set_root
          /\ forged.member_count = attestation.member_count
      BY <3>3 DEF canonical_body
    <3>5. root(set) = root(covered) /\ Len(set) = Len(covered)
      BY <2>2, <3>1, <3>4 DEF SignedOver
    <3> QED BY <2>1, <3>5, SameRootSameSet
  <2> QED BY <2>4, <2>5
<1> QED BY <1>1, RInvHolds, PTL

-----------------------------------------------------------------------------
(* Spot checks.                                                            *)

\* Where a path passes, what it hashes, and how many nodes each level has.
PassesOn(g, index, n) ==
  g = [k \in 0..n |-> IF k = 0 THEN index ELSE g[k-1] \div 2]
SizesOn(g, size, n) ==
  g = [k \in 0..n |-> IF k = 0 THEN size ELSE Tree!HalfUp(g[k-1])]
HashNext(g, member, place, path, k) ==
  IF k = 0 THEN LeafHash(member)
  ELSE IF place[k-1] % 2 = 0 THEN NodeHash(g[k-1], path[k])
                             ELSE NodeHash(path[k], g[k-1])
HashesOn(g, member, place, path, n) ==
  g = [k \in 0..n |-> HashNext(g, member, place, path, k)]

LEMMA PassesExist ==
  ASSUME NEW index
  PROVE  \A n \in Nat : \E g : PassesOn(g, index, n)
<1> DEFINE P == {n \in Nat : \E g : PassesOn(g, index, n)}
<1>1. 0 \in P
  <2>1. PassesOn([k \in 0..0 |-> index], index, 0)
    BY DEF PassesOn
  <2> QED BY <2>1
<1>2. ASSUME NEW n \in Nat, n \in P PROVE n + 1 \in P
  <2>1. PICK g : PassesOn(g, index, n)
    BY <1>2
  <2> DEFINE next(f, k) == IF k = 0 THEN index ELSE f[k-1] \div 2
             h == [k \in 0..n + 1 |-> next(g, k)]
  <2>2. \A k \in 0..n : h[k] = g[k]
    BY <2>1 DEF PassesOn
  <2>3. ASSUME NEW k \in 0..n + 1, k # 0 PROVE h[k-1] = g[k-1]
    <3>1. k - 1 \in 0..n
      BY <2>3
    <3> HIDE DEF h
    <3> QED BY <2>2, <3>1
  <2>4. PassesOn(h, index, n + 1)
    <3> HIDE DEF h
    <3>1. \A k \in 0..n + 1 : h[k] = next(h, k)
      BY <2>3 DEF h
    <3>2. h = [k \in 0..n + 1 |-> h[k]]
      BY DEF h
    <3> QED BY <3>1, <3>2 DEF PassesOn
  <2> HIDE DEF h
  <2> QED BY <2>4
<1> HIDE DEF P
<1>3. Nat \subseteq P
  BY <1>1, <1>2, NatSetInduction
<1> QED BY <1>3 DEF P

LEMMA SizesExist ==
  ASSUME NEW size
  PROVE  \A n \in Nat : \E g : SizesOn(g, size, n)
<1> DEFINE P == {n \in Nat : \E g : SizesOn(g, size, n)}
<1>1. 0 \in P
  <2>1. SizesOn([k \in 0..0 |-> size], size, 0)
    BY DEF SizesOn
  <2> QED BY <2>1
<1>2. ASSUME NEW n \in Nat, n \in P PROVE n + 1 \in P
  <2>1. PICK g : SizesOn(g, size, n)
    BY <1>2
  <2> DEFINE next(f, k) == IF k = 0 THEN size ELSE Tree!HalfUp(f[k-1])
             h == [k \in 0..n + 1 |-> next(g, k)]
  <2>2. \A k \in 0..n : h[k] = g[k]
    BY <2>1 DEF SizesOn
  <2>3. ASSUME NEW k \in 0..n + 1, k # 0 PROVE h[k-1] = g[k-1]
    <3>1. k - 1 \in 0..n
      BY <2>3
    <3> HIDE DEF h
    <3> QED BY <2>2, <3>1
  <2>4. SizesOn(h, size, n + 1)
    <3> HIDE DEF h
    <3>1. \A k \in 0..n + 1 : h[k] = next(h, k)
      BY <2>3 DEF h
    <3>2. h = [k \in 0..n + 1 |-> h[k]]
      BY DEF h
    <3> QED BY <3>1, <3>2 DEF SizesOn
  <2> HIDE DEF h
  <2> QED BY <2>4
<1> HIDE DEF P
<1>3. Nat \subseteq P
  BY <1>1, <1>2, NatSetInduction
<1> QED BY <1>3 DEF P

LEMMA HashesExist ==
  ASSUME NEW member, NEW place, NEW path
  PROVE  \A n \in Nat : \E g : HashesOn(g, member, place, path, n)
<1> DEFINE P == {n \in Nat : \E g : HashesOn(g, member, place, path, n)}
<1>1. 0 \in P
  <2>1. HashesOn([k \in 0..0 |-> LeafHash(member)], member, place, path, 0)
    <3>1. \A g : HashNext(g, member, place, path, 0) = LeafHash(member)
      BY DEF HashNext
    <3> QED BY <3>1 DEF HashesOn
  <2> QED BY <2>1
<1>2. ASSUME NEW n \in Nat, n \in P PROVE n + 1 \in P
  <2>1. PICK g : HashesOn(g, member, place, path, n)
    BY <1>2
  <2> DEFINE next(f, k) == HashNext(f, member, place, path, k)
             h == [k \in 0..n + 1 |-> next(g, k)]
  <2>2. \A k \in 0..n : h[k] = g[k]
    BY <2>1 DEF HashesOn
  <2>3. ASSUME NEW k \in 0..n + 1, k # 0 PROVE h[k-1] = g[k-1]
    <3>1. k - 1 \in 0..n
      BY <2>3
    <3> HIDE DEF h
    <3> QED BY <2>2, <3>1
  <2>4. HashesOn(h, member, place, path, n + 1)
    <3> HIDE DEF h
    <3>1. \A k \in 0..n + 1 : next(h, k) = next(g, k)
      BY <2>3, Zenon DEF HashNext
    <3>2. \A k \in 0..n + 1 : h[k] = next(h, k)
      BY <3>1 DEF h
    <3>3. h = [k \in 0..n + 1 |-> h[k]]
      BY DEF h
    <3> QED BY <3>2, <3>3 DEF HashesOn
  <2> HIDE DEF h
  <2> QED BY <2>4
<1> HIDE DEF P
<1>3. Nat \subseteq P
  BY <1>1, <1>2, NatSetInduction
<1> QED BY <1>3 DEF P

\* A walk of n steps from the leaf of a member, at an index of a set of a size.
Walks(place, node, size, member, index, set_size, path, n) ==
  /\ place[0] = index /\ size[0] = set_size /\ node[0] = LeafHash(member)
  /\ \A k \in 1..n :
       /\ place[k] = place[k-1] \div 2 /\ size[k] = Tree!HalfUp(size[k-1])
       /\ node[k] = IF place[k-1] % 2 = 0 THEN NodeHash(node[k-1], path[k])
                                          ELSE NodeHash(path[k], node[k-1])

WalkTells(place, node, size, member, index, set_size, path, n, r) ==
  /\ Walks(place, node, size, member, index, set_size, path, n)
  /\ verify_inclusion(member, index, set_size, path, r) <=> size[n] = 1 /\ node[n] = r

\* A spot check passes if the walk along the path ends at the only node of its
\* level, in the root.
LEMMA InclusionMeans ==
  ASSUME NEW member, NEW index, NEW set_size, NEW path, NEW r, NEW n \in Nat, n = Len(path)
  PROVE  \E place, node, size :
           WalkTells(place, node, size, member, index, set_size, path, n, r)
<1> DEFINE place == CHOOSE g : PassesOn(g, index, Len(path))
           node  == CHOOSE g : HashesOn(g, member, place, path, Len(path))
           size  == CHOOSE g : SizesOn(g, set_size, Len(path))
<1>1. PassesOn(place, index, n)
  BY PassesExist, Zenon
<1>2. SizesOn(size, set_size, n)
  BY SizesExist, Zenon
<1>3. HashesOn(node, member, place, path, n)
  <2> HIDE DEF place
  <2> QED BY HashesExist, Zenon
<1>4. verify_inclusion(member, index, set_size, path, r) <=> size[n] = 1 /\ node[n] = r
  <2>1. verify_inclusion(member, index, set_size, path, r)
          <=> size[Len(path)] = 1 /\ node[Len(path)] = r
    BY Zenon DEF verify_inclusion, PassesOn, SizesOn, HashesOn, HashNext
  <2> HIDE DEF place, node, size
  <2> QED BY <2>1
<1> HIDE DEF place, node, size
<1>5. place[0] = index /\ \A k \in 1..n : place[k] = place[k-1] \div 2
  BY <1>1 DEF PassesOn
<1>6. size[0] = set_size /\ \A k \in 1..n : size[k] = Tree!HalfUp(size[k-1])
  BY <1>2 DEF SizesOn
<1>7. \A k \in 0..n : node[k] = HashNext(node, member, place, path, k)
  BY <1>3 DEF HashesOn
<1>8. node[0] = LeafHash(member)
  BY <1>7 DEF HashNext
<1>9. \A k \in 1..n : node[k] = IF place[k-1] % 2 = 0 THEN NodeHash(node[k-1], path[k])
                                                      ELSE NodeHash(path[k], node[k-1])
  <2> TAKE k \in 1..n
  <2>1. k \in 0..n /\ k # 0
    OBVIOUS
  <2>2. node[k] = HashNext(node, member, place, path, k)
    BY <1>7, <2>1
  <2> QED BY <2>1, <2>2, Zenon DEF HashNext
<1>10. Walks(place, node, size, member, index, set_size, path, n)
  BY <1>5, <1>6, <1>8, <1>9, Zenon DEF Walks
<1> QED BY <1>4, <1>10, Zenon DEF WalkTells

\* Every member of a set passes with its own proof, whatever the size.
LEMMA MemberVerifies ==
  ASSUME NEW set, NEW n \in Nat, n >= 1, n = Len(set), DOMAIN set = 1..n, NEW i \in 1..n
  PROVE  verify_inclusion(set[i], i - 1, n, inclusion_proof(set, i - 1), root(set))
<1> DEFINE leaves == LeavesOf(set)
           path   == inclusion_proof(set, i - 1)
           H      == TreeFacts!Height(leaves)
           level  == TreeFacts!Levels(leaves)
           pos    == TreeFacts!Places(leaves, i)
<1>1. /\ TreeFacts!IsSeq(leaves) /\ Len(leaves) = n /\ Len(leaves) >= 1
      /\ \A j \in 1..n : leaves[j] = LeafHash(set[j])
  BY LeavesAre
<1>2. root(set) = level[H][1]
  BY SameTrees DEF root
<1>3. path = TreeFacts!Path(leaves, i)
  <2>1. (i - 1) + 1 = i
    OBVIOUS
  <2>2. path = Tree!Path(leaves, i)
    BY <2>1 DEF inclusion_proof
  <2> QED BY <2>2, SameTrees
<1> HIDE DEF leaves, path, H, level, pos
<1>4. /\ Len(path) = H /\ H \in Nat /\ H \in 0..n
      /\ \A k \in 1..H : path[k] = level[k-1][TreeFacts!Sibling(pos[k-1], Len(level[k-1]))]
  BY <1>1, <1>3, TreeFacts!PathIs, TreeFacts!HeightIs DEF H, level, pos, TreeFacts!IsSeq
<1>5. /\ pos[0] = i /\ pos[H] = 1
      /\ \A k \in 1..H : pos[k] = TreeFacts!HalfUp(pos[k-1])
      /\ \A k \in 0..H : pos[k] \in 1..Len(level[k])
  <2>1. i \in 1..Len(leaves)
    BY <1>1
  <2>2. /\ TreeFacts!Places(leaves, i)[0] = i
        /\ \A k \in 1..TreeFacts!Height(leaves) : TreeFacts!Places(leaves, i)[k]
             = TreeFacts!HalfUp(TreeFacts!Places(leaves, i)[k-1])
        /\ \A k \in 0..TreeFacts!Height(leaves) :
             TreeFacts!Places(leaves, i)[k] \in 1..Len(TreeFacts!Levels(leaves)[k])
        /\ TreeFacts!Places(leaves, i)[TreeFacts!Height(leaves)] = 1
    BY <1>1, <2>1, TreeFacts!PlacesAre, Zenon
  <2> QED BY <2>2, Zenon DEF H, level, pos
<1>6. /\ level[0] = leaves /\ Len(level[H]) = 1
      /\ \A k \in 1..H : Len(level[k]) = TreeFacts!HalfUp(Len(level[k-1]))
      /\ \A k \in 0..H : Len(level[k]) \in Nat
  <2>1. level[0] = leaves /\ Len(level[H]) = 1
    BY <1>1, TreeFacts!LevelsAre, TreeFacts!HeightIs DEF level, H
  <2>2. /\ \A k \in 0..n : Len(level[k]) \in Nat
        /\ \A k \in 1..n : Len(level[k]) = TreeFacts!HalfUp(Len(level[k-1]))
    BY <1>1, TreeFacts!LevelLengths DEF level, TreeFacts!IsSeq
  <2> QED BY <1>4, <2>1, <2>2
<1>7. PICK place, node, size :
        /\ Walks(place, node, size, set[i], i - 1, n, path, H)
        /\ verify_inclusion(set[i], i - 1, n, path, root(set))
             <=> size[H] = 1 /\ node[H] = root(set)
  <2>1. H \in Nat /\ H = Len(path)
    BY <1>4
  <2>2. PICK place, node, size :
          WalkTells(place, node, size, set[i], i - 1, n, path, H, root(set))
    BY <2>1, InclusionMeans, Zenon
  <2> QED BY <2>2 DEF WalkTells
<1> DEFINE Good(k) == /\ size[k] = Len(level[k]) /\ place[k] = pos[k] - 1
                      /\ node[k] = level[k][pos[k]]
           P       == {k \in Nat : k <= H => Good(k)}
<1>8. 0 \in P
  BY <1>1, <1>5, <1>6, <1>7 DEF Walks
<1>9. ASSUME NEW k \in Nat, k \in P PROVE k + 1 \in P
  <2> SUFFICES ASSUME k + 1 <= H PROVE Good(k + 1)
    OBVIOUS
  <2>1. k + 1 \in 1..H /\ (k + 1) - 1 = k /\ k \in 0..H /\ k \in 0..n-1 /\ Good(k)
    BY <1>4, <1>9
  <2>2. /\ pos[k] \in 1..Len(level[k]) /\ pos[k + 1] = TreeFacts!HalfUp(pos[k])
        /\ pos[k] \in Nat /\ pos[k] >= 1
    BY <1>5, <1>6, <2>1
  <2>3. size[k + 1] = Len(level[k + 1])
    <3>1. size[k + 1] = Tree!HalfUp(size[k])
      BY <1>7, <2>1 DEF Walks
    <3>2. \A m : Tree!HalfUp(m) = TreeFacts!HalfUp(m)
      BY DEF Tree!HalfUp, TreeFacts!HalfUp
    <3> QED BY <1>6, <2>1, <3>1, <3>2
  <2>4. place[k + 1] = pos[k + 1] - 1 /\ (place[k] % 2 = 0 <=> pos[k] % 2 = 1)
    <3>1. place[k + 1] = place[k] \div 2 /\ place[k] = pos[k] - 1
      BY <1>7, <2>1 DEF Walks
    <3> DEFINE x == pos[k]
               h == TreeFacts!HalfUp(x)
    <3>2. x \in Nat /\ x >= 1 /\ h \in Nat /\ (2*h = x \/ 2*h = x + 1)
      BY <2>2, TreeFacts!HalfUpIs
    <3> HIDE DEF x, h
    <3>3. (x - 1) \div 2 = h - 1 /\ ((x - 1) % 2 = 0 <=> x % 2 = 1)
      BY <3>2
    <3> QED BY <2>2, <3>1, <3>3 DEF x, h
  <2> DEFINE side == level[k][TreeFacts!Sibling(pos[k], Len(level[k]))]
  <2>5. node[k + 1] = IF place[k] % 2 = 0 THEN NodeHash(level[k][pos[k]], side)
                                          ELSE NodeHash(side, level[k][pos[k]])
    <3>1. node[k + 1] = IF place[k] % 2 = 0 THEN NodeHash(node[k], path[k + 1])
                                            ELSE NodeHash(path[k + 1], node[k])
      BY <1>7, <2>1 DEF Walks
    <3>2. path[k + 1] = side /\ node[k] = level[k][pos[k]]
      BY <1>4, <2>1
    <3> QED BY <3>1, <3>2, Zenon
  <2>6. level[k + 1][pos[k + 1]] = IF pos[k] % 2 = 1 THEN NodeHash(level[k][pos[k]], side)
                                                     ELSE NodeHash(side, level[k][pos[k]])
    <3>1. pos[k] \in 1..Len(TreeFacts!Levels(leaves)[k]) /\ k \in 0..Len(leaves)-1
      BY <1>1, <2>1, <2>2 DEF level
    <3>2. TreeFacts!Levels(leaves)[k + 1][TreeFacts!HalfUp(pos[k])]
            = IF pos[k] % 2 = 1
                THEN NodeHash(TreeFacts!Levels(leaves)[k][pos[k]],
                              TreeFacts!Levels(leaves)[k]
                                [TreeFacts!Sibling(pos[k], Len(TreeFacts!Levels(leaves)[k]))])
                ELSE NodeHash(TreeFacts!Levels(leaves)[k]
                                [TreeFacts!Sibling(pos[k], Len(TreeFacts!Levels(leaves)[k]))],
                              TreeFacts!Levels(leaves)[k][pos[k]])
      BY <1>1, <3>1, TreeFacts!PathStep, Zenon
    <3> QED BY <2>2, <3>2 DEF level
  <2>7. node[k + 1] = level[k + 1][pos[k + 1]]
    BY <2>4, <2>5, <2>6, Zenon
  <2> QED BY <2>3, <2>4, <2>7
<1>10. Nat \subseteq P
  <2> HIDE DEF P
  <2> QED BY <1>8, <1>9, NatSetInduction
<1>11. Good(H)
  BY <1>4, <1>10
<1>12. size[H] = 1 /\ node[H] = root(set)
  BY <1>2, <1>5, <1>6, <1>11
<1> QED BY <1>7, <1>12 DEF path

\* Whatever the path, the index and the size, what passes has the leaf of a member.
LEMMA InclusionBinds ==
  ASSUME NEW set, NEW m \in Nat, m >= 1, m = Len(set), DOMAIN set = 1..m,
         NEW member, NEW index, NEW set_size, NEW path, NEW n \in Nat, n = Len(path),
         verify_inclusion(member, index, set_size, path, root(set))
  PROVE  \E i \in 1..m : LeafHash(member) = LeafHash(set[i])
<1> DEFINE leaves == LeavesOf(set)
           H      == TreeFacts!Height(leaves)
           level  == TreeFacts!Levels(leaves)
<1>1. PICK place, node, size :
        Walks(place, node, size, member, index, set_size, path, n) /\ node[n] = root(set)
  <2>1. PICK place, node, size :
          WalkTells(place, node, size, member, index, set_size, path, n, root(set))
    BY InclusionMeans, Zenon
  <2> QED BY <2>1 DEF WalkTells
<1>2. /\ node[0] = LeafHash(member)
      /\ \A k \in 1..n : \E other : \/ node[k] = NodeHash(node[k-1], other)
                                    \/ node[k] = NodeHash(other, node[k-1])
  <2>1. node[0] = LeafHash(member)
    BY <1>1 DEF Walks
  <2>2. ASSUME NEW k \in 1..n
        PROVE  \E other : \/ node[k] = NodeHash(node[k-1], other)
                          \/ node[k] = NodeHash(other, node[k-1])
    <3>1. node[k] = IF place[k-1] % 2 = 0 THEN NodeHash(node[k-1], path[k])
                                          ELSE NodeHash(path[k], node[k-1])
      BY <1>1 DEF Walks
    <3> QED BY <3>1
  <2> QED BY <2>1, <2>2
<1>3. /\ TreeFacts!IsSeq(leaves) /\ Len(leaves) = m /\ Len(leaves) >= 1
      /\ \A j \in 1..m : leaves[j] = LeafHash(set[j])
  BY LeavesAre
<1>4. root(set) = level[H][1]
  BY SameTrees DEF root
<1> HIDE DEF leaves, H, level
<1>5. H \in 0..m /\ H \in Nat /\ Len(level[H]) = 1 /\ level[0] = leaves
  BY <1>3, TreeFacts!HeightIs, TreeFacts!LevelsAre DEF H, level, TreeFacts!IsSeq
<1>6. ASSUME NEW k \in 1..H, NEW i \in 1..Len(level[k])
      PROVE  \E a, b \in 1..Len(level[k-1]) :
               level[k][i] = NodeHash(level[k-1][a], level[k-1][b])
  <2>1. k \in 1..Len(leaves)
    BY <1>3, <1>5
  <2> QED BY <1>3, <1>6, <2>1, TreeFacts!NodesArePairs, Zenon DEF level
<1> DEFINE Below(j) == \E i \in 1..Len(level[H - j]) : node[n - j] = level[H - j][i]
           P        == {j \in Nat : j <= n /\ j <= H => Below(j)}
<1>7. 0 \in P
  <2>1. 1 \in 1..Len(level[H])
    BY <1>5
  <2>2. node[n] = level[H][1] /\ n - 0 = n /\ H - 0 = H
    BY <1>1, <1>4, <1>5
  <2> QED BY <2>1, <2>2
<1>8. ASSUME NEW j \in Nat, j \in P PROVE j + 1 \in P
  <2> SUFFICES ASSUME j + 1 <= n, j + 1 <= H PROVE Below(j + 1)
    OBVIOUS
  <2>1. /\ n - j \in 1..n /\ (n - j) - 1 = n - (j + 1)
        /\ H - j \in 1..H /\ (H - j) - 1 = H - (j + 1)
    BY <1>5
  <2>2. PICK i \in 1..Len(level[H - j]) : node[n - j] = level[H - j][i]
    BY <1>5, <1>8
  <2>3. PICK a, b \in 1..Len(level[H - (j + 1)]) :
          level[H - j][i] = NodeHash(level[H - (j + 1)][a], level[H - (j + 1)][b])
    <3>1. \E a, b \in 1..Len(level[(H - j) - 1]) :
            level[H - j][i] = NodeHash(level[(H - j) - 1][a], level[(H - j) - 1][b])
      BY <1>6, <2>1
    <3> QED BY <2>1, <3>1
  <2>4. PICK other : \/ node[n - j] = NodeHash(node[n - (j + 1)], other)
                     \/ node[n - j] = NodeHash(other, node[n - (j + 1)])
    <3>1. \E other : \/ node[n - j] = NodeHash(node[(n - j) - 1], other)
                     \/ node[n - j] = NodeHash(other, node[(n - j) - 1])
      BY <1>2, <2>1
    <3> QED BY <2>1, <3>1
  <2>5. node[n - (j + 1)] \in {level[H - (j + 1)][a], level[H - (j + 1)][b]}
    <3> DEFINE low == node[n - (j + 1)]
               la  == level[H - (j + 1)][a]
               lb  == level[H - (j + 1)][b]
    <3>1. NodeHash(low, other) = NodeHash(la, lb) \/ NodeHash(other, low) = NodeHash(la, lb)
      BY <2>2, <2>3, <2>4, Zenon
    <3> HIDE DEF low, la, lb
    <3>2. low = la \/ low = lb
      BY <3>1, NodeTellsBoth
    <3> QED BY <3>2 DEF low, la, lb
  <2> QED BY <2>3, <2>5
<1> HIDE DEF Below
<1>9. Nat \subseteq P
  <2> HIDE DEF P
  <2> QED BY <1>7, <1>8, NatSetInduction
<1>10. ~(n < H)
  <2> SUFFICES ASSUME n < H PROVE FALSE
    OBVIOUS
  <2>1. Below(n) /\ n - n = 0 /\ H - n \in 1..H
    BY <1>5, <1>9
  <2>2. PICK i \in 1..Len(level[H - n]) : node[0] = level[H - n][i]
    BY <2>1 DEF Below
  <2>3. PICK x, y : node[0] = NodeHash(x, y)
    BY <1>6, <2>1, <2>2
  <2> QED BY <1>2, <2>3, LeafIsNoNode
<1>11. ~(H < n)
  <2> SUFFICES ASSUME H < n PROVE FALSE
    OBVIOUS
  <2>1. Below(H) /\ H - H = 0 /\ n - H \in 1..n
    BY <1>5, <1>9
  <2>2. PICK i \in 1..Len(leaves) : node[n - H] = leaves[i]
    BY <1>5, <2>1 DEF Below
  <2>3. node[n - H] = LeafHash(set[i])
    BY <1>3, <2>2
  <2>4. PICK x, y : node[n - H] = NodeHash(x, y)
    BY <1>2, <2>1
  <2> QED BY <2>3, <2>4, LeafIsNoNode
<1>12. Below(n) /\ n - n = 0 /\ H - n = 0
  BY <1>5, <1>9, <1>10, <1>11
<1>13. PICK i \in 1..Len(leaves) : node[0] = leaves[i]
  BY <1>5, <1>12 DEF Below
<1> QED BY <1>2, <1>3, <1>13

LEMMA PathLength ==
  ASSUME NEW set, KnownSet(set), NEW i \in DOMAIN set
  PROVE  Len(inclusion_proof(set, i - 1)) \in Nat
<1> DEFINE leaves == LeavesOf(set)
           n      == Len(set)
<1>1. n \in Nat /\ n >= 1 /\ DOMAIN set = 1..n /\ i \in 1..n
  BY DEF KnownSet, TreeFacts!IsSeq
<1> HIDE DEF n
<1>2. TreeFacts!IsSeq(leaves) /\ Len(leaves) = n
  BY <1>1, LeavesAre DEF n
<1>3. inclusion_proof(set, i - 1) = TreeFacts!Path(leaves, i)
  <2>1. (i - 1) + 1 = i
    BY <1>1
  <2>2. inclusion_proof(set, i - 1) = Tree!Path(leaves, i)
    BY <2>1 DEF inclusion_proof
  <2> QED BY <2>2, SameTrees
<1> HIDE DEF leaves
<1>4. TreeFacts!IsSeq(TreeFacts!Path(leaves, i))
  BY <1>1, <1>2, TreeFacts!PathIs
<1> QED BY <1>3, <1>4 DEF TreeFacts!IsSeq

\* All the children are a set that can be listed.
LEMMA FullSet ==
  ASSUME DocsOK, Passports # {}
  PROVE  KnownSet(Set(SetToSeq(Passports)))
<1> DEFINE n   == Cardinality(Passports)
           all == SetToSeq(Passports)
           members == [i \in DOMAIN all |-> MemberOf(all[i])]
<1>1. n \in Nat /\ n # 0 /\ ExistsBijection(1..n, Passports)
  <2>1. IsFiniteSet(Passports)
    BY RollupConstantsOK, Zenon
  <2> QED BY <2>1, FS_CardinalityType, FS_EmptySet
<1>2. all \in [1..n -> Passports] /\ \A i, j \in 1..n : all[i] = all[j] => i = j
  <2>1. PICK g : g \in [1..n -> Passports] /\ IsInjective(g)
    BY <1>1, Zenon DEF ExistsBijection, Bijection, Injection
  <2>2. all = CHOOSE f \in [1..n -> Passports] : IsInjective(f)
    BY Zenon DEF SetToSeq
  <2> HIDE DEF all, n
  <2>3. all \in [1..n -> Passports] /\ IsInjective(all)
    BY <2>1, <2>2, Zenon
  <2>4. DOMAIN all = 1..n
    BY <2>3
  <2> QED BY <2>3, <2>4, Zenon DEF IsInjective
<1> HIDE DEF all, n
<1>3. all \in Seq(Passports) /\ Len(all) = n /\ DOMAIN all = 1..n
  BY <1>1, <1>2
<1>4. \A i \in 1..n : all[i] \in Passports
  BY <1>2
<1>5. \A i \in 1..n : members[i].passport = all[i]
  <2> TAKE i \in 1..n
  <2>1. members[i] = MemberOf(all[i])
    BY <1>3
  <2> QED BY <1>4, <2>1, MemberNow
<1>6. DOMAIN members = 1..n /\ members # << >>
  <2>1. DOMAIN members = 1..n /\ 1 \in 1..n
    BY <1>1, <1>3
  <2> HIDE DEF members
  <2>2. DOMAIN << >> = {}
    OBVIOUS
  <2> QED BY <2>1, <2>2
<1> HIDE DEF members
<1>7. ~Refused(members)
  BY <1>2, <1>5, <1>6, Zenon DEF Refused
<1> QED BY <1>3, <1>7, SetNow, Zenon DEF all, members

\* The members of every set can be spot-checked, and nothing else passes against an
\* attested root, for every number of children and every path, index and size tried.
THEOREM SpotChecksAlwaysExact == RSpec => []SpotChecksExact
<1>1. RInv => SpotChecksComplete
  <2> SUFFICES ASSUME RInv, NEW set \in SetsNow, NEW i \in DOMAIN set
               PROVE  verify_inclusion(set[i], i - 1, Len(set),
                                       inclusion_proof(set, i - 1), root(set))
    BY Zenon DEF SpotChecksComplete
  <2>1. PICK listing \in Seq(Passports) : set = Set(listing) /\ Set(listing) # Err
    <3>1. Listings \subseteq Seq(Passports)
      BY RollupConstantsOK, Zenon
    <3> QED BY <3>1 DEF SetsNow
  <2>2. KnownSet(set)
    BY <2>1, SetNow, ListedNotRefused DEF RInv
  <2> DEFINE n == Len(set)
  <2>3. n \in Nat /\ n >= 1 /\ n = Len(set) /\ DOMAIN set = 1..n /\ i \in 1..n
    BY <2>2 DEF KnownSet, TreeFacts!IsSeq
  <2> HIDE DEF n
  <2>4. verify_inclusion(set[i], i - 1, n, inclusion_proof(set, i - 1), root(set))
    BY <2>3, MemberVerifies, Zenon
  <2> QED BY <2>3, <2>4
<1>2. RInv => SpotChecksSound
  <2> DEFINE full    == Set(SetToSeq(Passports))
             proofs  == {inclusion_proof(covered, i - 1) : i \in DOMAIN covered}
                        \cup {inclusion_proof(full, i - 1) : i \in DOMAIN full}
             members == {MemberOf(p) : p \in Passports}
                        \cup {covered[i] : i \in DOMAIN covered}
  <2> SUFFICES ASSUME RInv, Attested, NEW member \in members, NEW path \in proofs,
                      NEW index, NEW size,
                      verify_inclusion(member, index, size, path,
                                       attestation.traversal_set_root)
               PROVE  \E i \in DOMAIN covered : covered[i] = member
    BY Zenon DEF SpotChecksSound
  <2> DEFINE m == Len(covered)
             n == Len(path)
  <2>1. /\ DocsOK /\ KnownSet(covered)
        /\ attestation.traversal_set_root = root(covered)
    BY DEF RInv, SignedOver
  <2>2. m \in Nat /\ m >= 1 /\ DOMAIN covered = 1..m
    BY <2>1 DEF KnownSet, TreeFacts!IsSeq
  <2>3. \A i \in 1..m : KnownMember(covered[i])
    BY <2>1 DEF KnownSet
  <2>4. n \in Nat
    <3>1. Passports # {}
      <4>1. covered[1].passport \in Passports
        BY <2>2, <2>3 DEF KnownMember
      <4> QED BY <4>1
    <3>2. KnownSet(full)
      BY <2>1, <3>1, FullSet
    <3> HIDE DEF full
    <3> QED BY <2>1, <3>2, PathLength
  <2> HIDE DEF n, m, members, proofs
  <2>5. PICK i \in 1..m : LeafHash(member) = LeafHash(covered[i])
    <3>1. verify_inclusion(member, index, size, path, root(covered))
      BY <2>1
    <3>2. n = Len(path) /\ m = Len(covered)
      BY DEF n, m
    <3> QED BY <2>2, <2>4, <3>1, <3>2, InclusionBinds
  <2>6. CASE \E p \in Passports : member = MemberOf(p)
    <3>1. PICK p \in Passports : member = MemberOf(p)
      BY <2>6
    <3>2. covered[i] = MemberOf(p)
      <4>1. KnownMember(covered[i]) /\ LeafHash(covered[i]) = LeafHash(MemberOf(p))
        BY <2>3, <2>5, <3>1
      <4> QED BY <2>1, <4>1, CurrentMember, Zenon
    <3> QED BY <2>2, <3>1, <3>2
  <2>7. CASE \E j \in DOMAIN covered : covered[j] = member
    BY <2>7
  <2> QED BY <2>6, <2>7 DEF members
<1>3. RInv => SpotChecksExact
  BY <1>1, <1>2 DEF SpotChecksExact
<1> QED BY <1>3, RInvHolds, PTL

-----------------------------------------------------------------------------
(* What members contribute, and the aggregates made of it.                 *)

FoundNext(g, set, label, k) ==
  IF k = 0 THEN << >>
  ELSE IF label \in DOMAIN set[k].quantities
         THEN Append(g[k-1], set[k].quantities[label]) ELSE g[k-1]
FoundOn(g, set, label, n) == g = [k \in 0..n |-> FoundNext(g, set, label, k)]

LEMMA FoundExist ==
  ASSUME NEW set, NEW label
  PROVE  \A n \in Nat : \E g : FoundOn(g, set, label, n)
<1> DEFINE P == {n \in Nat : \E g : FoundOn(g, set, label, n)}
<1>1. 0 \in P
  <2>1. FoundOn([k \in 0..0 |-> << >>], set, label, 0)
    BY DEF FoundOn, FoundNext
  <2> QED BY <2>1
<1>2. ASSUME NEW n \in Nat, n \in P PROVE n + 1 \in P
  <2>1. PICK g : FoundOn(g, set, label, n)
    BY <1>2
  <2> DEFINE h == [k \in 0..n + 1 |-> FoundNext(g, set, label, k)]
  <2>2. \A k \in 0..n : h[k] = g[k]
    BY <2>1 DEF FoundOn
  <2>3. ASSUME NEW k \in 0..n + 1 PROVE FoundNext(h, set, label, k) = FoundNext(g, set, label, k)
    <3> HIDE DEF h
    <3>1. k # 0 => k - 1 \in 0..n
      BY <2>3
    <3>2. k # 0 => h[k-1] = g[k-1]
      BY <2>2, <3>1
    <3> QED BY <3>2, Zenon DEF FoundNext
  <2>4. FoundOn(h, set, label, n + 1)
    <3>1. \A k \in 0..n + 1 : h[k] = FoundNext(h, set, label, k)
      <4>1. \A k \in 0..n + 1 : h[k] = FoundNext(g, set, label, k)
        OBVIOUS
      <4> HIDE DEF h
      <4> QED BY <2>3, <4>1
    <3>2. h = [k \in 0..n + 1 |-> h[k]]
      OBVIOUS
    <3> HIDE DEF h
    <3> QED BY <3>1, <3>2 DEF FoundOn
  <2> HIDE DEF h
  <2> QED BY <2>4
<1> HIDE DEF P
<1>3. Nat \subseteq P
  BY <1>1, <1>2, NatSetInduction
<1> QED BY <1>3 DEF P

LEMMA DeclaredIs ==
  ASSUME NEW qs \in Declared, NEW l \in DOMAIN qs
  PROVE  qs[l] \in Measured /\ IsQuantity(qs[l])
<1>1. qs[l] \in Measured
  BY DEF Declared
<1> QED BY <1>1, RollupConstantsOK, Zenon

\* What members contribute was declared.
LEMMA ContributionsAre ==
  ASSUME NEW set, NEW label, NEW n \in Nat, n = Len(set),
         \A i \in 1..n : set[i].quantities \in Declared
  PROVE  Contributions(set, label) \in Seq(Measured)
<1> DEFINE found == CHOOSE g : FoundOn(g, set, label, n)
           P == {k \in Nat : k <= n => found[k] \in Seq(Measured)}
<1>1. FoundOn(found, set, label, n)
  <2>1. \E g : FoundOn(g, set, label, n)
    BY FoundExist
  <2> QED BY <2>1, Zenon
<1>2. Contributions(set, label) = found[n]
  <2>1. Contributions(set, label)
          = (CHOOSE g : FoundOn(g, set, label, Len(set)))[Len(set)]
    BY Zenon DEF Contributions, FoundOn, FoundNext
  <2> QED BY <2>1, Zenon
<1> HIDE DEF found
<1>3. \A k \in 0..n : found[k] = FoundNext(found, set, label, k)
  BY <1>1 DEF FoundOn
<1>4. 0 \in P
  <2>1. found[0] = << >>
    BY <1>3 DEF FoundNext
  <2>2. << >> \in Seq(Measured)
    OBVIOUS
  <2>3. found[0] \in Seq(Measured)
    BY <2>1, <2>2, Zenon
  <2> QED BY <2>3
<1>5. ASSUME NEW k \in Nat, k \in P PROVE k + 1 \in P
  <2> SUFFICES ASSUME k + 1 <= n PROVE found[k + 1] \in Seq(Measured)
    OBVIOUS
  <2>1. k + 1 \in 0..n /\ k + 1 \in 1..n /\ (k + 1) - 1 = k /\ k + 1 # 0
    OBVIOUS
  <2>2. found[k] \in Seq(Measured)
    BY <1>5, <2>1
  <2>3. found[k + 1] = IF label \in DOMAIN set[k + 1].quantities
                         THEN Append(found[k], set[k + 1].quantities[label]) ELSE found[k]
    BY <1>3, <2>1 DEF FoundNext
  <2>4. label \in DOMAIN set[k + 1].quantities => set[k + 1].quantities[label] \in Measured
    <3>1. set[k + 1].quantities \in Declared
      BY <2>1
    <3> QED BY <3>1, DeclaredIs
  <2> DEFINE x == set[k + 1].quantities[label]
             y == found[k]
  <2> HIDE DEF x, y
  <2>5. x \in Measured /\ y \in Seq(Measured) => Append(y, x) \in Seq(Measured)
    OBVIOUS
  <2> QED BY <2>2, <2>3, <2>4, <2>5 DEF x, y
<1> HIDE DEF P
<1>6. Nat \subseteq P
  BY <1>4, <1>5, NatSetInduction
<1> QED BY <1>2, <1>6 DEF P

\* What is known of the quantities that are added up for a label.
LEMMA TermsAre ==
  ASSUME NEW set, NEW label, NEW n \in Nat, n = Len(set),
         \A i \in 1..n : set[i].quantities \in Declared,
         NEW units, sum(Contributions(set, label), units) # Err
  PROVE  /\ Len(Contributions(set, label)) \in Nat /\ Len(Contributions(set, label)) >= 1
         /\ DOMAIN Contributions(set, label) = 1..Len(Contributions(set, label))
         /\ \A i \in 1..Len(Contributions(set, label)) :
              IsQuantity(Contributions(set, label)[i])
<1> DEFINE qs == Contributions(set, label)
<1>1. qs \in Seq(Measured)
  BY ContributionsAre
<1> HIDE DEF qs
<1>2. /\ Len(qs) \in Nat /\ DOMAIN qs = 1..Len(qs)
      /\ \A i \in 1..Len(qs) : qs[i] \in Measured
  BY <1>1
<1>3. qs # << >>
  <2>1. sum(qs, units) # Err
    BY DEF qs
  <2> QED BY <1>2, <2>1, SumIs
<1>4. Len(qs) >= 1
  BY <1>1, <1>3
<1>5. \A i \in 1..Len(qs) : IsQuantity(qs[i])
  BY <1>2, RollupConstantsOK, Zenon
<1> QED BY <1>2, <1>4, <1>5 DEF qs

LEMMA AggregatesAre ==
  ASSUME NEW set, NEW units, aggregate_set(set, units) # Err
  PROVE  /\ aggregate_set(set, units)
              = [l \in LabelsIn(set) |-> sum(Contributions(set, l), units)]
         /\ DOMAIN aggregate_set(set, units) = LabelsIn(set)
         /\ \A l \in LabelsIn(set) :
              /\ aggregate_set(set, units)[l] = sum(Contributions(set, l), units)
              /\ sum(Contributions(set, l), units) # Err
<1> DEFINE sums == [l \in LabelsIn(set) |-> sum(Contributions(set, l), units)]
<1>1. aggregate_set(set, units) = sums /\ \A l \in DOMAIN sums : sums[l] # Err
  BY Zenon DEF aggregate_set
<1>2. DOMAIN sums = LabelsIn(set)
      /\ \A l \in LabelsIn(set) : sums[l] = sum(Contributions(set, l), units)
  OBVIOUS
<1> HIDE DEF sums
<1> QED BY <1>1, <1>2, Zenon DEF sums

\* Aggregates stay what they are while units are registered.
LEMMA AggregatesKept ==
  ASSUME NEW set, NEW n \in Nat, n = Len(set),
         \A i \in 1..n : set[i].quantities \in Declared,
         NEW units, NEW more, Grown(units, more), aggregate_set(set, units) # Err
  PROVE  aggregate_set(set, more) = aggregate_set(set, units)
<1> DEFINE sums == [l \in LabelsIn(set) |-> sum(Contributions(set, l), units)]
           again == [l \in LabelsIn(set) |-> sum(Contributions(set, l), more)]
<1>1. \A l \in LabelsIn(set) : sum(Contributions(set, l), units) # Err
  BY AggregatesAre, Zenon
<1>2. ASSUME NEW l \in LabelsIn(set)
      PROVE  sum(Contributions(set, l), more) = sum(Contributions(set, l), units)
  <2> DEFINE qs == Contributions(set, l)
  <2>1. sum(qs, units) # Err
    BY <1>1
  <2>2. Len(qs) \in Nat /\ Len(qs) >= 1
    BY <2>1, TermsAre
  <2> HIDE DEF qs
  <2>3. sum(qs, more) = sum(qs, units)
    BY <2>1, <2>2, SumKept
  <2> QED BY <2>3 DEF qs
<1>3. again = sums
  BY <1>2
<1>4. aggregate_set(set, units) = sums
  BY AggregatesAre, Zenon
<1>5. aggregate_set(set, more) = IF \E l \in DOMAIN again : again[l] = Err THEN Err ELSE again
  BY Zenon DEF aggregate_set
<1>6. \A l \in DOMAIN sums : sums[l] # Err
  BY <1>1
<1> HIDE DEF sums, again
<1> QED BY <1>3, <1>4, <1>5, <1>6, Zenon

-----------------------------------------------------------------------------
(* Sums that stand.                                                        *)

\* The factors of the registry, and what was attested as it would be added up now.
AInv ==
  /\ FactorsOK(registry)
  /\ Attested => /\ attestation.aggregates = aggregate_set(covered, registry)
                 /\ aggregate_set(covered, registry) # Err

LEMMA RegisterIs ==
  ASSUME NEW uom, NEW def, def.num \in Int, def.den \in Int, FactorsOK(registry),
         Register(uom, def)
  PROVE  FactorsOK(registry') /\ Grown(registry, registry')
<1> DEFINE more == [u \in DOMAIN registry \cup {uom} |->
                      IF u = uom THEN def ELSE registry[u]]
<1>1. /\ ~(def.den = 0 \/ def.num < 0 \/ def.den < 0)
      /\ uom \in DOMAIN registry => registry[uom] = def
      /\ registry' = more
  <2>1. register(registry, uom, def) # Err /\ registry' = register(registry, uom, def)
    BY DEF Register
  <2>2. register(registry, uom, def) =
          IF \/ def.den = 0 \/ def.num < 0 \/ def.den < 0
             \/ uom \in DOMAIN registry /\ registry[uom] # def
            THEN Err ELSE more
    BY DEF register
  <2> HIDE DEF more
  <2> QED BY <2>1, <2>2
<1>2. IsFactor(def)
  BY <1>1 DEF IsFactor
<1>3. FactorsOK(more)
  BY <1>2 DEF FactorsOK
<1>4. Grown(registry, more)
  BY <1>1 DEF Grown
<1> QED BY <1>1, <1>3, <1>4

LEMMA CoveredQuantities ==
  ASSUME RInv, Attested
  PROVE  /\ Len(covered) \in Nat
         /\ \A i \in 1..Len(covered) : covered[i].quantities \in Declared
BY DEF RInv, KnownSet, KnownMember, TreeFacts!IsSeq

LEMMA AInvInit == RInit => AInv
BY RollupConstantsOK DEF RInit, AInv, FactorsOK, Attested

LEMMA AInvNext == RInv /\ AInv /\ [RNext]_rvars => AInv'
<1> SUFFICES ASSUME RInv, AInv, [RNext]_rvars PROVE AInv'
  OBVIOUS
<1>1. CASE registry' = registry /\ attestation' = attestation /\ covered' = covered
  BY <1>1, Zenon DEF AInv, Attested, FactorsOK
<1>2. ASSUME NEW d \in Definitions, Register(d.uom, d.def) PROVE AInv'
  <2>1. d.def.num \in Int /\ d.def.den \in Int
    BY RollupConstantsOK, Zenon
  <2>2. FactorsOK(registry') /\ Grown(registry, registry')
    BY <1>2, <2>1, RegisterIs DEF AInv
  <2>3. attestation' = attestation /\ covered' = covered
    BY <1>2 DEF Register
  <2>4. ASSUME Attested
        PROVE  aggregate_set(covered, registry') = aggregate_set(covered, registry)
    <3>1. aggregate_set(covered, registry) # Err
      BY <2>4 DEF AInv
    <3>2. /\ Len(covered) \in Nat
          /\ \A i \in 1..Len(covered) : covered[i].quantities \in Declared
      BY <2>4, CoveredQuantities
    <3> QED BY <2>2, <3>1, <3>2, AggregatesKept
  <2> QED BY <2>2, <2>3, <2>4, Zenon DEF AInv, Attested, FactorsOK
<1>3. ASSUME NEW listing \in Listings, Attest(listing) PROVE AInv'
  <2> DEFINE set == Set(listing)
  <2>1. /\ build(set, registry) # Err /\ registry' = registry
        /\ attestation' = build(set, registry) /\ covered' = set
    BY <1>3, Zenon DEF Attest, Set
  <2> HIDE DEF set
  <2>2. /\ build(set, registry).aggregates = aggregate_set(set, registry)
        /\ aggregate_set(set, registry) # Err
    BY <2>1, BuildIs
  <2> QED BY <2>1, <2>2, Zenon DEF AInv, FactorsOK
<1>4. ASSUME NEW p \in Passports, NEW qs \in Declared, Revise(p, qs) \/ Advance(p)
      PROVE  registry' = registry /\ attestation' = attestation /\ covered' = covered
  BY <1>4 DEF Revise, Advance
<1>5. CASE UNCHANGED rvars
  BY <1>1, <1>5 DEF rvars
<1>6. Passports # {} => \E qs : qs \in Declared
  BY DEF RInv, DocsOK
<1> QED BY <1>1, <1>2, <1>3, <1>4, <1>5, <1>6 DEF RNext

LEMMA AInvHolds == RSpec => [](RInv /\ AInv)
<1>1. RInv /\ AInv /\ [RNext]_rvars => (RInv /\ AInv)'
  BY RInvNext, AInvNext
<1>2. RInit => RInv /\ AInv
  BY RInvInit, AInvInit
<1> QED BY <1>1, <1>2, PTL DEF RSpec

\* What is attested are quantities.
LEMMA AttestedAre ==
  ASSUME RInv, AInv, Attested, NEW l \in DOMAIN attestation.aggregates
  PROVE  /\ l \in LabelsIn(covered)
         /\ attestation.aggregates[l] = sum(Contributions(covered, l), registry)
         /\ sum(Contributions(covered, l), registry) # Err
         /\ IsQuantity(attestation.aggregates[l])
<1>1. /\ attestation.aggregates = aggregate_set(covered, registry)
      /\ aggregate_set(covered, registry) # Err /\ FactorsOK(registry)
  BY DEF AInv
<1>2. /\ l \in LabelsIn(covered)
      /\ attestation.aggregates[l] = sum(Contributions(covered, l), registry)
      /\ sum(Contributions(covered, l), registry) # Err
  <2> DEFINE a == aggregate_set(covered, registry)
  <2>1. /\ DOMAIN a = LabelsIn(covered)
        /\ \A m \in LabelsIn(covered) :
             /\ a[m] = sum(Contributions(covered, m), registry)
             /\ sum(Contributions(covered, m), registry) # Err
    BY <1>1, AggregatesAre, Zenon
  <2>2. attestation.aggregates = a
    BY <1>1
  <2> HIDE DEF a
  <2> QED BY <2>1, <2>2
<1> DEFINE qs == Contributions(covered, l)
<1>3. /\ Len(qs) \in Nat /\ Len(qs) >= 1 /\ \A i \in 1..Len(qs) : IsQuantity(qs[i])
  <2>1. /\ Len(covered) \in Nat
        /\ \A i \in 1..Len(covered) : covered[i].quantities \in Declared
    BY CoveredQuantities
  <2> QED BY <1>2, <2>1, TermsAre
<1>4. IsQuantity(sum(qs, registry))
  <2> HIDE DEF qs
  <2>1. sum(qs, registry) # Err
    BY <1>2 DEF qs
  <2> QED BY <1>1, <1>3, <2>1, SumIsQuantity
<1> QED BY <1>2, <1>4

\* An attestation keeps verifying against its set, whatever units are
\* registered later.
THEOREM AttestationAlwaysStands == RSpec => []AttestationStands
<1>1. RInv /\ AInv => AttestationStands
  <2> SUFFICES ASSUME RInv, AInv, Attested
               PROVE  verify_rollup(attestation, covered, registry) = "verified"
    BY DEF AttestationStands
  <2>1. /\ attestation.traversal_set_root = root(covered)
        /\ attestation.member_count = Len(covered)
        /\ attestation.signature = canonical_body(attestation)
    BY DEF RInv, SignedOver
  <2>2. /\ attestation.aggregates = aggregate_set(covered, registry)
        /\ aggregate_set(covered, registry) # Err
    BY DEF AInv
  <2>3. \A l \in DOMAIN attestation.aggregates :
          eq_qty(attestation.aggregates[l], attestation.aggregates[l])
    <3> TAKE l \in DOMAIN attestation.aggregates
    <3>1. IsDecimal(attestation.aggregates[l].amount)
      BY AttestedAre DEF IsQuantity
    <3> QED BY <3>1, EqIs DEF eq_qty
  <2>4. AggregatesAgree(attestation.aggregates, aggregate_set(covered, registry))
    BY <2>2, <2>3 DEF AggregatesAgree
  <2> QED BY <2>1, <2>2, <2>4, Zenon DEF verify_rollup
<1> QED BY <1>1, AInvHolds, PTL

\* Each aggregate is the exact sum over the members.
THEOREM AggregatesAlwaysExact == RSpec => []AggregatesExact
<1>1. RInv /\ AInv => AggregatesExact
  <2> SUFFICES ASSUME RInv, AInv, Attested,
                      NEW l \in DOMAIN attestation.aggregates,
                      attestation.aggregates[l].uom \in DOMAIN registry
               PROVE  Exact(attestation.aggregates[l])
                        = SumFunction([i \in DOMAIN Contributions(covered, l) |->
                                         Exact(Contributions(covered, l)[i])])
    BY Zenon DEF AggregatesExact
  <2> DEFINE qs == Contributions(covered, l)
  <2>1. /\ attestation.aggregates[l] = sum(qs, registry)
        /\ sum(qs, registry) # Err
    BY AttestedAre
  <2>2. /\ Len(qs) \in Nat /\ Len(qs) >= 1 /\ DOMAIN qs = 1..Len(qs)
        /\ \A i \in 1..Len(qs) : IsQuantity(qs[i])
    <3>1. /\ Len(covered) \in Nat
          /\ \A i \in 1..Len(covered) : covered[i].quantities \in Declared
      BY CoveredQuantities
    <3> QED BY <2>1, <3>1, TermsAre
  <2> HIDE DEF qs
  <2>3. sum(qs, registry).uom \in DOMAIN registry /\ FactorsOK(registry)
    BY <2>1 DEF AInv
  <2>4. Worth(sum(qs, registry), registry)
          = SumFunction([i \in DOMAIN qs |-> Worth(qs[i], registry)])
    BY <2>1, <2>2, <2>3, SumWorth
  <2>5. Exact(attestation.aggregates[l]) = SumFunction([i \in DOMAIN qs |-> Exact(qs[i])])
    BY <2>1, <2>4, Zenon DEF Exact, Worth
  <2> QED BY <2>5 DEF qs
<1> QED BY <1>1, AInvHolds, PTL

\* Amounts are converted, calculated with, ordered, hashed and printed as the
\* numbers they stand for, or refused, but for the negation, the order and the text
\* of the lower bound of the mantissa.
THEOREM ArithmeticAlwaysExact == RSpec => []ArithmeticExact
<1>1. RInv /\ AInv => ArithmeticExact
  <2> SUFFICES ASSUME RInv, AInv PROVE ArithmeticExact
    OBVIOUS
  <2>1. FactorsOK(registry) /\ DocsOK
    BY DEF AInv, RInv
  <2>2. ASSUME NEW d \in Amounts PROVE IsDecimal(d)
    <3>1. CASE \E p \in Passports : \E l \in DOMAIN docs[p].quantities :
                 d = docs[p].quantities[l].amount
      <4>1. PICK p \in Passports : \E l \in DOMAIN docs[p].quantities :
                   d = docs[p].quantities[l].amount
        BY <3>1
      <4>2. PICK l \in DOMAIN docs[p].quantities : d = docs[p].quantities[l].amount
        BY <4>1
      <4>3. docs[p].quantities \in Declared
        BY <2>1 DEF DocsOK
      <4> QED BY <4>2, <4>3, DeclaredIs DEF IsQuantity
    <3>2. CASE Attested /\ \E l \in DOMAIN attestation.aggregates :
                 d = attestation.aggregates[l].amount
      BY <3>2, AttestedAre DEF IsQuantity
    <3> DEFINE ofDocs     == UNION {{docs[p].quantities[l].amount :
                                        l \in DOMAIN docs[p].quantities} : p \in Passports}
               ofAttested == IF Attested THEN {attestation.aggregates[l].amount :
                                                 l \in DOMAIN attestation.aggregates} ELSE {}
    <3>3. Amounts = ofDocs \cup ofAttested
      BY DEF Amounts
    <3>4. d \in ofDocs => \E p \in Passports : \E l \in DOMAIN docs[p].quantities :
                             d = docs[p].quantities[l].amount
      OBVIOUS
    <3>5. d \in ofAttested => Attested /\ \E l \in DOMAIN attestation.aggregates :
                                 d = attestation.aggregates[l].amount
      OBVIOUS
    <3> HIDE DEF ofDocs, ofAttested
    <3>6. d \in ofDocs \/ d \in ofAttested
      BY <3>3
    <3> QED BY <3>1, <3>2, <3>4, <3>5, <3>6
  <2>3. FactorsAndWidths
    BY <2>1, <2>2 DEF FactorsAndWidths, FactorsOK
  <2>4. \A q \in Measured : IsQuantity(q)
    BY RollupConstantsOK, Zenon
  <2>5. ConversionsExact
    <3> SUFFICES ASSUME NEW q \in Measured, NEW u \in DOMAIN registry,
                        convert_to(q, u, registry) # Err
                 PROVE  /\ cmp_qty(q, convert_to(q, u, registry), registry) \in {0, Err}
                        /\ \/ convert_to(convert_to(q, u, registry), q.uom, registry) = Err
                           \/ eq_qty(convert_to(convert_to(q, u, registry), q.uom, registry), q)
      BY Zenon DEF ConversionsExact
    <3> QED BY <2>1, <2>4, ConversionIs
  <2>6. OperationsExact
    <3>1. ASSUME NEW a \in Amounts, NEW b \in Amounts
          PROVE  /\ add(a, b) # Err => Value(add(a, b)) = Value(a) + Value(b)
                 /\ sub(a, b) # Err =>
                      Value(sub(a, b))
                        = Value(a) + (IF b.mant = Lowest THEN Value(b) ELSE -Value(b))
                 /\ mul(a, b) # Err =>
                      Value(mul(a, b)) * TenTo[MaxExp] = Value(a) * Value(b)
      BY <2>2, AddIs, SubIs, MulIs
    <3>2. ASSUME NEW q \in Measured, NEW r \in Measured, plus(q, r, registry) # Err,
                 r.amount.mant # Lowest
          PROVE  \/ minus(plus(q, r, registry), r, registry) = Err
                 \/ eq_qty(minus(plus(q, r, registry), r, registry), q)
      BY <2>1, <2>4, <3>2, MinusIs
    <3> QED BY <3>1, <3>2, Zenon DEF OperationsExact
  <2>7. OrderIsOfValues
    <3>1. ASSUME NEW a \in Amounts, NEW b \in Amounts
          PROVE  /\ eq(a, b) <=> Value(a) = Value(b)
                 /\ eq(a, b) /\ a.mant # 0 => hash(a) = hash(b)
                 /\ cmp(a, b) = Sign(Value(a) - Value(b)) \/ OneWraps(a, b)
      BY <2>2, EqIs, OrderIs, HashIs
    <3> QED BY <3>1, Zenon DEF OrderIsOfValues
  <2>8. TextIsOfValues
    <3>1. ASSUME NEW a \in Amounts
          PROVE  /\ parse(text(a)) = Err \/ eq(parse(text(a)), a)
                 /\ a.exp <= 0 => (parse(text(a)) = Err <=> a.mant = Lowest)
      <4>1. IsDecimal(a)
        BY <2>2
      <4>2. parse(text(a)) # Err => eq(parse(text(a)), a)
        BY <4>1, ReadBack, EqIs
      <4> QED BY <4>1, <4>2, TextReadable
    <3> QED BY <3>1, Zenon DEF TextIsOfValues
  <2> QED BY <2>3, <2>5, <2>6, <2>7, <2>8 DEF ArithmeticExact
<1> QED BY <1>1, AInvHolds, PTL
=============================================================================

----------------------------- MODULE TextProofs -----------------------------
(***************************************************************************)
(* The texts on a card, for every day, zone, key, lot and serial: dates    *)
(* and instants, identifiers in every accepted spelling and what reads     *)
(* back from what was built, and the check digit of a key.                 *)
(***************************************************************************)
EXTENDS Carrier, InductionProofs, SequenceTheorems

-----------------------------------------------------------------------------
(* Dates.                                                                  *)

\* A date of the calendar.
IsDate(d) ==
  /\ d = [year |-> d.year, month |-> d.month, day |-> d.day]
  /\ d.year \in Int /\ d.month \in 1..12 /\ d.day \in 1..Cal!days_in_month(d.year, d.month)

\* A year of an era is long when the February it ends with is.
IsLong(yoe) == (yoe + 1) % 4 = 0 /\ ((yoe + 1) % 100 # 0 \/ yoe + 1 = 400)
IsDayOf(yoe, doy) == doy \in Nat /\ (doy <= 364 \/ (doy = 365 /\ IsLong(yoe)))

InEra(doe) == doe \in Nat /\ doe <= 146096

YearOf(doe) == (doe - doe \div 1460 + doe \div 36524 - doe \div 146096) \div 365

\* A quotient is the number whose multiple is the last one reached.
LEMMA DivIs ==
  ASSUME NEW x \in Int, NEW d \in Nat \ {0}, NEW q \in Int, d * q <= x, x < d * q + d
  PROVE  x \div d = q
<1> DEFINE p == x \div d
<1>1. p \in Int /\ d * p <= x /\ x < d * p + d
  OBVIOUS
<1> HIDE DEF p
<1> DEFINE dp == d * p
           dq == d * q
<1>2. dp \in Int /\ dq \in Int /\ dp <= x /\ x < dp + d /\ dq <= x /\ x < dq + d
  BY <1>1
<1>3. ASSUME NEW a \in Int, NEW e \in Nat \ {0} PROVE d * (a + e) >= d * a + d
  <2>1. d * (a + e) = d * a + d * e /\ d * a \in Int
    OBVIOUS
  <2>2. d * e >= d /\ d * e \in Int
    OBVIOUS
  <2> QED BY <2>1, <2>2
<1>4. p < q => dq >= dp + d
  <2> SUFFICES ASSUME p < q PROVE dq >= dp + d
    OBVIOUS
  <2>1. PICK e \in Nat \ {0} : q = p + e
    <3>1. q - p \in Nat \ {0} /\ q = p + (q - p)
      BY <1>1
    <3> QED BY <3>1
  <2> QED BY <1>1, <1>3, <2>1
<1>5. q < p => dp >= dq + d
  <2> SUFFICES ASSUME q < p PROVE dp >= dq + d
    OBVIOUS
  <2>1. PICK e \in Nat \ {0} : p = q + e
    <3>1. p - q \in Nat \ {0} /\ p = q + (p - q)
      BY <1>1
    <3> QED BY <3>1
  <2> QED BY <1>1, <1>3, <2>1
<1> HIDE DEF dp, dq
<1>6. p = q
  BY <1>1, <1>2, <1>4, <1>5
<1> QED BY <1>6 DEF p

\* Centuries, spans of four years and years.
AreParts(yoe, c, q, r) ==
  /\ q <= 24 /\ yoe = 100 * c + 4 * q + r
  /\ yoe \div 4 = 25 * c + q /\ yoe \div 100 = c
  /\ IsLong(yoe) <=> r = 3 /\ (q = 24 => c = 3)

LEMMA YearParts ==
  ASSUME NEW yoe \in Nat, yoe <= 399
  PROVE  \E c \in 0..3, q \in Nat, r \in 0..3 : AreParts(yoe, c, q, r)
<1> DEFINE c == yoe \div 100
           w == yoe - 100 * c
           q == w \div 4
           r == w - 4 * q
<1>1. c \in 0..3 /\ w \in Nat /\ w <= 99 /\ yoe = 100 * c + w
  OBVIOUS
<1> HIDE DEF c, w
<1>2. q \in Nat /\ q <= 24 /\ r \in 0..3 /\ w = 4 * q + r
  BY <1>1
<1> HIDE DEF q, r
<1>3. yoe = 100 * c + 4 * q + r
  BY <1>1, <1>2
<1>4. yoe \div 4 = 25 * c + q
  BY <1>1, <1>2, <1>3
<1>5. yoe \div 100 = c
  BY DEF c
<1>6. IsLong(yoe) => r = 3 /\ (q = 24 => c = 3)
  BY <1>1, <1>2, <1>3 DEF IsLong
<1>7. (r = 3 /\ (q = 24 => c = 3)) => IsLong(yoe)
  <2> SUFFICES ASSUME r = 3, q = 24 => c = 3 PROVE IsLong(yoe)
    OBVIOUS
  <2>1. yoe + 1 = 100 * c + 4 * (q + 1)
    BY <1>1, <1>2, <1>3
  <2>2. (yoe + 1) % 4 = 0
    BY <1>1, <1>2, <2>1
  <2>3. CASE q = 24
    BY <1>1, <1>2, <2>1, <2>2, <2>3 DEF IsLong
  <2>4. CASE q # 24
    BY <1>1, <1>2, <2>1, <2>2, <2>4 DEF IsLong
  <2> QED BY <2>3, <2>4
<1>8. AreParts(yoe, c, q, r)
  BY <1>2, <1>3, <1>4, <1>5, <1>6, <1>7 DEF AreParts
<1> QED BY <1>1, <1>2, <1>8

\* The year of an era is found from a day of it.
LEMMA YearFound ==
  ASSUME NEW yoe \in Nat, yoe <= 399, NEW doy, IsDayOf(yoe, doy)
  PROVE  /\ InEra(Cal!Years(yoe) + doy)
         /\ YearOf(Cal!Years(yoe) + doy) = yoe
<1> DEFINE doe == Cal!Years(yoe) + doy
<1> PICK c \in 0..3, q \in Nat, r \in 0..3 : AreParts(yoe, c, q, r)
  BY YearParts
<1>1. /\ q <= 24 /\ yoe = 100 * c + 4 * q + r
      /\ yoe \div 4 = 25 * c + q /\ yoe \div 100 = c
      /\ IsLong(yoe) => r = 3 /\ (q = 24 => c = 3)
  BY DEF AreParts
<1>2. doy \in Nat /\ doy <= 365 /\ (doy = 365 => r = 3 /\ (q = 24 => c = 3))
  BY <1>1 DEF IsDayOf
<1>3. doe = 36524 * c + 1461 * q + 365 * r + doy
  <2> DEFINE fours == yoe \div 4
             hundreds == yoe \div 100
  <2>1. doe = 365 * yoe + fours - hundreds + doy
    BY DEF Cal!Years
  <2>2. fours = 25 * c + q /\ hundreds = c
    BY <1>1
  <2> HIDE DEF fours, hundreds, doe
  <2> QED BY <1>1, <1>2, <2>1, <2>2
<1> HIDE DEF doe
<1>4. /\ doe \in Nat /\ doe <= 146096
      /\ doe = 146096 => c = 3 /\ q = 24 /\ r = 3 /\ doy = 365
      /\ doe # 146096 => 1461 * q + 365 * r + doy <= 36523
      /\ 1461 * q + 365 * r + doy \in Nat
  <2>1. c \in Nat /\ c <= 3 /\ r \in Nat /\ r <= 3 /\ q \in Nat /\ q <= 24
    BY <1>1
  <2>2. CASE doy <= 364
    BY <1>2, <1>3, <2>1, <2>2
  <2>3. CASE doy = 365 /\ q = 24
    <3>1. r = 3 /\ c = 3 /\ doe = 146096 /\ doy = 365 /\ q = 24
      BY <1>2, <1>3, <2>3
    <3> QED BY <3>1
  <2>4. CASE doy = 365 /\ q <= 23
    BY <1>2, <1>3, <2>1, <2>4
  <2> QED BY <1>2, <2>1, <2>2, <2>3, <2>4
<1> DEFINE more == IF 24 * c + q + 365 * r + doy >= 1460 THEN 1 ELSE 0
           last == IF doe = 146096 THEN 1 ELSE 0
<1>0. more \in {0, 1} /\ last \in {0, 1}
  OBVIOUS
<1>5. doe \div 1460 = 25 * c + q + more
  <2>1. /\ 1460 * (25 * c + q + more) <= doe
        /\ doe < 1460 * (25 * c + q + more) + 1460
    BY <1>2, <1>3, <1>4
  <2>2. 25 * c + q + more \in Int /\ 1460 \in Nat \ {0}
    BY <1>0
  <2> HIDE DEF more
  <2> QED BY <1>4, <2>1, <2>2, DivIs
<1>6. doe \div 146096 = last
  <2>1. 146096 * last <= doe /\ doe < 146096 * last + 146096
    BY <1>4
  <2>2. last \in Int /\ 146096 \in Nat \ {0}
    BY <1>0
  <2> HIDE DEF last
  <2> QED BY <1>4, <2>1, <2>2, DivIs
<1>7. doe \div 36524 = c + last
  <2>1. 36524 * (c + last) <= doe /\ doe < 36524 * (c + last) + 36524
    <3>1. CASE doe = 146096
      <4>1. c = 3 /\ last = 1
        BY <1>4, <3>1
      <4> QED BY <3>1, <4>1
    <3>2. CASE doe # 146096
      <4>1. last = 0 /\ c \in Int
        BY <3>2
      <4>2. 36524 * c <= doe /\ doe < 36524 * c + 36524
        BY <1>2, <1>3, <1>4, <3>2
      <4> HIDE DEF last
      <4> QED BY <4>1, <4>2
    <3> QED BY <3>1, <3>2
  <2>2. c + last \in Int /\ 36524 \in Nat \ {0}
    BY <1>0
  <2> HIDE DEF last
  <2> QED BY <1>4, <2>1, <2>2, DivIs
<1> DEFINE rest == doe - doe \div 1460 + doe \div 36524 - doe \div 146096
<1>8. rest = 365 * yoe + doy - more
  <2> HIDE DEF more, last
  <2>1. rest = doe - (25 * c + q + more) + (c + last) - last
    BY <1>5, <1>6, <1>7
  <2> HIDE DEF rest
  <2> QED BY <1>0, <1>1, <1>2, <1>3, <2>1
<1>9. doy - more >= 0 /\ doy - more <= 364
  BY <1>1, <1>2
<1> HIDE DEF rest, more
<1>10. rest \div 365 = yoe
  <2>1. rest \in Int /\ 365 * yoe <= rest /\ rest < 365 * yoe + 365 /\ yoe \in Int
    BY <1>0, <1>2, <1>8, <1>9
  <2>2. 365 \in Nat \ {0}
    OBVIOUS
  <2> QED BY <2>1, <2>2, DivIs
<1>11. InEra(doe)
  BY <1>4 DEF InEra
<1> QED BY <1>10, <1>11 DEF rest, doe, YearOf

\* Every day of an era is a day of one of its years.
LEMMA DayHasYear ==
  ASSUME NEW doe \in Nat, InEra(doe)
  PROVE  \E yoe \in Nat : yoe <= 399 /\ IsDayOf(yoe, doe - Cal!Years(yoe))
<1> DEFINE T == {y \in Nat : y <= 399 /\ Cal!Years(y) <= doe}
<1>1. 0 \in T
  BY SMT DEF Cal!Years
<1>2. PICK y \in T : \A z \in T : z <= y
  <2> DEFINE U == {n \in Nat : 399 - n \in T}
  <2>1. 399 \in U
    BY <1>1
  <2>2. PICK n \in U : \A m \in U : n <= m
    <3> HIDE DEF T
    <3>1. U \subseteq Nat
      OBVIOUS
    <3> HIDE DEF U
    <3> QED BY <2>1, <3>1, LeastElement
  <2>3. 399 - n \in T /\ n \in Nat
    OBVIOUS
  <2>4. ASSUME NEW z \in T PROVE z <= 399 - n
    <3>1. z \in Nat /\ 399 - z \in Nat /\ 399 - (399 - z) = z
      OBVIOUS
    <3>2. 399 - z \in U
      BY <3>1
    <3>3. n <= 399 - z
      BY <2>2, <3>2, ZenonT(60)
    <3> HIDE DEF T, U
    <3> QED BY <2>3, <3>1, <3>3, SMT
  <2> QED BY <2>3, <2>4
<1>3. y \in Nat /\ y <= 399 /\ Cal!Years(y) <= doe
  OBVIOUS
<1>4. y + 1 <= 399 => doe < Cal!Years(y + 1)
  <2>1. y + 1 <= 399 => y + 1 \notin T
    BY <1>2, <1>3
  <2>2. Cal!Years(y + 1) \in Int /\ y + 1 \in Nat
    BY <1>3, SMT DEF Cal!Years
  <2> QED BY <1>3, <2>1, <2>2
<1> HIDE DEF T
<1> PICK c \in 0..3, q \in Nat, r \in 0..3 : AreParts(y, c, q, r)
  BY <1>3, YearParts
<1>5. /\ q <= 24 /\ y = 100 * c + 4 * q + r
      /\ y \div 4 = 25 * c + q /\ y \div 100 = c
      /\ (r = 3 /\ (q = 24 => c = 3)) => IsLong(y)
  BY DEF AreParts
<1>6. Cal!Years(y) = 36524 * c + 1461 * q + 365 * r
  <2> DEFINE fours == y \div 4
             hundreds == y \div 100
  <2>1. Cal!Years(y) = 365 * y + fours - hundreds
    BY DEF Cal!Years
  <2>2. fours = 25 * c + q /\ hundreds = c
    BY <1>5
  <2> HIDE DEF fours, hundreds
  <2> QED BY <1>3, <1>5, <2>1, <2>2, SMT
<1> DEFINE doy == doe - Cal!Years(y)
<1>7. doy \in Nat
  BY <1>3, <1>6
<1>8. CASE y = 399
  <2>1. c = 3 /\ q = 24 /\ r = 3
    BY <1>5, <1>8, SMT
  <2>2. doy <= 365
    BY <1>3, <1>6, <2>1, SMT DEF InEra
  <2> HIDE DEF doy
  <2>3. IsDayOf(y, doy)
    BY <1>5, <1>7, <2>1, <2>2, SMT DEF IsDayOf
  <2> QED BY <1>3, <2>3 DEF doy
<1>9. CASE y # 399
  <2> DEFINE z == y + 1
             fours == z \div 4
             hundreds == z \div 100
  <2>1. doe < 365 * z + fours - hundreds /\ z \in Int /\ fours \in Int /\ hundreds \in Int
    BY <1>3, <1>4, <1>9, SMT DEF Cal!Years
  <2>2. CASE r = 3 /\ (q = 24 => c = 3)
    <3>1. fours <= 25 * c + q + 1 /\ hundreds >= c
      BY <1>5, <2>2, SMT
    <3> HIDE DEF fours, hundreds
    <3>2. doy <= 365
      BY <1>3, <1>5, <1>6, <2>1, <3>1, SMT
    <3> HIDE DEF doy
    <3>3. IsDayOf(y, doy)
      BY <1>5, <1>7, <2>2, <3>2, SMT DEF IsDayOf
    <3> QED BY <1>3, <3>3 DEF doy
  <2>3. CASE ~(r = 3 /\ (q = 24 => c = 3))
    <3>1. fours - hundreds <= 25 * c + q - c
      <4>1. CASE r # 3
        <5>1. z = 100 * c + 4 * q + (r + 1) /\ r + 1 \in 0..3
          BY <1>5, <4>1, SMT
        <5>2. fours = 25 * c + q
          BY <1>5, <5>1, SMT
        <5>3. hundreds >= c
          BY <1>5, <5>1, SMT
        <5> HIDE DEF fours, hundreds
        <5> QED BY <1>5, <2>1, <5>2, <5>3, SMT
      <4>2. CASE r = 3 /\ q = 24
        <5>1. z = 100 * (c + 1)
          BY <1>5, <4>2, SMT
        <5>2. fours = 25 * (c + 1) /\ hundreds = c + 1
          BY <1>5, <5>1, SMT
        <5> HIDE DEF fours, hundreds
        <5> QED BY <1>5, <4>2, <5>2, SMT
      <4> QED BY <2>3, <4>1, <4>2
    <3>4. y = 100 * c + 4 * q + r /\ z = y + 1 /\ y \in Int /\ c \in Int /\ r \in Int
      BY <1>3, <1>5
    <3>5. doy \in Int /\ doy = doe - (36524 * c + 1461 * q + 365 * r)
      BY <1>6, <1>7
    <3> HIDE DEF z, fours, hundreds, doy
    <3>2. doy <= 364
      BY <2>1, <3>1, <3>4, <3>5, SMT
    <3> HIDE DEF doy
    <3>3. IsDayOf(y, doy)
      BY <1>7, <3>2 DEF IsDayOf
    <3> QED BY <1>3, <3>3 DEF doy
  <2> QED BY <2>2, <2>3
<1> QED BY <1>8, <1>9

\* Where the month stands that is the mp-th from March, and how long it may be.
MonthStart(mp) == (153 * mp + 2) \div 5
MonthLen(mp) == CASE mp \in {1, 3, 6, 8} -> 30 [] mp = 11 -> 29 [] OTHER -> 31
MonthNo(mp) == IF mp < 10 THEN mp + 3 ELSE mp - 9

LEMMA MonthStarts ==
  /\ MonthStart(0) = 0 /\ MonthStart(1) = 31 /\ MonthStart(2) = 61 /\ MonthStart(3) = 92
  /\ MonthStart(4) = 122 /\ MonthStart(5) = 153 /\ MonthStart(6) = 184
  /\ MonthStart(7) = 214 /\ MonthStart(8) = 245 /\ MonthStart(9) = 275
  /\ MonthStart(10) = 306 /\ MonthStart(11) = 337
BY SMT DEF MonthStart

LEMMA MonthLens ==
  /\ MonthLen(0) = 31 /\ MonthLen(1) = 30 /\ MonthLen(2) = 31 /\ MonthLen(3) = 30
  /\ MonthLen(4) = 31 /\ MonthLen(5) = 31 /\ MonthLen(6) = 30 /\ MonthLen(7) = 31
  /\ MonthLen(8) = 30 /\ MonthLen(9) = 31 /\ MonthLen(10) = 31 /\ MonthLen(11) = 29
BY SMT DEF MonthLen

LEMMA Twelve ==
  ASSUME NEW mp \in 0..11
  PROVE  mp \in {0, 1, 2, 3, 4, 5, 6, 7, 8, 9, 10, 11}
OBVIOUS

\* A day of a month has its place in the year, and the month is found from it.
LEMMA MonthFound ==
  ASSUME NEW mp \in 0..11, NEW day \in Nat, day >= 1, day <= MonthLen(mp)
  PROVE  LET doy == MonthStart(mp) + day - 1
         IN  /\ doy \in Nat /\ (5 * doy + 2) \div 153 = mp
             /\ doy <= 365 /\ (doy = 365 => mp = 11 /\ day = 29)
<1> DEFINE doy == MonthStart(mp) + day - 1
           Found == /\ doy \in Nat /\ 153 * mp <= 5 * doy + 2 /\ 5 * doy + 2 < 153 * mp + 153
                    /\ doy <= 365 /\ (doy = 365 => mp = 11 /\ day = 29)
<1> HIDE DEF Found, doy
<1>2. Found
  <2>1. CASE mp = 0
    BY <2>1, MonthStarts, MonthLens, SMT DEF Found, doy
  <2>2. CASE mp = 1
    BY <2>2, MonthStarts, MonthLens, SMT DEF Found, doy
  <2>3. CASE mp = 2
    BY <2>3, MonthStarts, MonthLens, SMT DEF Found, doy
  <2>4. CASE mp = 3
    BY <2>4, MonthStarts, MonthLens, SMT DEF Found, doy
  <2>5. CASE mp = 4
    BY <2>5, MonthStarts, MonthLens, SMT DEF Found, doy
  <2>6. CASE mp = 5
    BY <2>6, MonthStarts, MonthLens, SMT DEF Found, doy
  <2>7. CASE mp = 6
    BY <2>7, MonthStarts, MonthLens, SMT DEF Found, doy
  <2>8. CASE mp = 7
    BY <2>8, MonthStarts, MonthLens, SMT DEF Found, doy
  <2>9. CASE mp = 8
    BY <2>9, MonthStarts, MonthLens, SMT DEF Found, doy
  <2>10. CASE mp = 9
    BY <2>10, MonthStarts, MonthLens, SMT DEF Found, doy
  <2>11. CASE mp = 10
    BY <2>11, MonthStarts, MonthLens, SMT DEF Found, doy
  <2>12. CASE mp = 11
    BY <2>12, MonthStarts, MonthLens, SMT DEF Found, doy
  <2> QED BY Twelve, <2>1, <2>2, <2>3, <2>4, <2>5, <2>6, <2>7, <2>8, <2>9, <2>10, <2>11, <2>12
<1>3. doy \in Int /\ 5 * doy + 2 \in Int /\ mp \in Int /\ 153 \in Nat \ {0}
  BY <1>2, SMT DEF Found
<1> HIDE DEF doy
<1>4. (5 * doy + 2) \div 153 = mp
  BY <1>2, <1>3, DivIs DEF Found
<1> QED BY <1>2, <1>4 DEF Found, doy

\* Every day of a year is a day of one of its months.
LEMMA DayHasMonth ==
  ASSUME NEW doy \in Nat, doy <= 365
  PROVE  LET mp  == (5 * doy + 2) \div 153
             day == doy - MonthStart(mp) + 1
         IN  /\ mp \in 0..11 /\ day \in Nat /\ day >= 1 /\ day <= MonthLen(mp)
             /\ (mp = 11 /\ day = 29 => doy = 365)
<1> DEFINE mp  == (5 * doy + 2) \div 153
           day == doy - MonthStart(mp) + 1
           Found == /\ day \in Nat /\ day >= 1 /\ day <= MonthLen(mp)
                    /\ (mp = 11 /\ day = 29 => doy = 365)
<1>1. mp \in Int /\ 153 * mp <= 5 * doy + 2 /\ 5 * doy + 2 < 153 * mp + 153
  BY SMT
<1> HIDE DEF mp
<1>2. mp \in 0..11
  BY <1>1, SMT
<1> HIDE DEF day
<1>3. Found
  <2>1. CASE mp = 0
    BY <1>1, <2>1, MonthStarts, MonthLens, SMT DEF Found, day
  <2>2. CASE mp = 1
    BY <1>1, <2>2, MonthStarts, MonthLens, SMT DEF Found, day
  <2>3. CASE mp = 2
    BY <1>1, <2>3, MonthStarts, MonthLens, SMT DEF Found, day
  <2>4. CASE mp = 3
    BY <1>1, <2>4, MonthStarts, MonthLens, SMT DEF Found, day
  <2>5. CASE mp = 4
    BY <1>1, <2>5, MonthStarts, MonthLens, SMT DEF Found, day
  <2>6. CASE mp = 5
    BY <1>1, <2>6, MonthStarts, MonthLens, SMT DEF Found, day
  <2>7. CASE mp = 6
    BY <1>1, <2>7, MonthStarts, MonthLens, SMT DEF Found, day
  <2>8. CASE mp = 7
    BY <1>1, <2>8, MonthStarts, MonthLens, SMT DEF Found, day
  <2>9. CASE mp = 8
    BY <1>1, <2>9, MonthStarts, MonthLens, SMT DEF Found, day
  <2>10. CASE mp = 9
    BY <1>1, <2>10, MonthStarts, MonthLens, SMT DEF Found, day
  <2>11. CASE mp = 10
    BY <1>1, <2>11, MonthStarts, MonthLens, SMT DEF Found, day
  <2>12. CASE mp = 11
    BY <1>1, <2>12, MonthStarts, MonthLens, SMT DEF Found, day
  <2> QED BY <1>2, Twelve, <2>1, <2>2, <2>3, <2>4, <2>5, <2>6, <2>7, <2>8, <2>9, <2>10, <2>11, <2>12
<1> QED BY <1>2, <1>3 DEF mp, day, Found

-----------------------------------------------------------------------------
(* Dates by their place in an era.                                         *)

DateOf(era, yoe, mp, day) ==
  LET m == MonthNo(mp)
      y == yoe + era * 400
  IN  [year |-> IF m <= 2 THEN y + 1 ELSE y, month |-> m, day |-> day]
DateAt(era, yoe, doy) ==
  LET mp == (5 * doy + 2) \div 153
  IN  DateOf(era, yoe, mp, doy - MonthStart(mp) + 1)
AtDay(era, yoe, doy) == era * 146097 + Cal!Years(yoe) + doy - 719468

\* A place of a day: the era, the year of the era and the day of that year.
IsPlace(era, yoe, doy) == era \in Int /\ yoe \in Nat /\ yoe <= 399 /\ IsDayOf(yoe, doy)

LEMMA CivilIs ==
  ASSUME NEW era, NEW yoe, NEW doy, IsPlace(era, yoe, doy)
  PROVE  Cal!civil_from_days(AtDay(era, yoe, doy)) = DateAt(era, yoe, doy)
<1> DEFINE doe == Cal!Years(yoe) + doy
           days == AtDay(era, yoe, doy)
           z    == days + 719468
<1>1. era \in Int /\ yoe \in Nat /\ yoe <= 399 /\ IsDayOf(yoe, doy)
  BY DEF IsPlace
<1>2. InEra(doe) /\ YearOf(doe) = yoe
  BY <1>1, YearFound
<1>3. doy \in Nat /\ Cal!Years(yoe) \in Int
  BY <1>1, SMT DEF IsDayOf, Cal!Years
<1>4. z = era * 146097 + doe
  BY <1>1, <1>3, SMT DEF AtDay
<1> HIDE DEF doe, days, z
<1>5. doe \in Int /\ 0 <= doe /\ doe < 146097
  BY <1>2, SMT DEF InEra
<1>6. z \div 146097 = era
  <2>1. z \in Int /\ 146097 * era <= z /\ z < 146097 * era + 146097 /\ 146097 \in Nat \ {0}
    BY <1>1, <1>4, <1>5, SMT
  <2> QED BY <1>1, <2>1, DivIs, SMT
<1>7. z - (z \div 146097) * 146097 = doe
  BY <1>1, <1>4, <1>5, <1>6, SMT
<1>8. doe - Cal!Years(yoe) = doy
  BY <1>3, SMT DEF doe
<1> DEFINE era2 == z \div 146097
           doe2 == z - era2 * 146097
           yoe2 == (doe2 - doe2 \div 1460 + doe2 \div 36524 - doe2 \div 146096) \div 365
           doy2 == doe2 - Cal!Years(yoe2)
           mp2  == (5 * doy2 + 2) \div 153
           m2   == IF mp2 < 10 THEN mp2 + 3 ELSE mp2 - 9
           y2   == yoe2 + era2 * 400
<1>9. Cal!civil_from_days(days) =
        [year |-> IF m2 <= 2 THEN y2 + 1 ELSE y2, month |-> m2,
         day |-> doy2 - (153 * mp2 + 2) \div 5 + 1]
  BY SMT DEF Cal!civil_from_days, z
<1>10. era2 = era /\ doe2 = doe
  BY <1>6, <1>7
<1>11. yoe2 = yoe
  <2> HIDE DEF era2, doe2
  <2>1. yoe2 = YearOf(doe2)
    BY SMT DEF YearOf
  <2> HIDE DEF yoe2
  <2> QED BY <1>2, <1>10, <2>1
<1> HIDE DEF era2, doe2, yoe2
<1>12. doy2 = doy
  BY <1>8, <1>10, <1>11
<1> HIDE DEF doy2
<1> QED BY <1>9, <1>10, <1>11, <1>12, ZenonT(60) DEF DateAt, DateOf, MonthNo, MonthStart, days

LEMMA LeapYears ==
  ASSUME NEW era \in Int, NEW yoe \in Nat, yoe <= 399
  PROVE  Cal!is_leap_year(yoe + era * 400 + 1) <=> IsLong(yoe)
<1> DEFINE w == yoe + 1
           y == yoe + era * 400 + 1
<1>1. w \in Nat /\ w >= 1 /\ w <= 400 /\ y = 400 * era + w
  OBVIOUS
<1>2. IsLong(yoe) <=> w % 4 = 0 /\ (w % 100 # 0 \/ w = 400)
  BY DEF IsLong
<1>3. Cal!is_leap_year(y) <=> (y % 4 = 0 /\ y % 100 # 0) \/ y % 400 = 0
  BY DEF Cal!is_leap_year
<1> HIDE DEF w, y
<1>4. y % 4 = w % 4
  BY <1>1, SMT
<1>5. y % 100 = w % 100
  BY <1>1, SMT
<1>6. y % 400 = 0 <=> w = 400
  BY <1>1, SMT
<1>7. w = 400 => w % 4 = 0 /\ w % 100 = 0
  BY SMT
<1>8. Cal!is_leap_year(y) <=> IsLong(yoe)
  BY <1>2, <1>3, <1>4, <1>5, <1>6, <1>7
<1> QED BY <1>8 DEF y

LEMMA MonthDays ==
  ASSUME NEW mp \in 0..11, NEW y
  PROVE  /\ MonthNo(mp) \in 1..12 /\ (MonthNo(mp) <= 2 <=> mp >= 10)
         /\ mp # 11 => Cal!days_in_month(y, MonthNo(mp)) = MonthLen(mp)
         /\ mp = 11 => Cal!days_in_month(y, MonthNo(mp)) = IF Cal!is_leap_year(y) THEN 29 ELSE 28
<1>1. mp \in {0, 1, 2, 3, 4, 5, 6, 7, 8, 9, 10, 11}
  BY Twelve
<1>2. /\ MonthNo(mp) \in 1..12 /\ (MonthNo(mp) <= 2 <=> mp >= 10)
      /\ mp \in {1, 3, 6, 8} <=> MonthNo(mp) \in {4, 6, 9, 11}
      /\ mp \in {0, 2, 4, 5, 7, 9, 10} <=> MonthNo(mp) \in {1, 3, 5, 7, 8, 10, 12}
      /\ mp = 11 <=> MonthNo(mp) = 2
  BY <1>1, SMT DEF MonthNo
<1> DEFINE m == MonthNo(mp)
<1> HIDE DEF m
<1>3. /\ m \in {1, 3, 5, 7, 8, 10, 12} => Cal!days_in_month(y, m) = 31
      /\ m \in {4, 6, 9, 11} => Cal!days_in_month(y, m) = 30
      /\ m = 2 => Cal!days_in_month(y, m) = IF Cal!is_leap_year(y) THEN 29 ELSE 28
  BY SMT DEF Cal!days_in_month
<1>4. /\ mp \in {1, 3, 6, 8} => MonthLen(mp) = 30
      /\ mp \in {0, 2, 4, 5, 7, 9, 10} => MonthLen(mp) = 31
  BY MonthLens
<1>5. mp # 11 => mp \in {1, 3, 6, 8} \/ mp \in {0, 2, 4, 5, 7, 9, 10}
  BY <1>1
<1> QED BY <1>2, <1>3, <1>4, <1>5, Zenon DEF m

\* The day of a date, and of what would be one if its month were longer.
LEMMA DayOfDate ==
  ASSUME NEW era \in Int, NEW yoe \in Nat, yoe <= 399, NEW mp \in 0..11, NEW day \in Int
  PROVE  Cal!days_from_civil(DateOf(era, yoe, mp, day))
           = AtDay(era, yoe, MonthStart(mp) + day - 1)
<1> DEFINE m    == MonthNo(mp)
           y    == yoe + era * 400
           d    == DateOf(era, yoe, mp, day)
           y2   == IF d.month <= 2 THEN d.year - 1 ELSE d.year
           era2 == y2 \div 400
           mp2  == IF d.month > 2 THEN d.month - 3 ELSE d.month + 9
           doy2 == (153 * mp2 + 2) \div 5 + d.day - 1
<1>1. d.year = (IF m <= 2 THEN y + 1 ELSE y) /\ d.month = m /\ d.day = day
  BY DEF DateOf
<1> HIDE DEF d
<1>2. m \in 1..12 /\ (m <= 2 <=> mp >= 10) /\ y \in Int
  BY MonthDays
<1>3. Cal!days_from_civil(d) = era2 * 146097 + Cal!Years(y2 - era2 * 400) + doy2 - 719468
  BY SMT DEF Cal!days_from_civil
<1>4. y2 = y
  <2> HIDE DEF m
  <2> QED BY <1>1, <1>2, SMT
<1>5. mp2 = mp
  BY <1>1, <1>2, SMT DEF MonthNo
<1>6. doy2 = MonthStart(mp) + day - 1
  <2> HIDE DEF mp2
  <2> QED BY <1>1, <1>5 DEF MonthStart
<1>7. MonthStart(mp) \in Int
  BY SMT DEF MonthStart
<1> HIDE DEF y2, doy2
<1>8. era2 = era
  <2>1. 400 * era <= y /\ y < 400 * era + 400 /\ 400 \in Nat \ {0}
    BY SMT
  <2> QED BY <1>2, <1>4, <2>1, DivIs
<1>9. y2 - era2 * 400 = yoe
  <2> HIDE DEF era2
  <2> QED BY <1>4, <1>8, SMT
<1> HIDE DEF era2
<1>10. Cal!days_from_civil(d) = AtDay(era, yoe, MonthStart(mp) + day - 1)
  <2> DEFINE doy == MonthStart(mp) + day - 1
  <2>1. doy2 = doy /\ doy \in Int
    BY <1>6, <1>7
  <2> HIDE DEF doy
  <2>2. Cal!days_from_civil(d) = AtDay(era, yoe, doy)
    BY <1>3, <1>8, <1>9, <2>1, SMT DEF AtDay
  <2> QED BY <2>2 DEF doy
<1> QED BY <1>10 DEF d

\* What stands at a place is a date, whose day is the place's.
LEMMA PlaceIsDate ==
  ASSUME NEW era, NEW yoe, NEW doy, IsPlace(era, yoe, doy)
  PROVE  /\ IsDate(DateAt(era, yoe, doy))
         /\ Cal!days_from_civil(DateAt(era, yoe, doy)) = AtDay(era, yoe, doy)
<1> DEFINE mp  == (5 * doy + 2) \div 153
           day == doy - MonthStart(mp) + 1
           m   == MonthNo(mp)
           y   == yoe + era * 400
           year == IF m <= 2 THEN y + 1 ELSE y
           d   == DateAt(era, yoe, doy)
<1>1. era \in Int /\ yoe \in Nat /\ yoe <= 399 /\ doy \in Nat /\ doy <= 365
      /\ (doy = 365 => IsLong(yoe))
  BY DEF IsPlace, IsDayOf
<1>2. mp \in 0..11 /\ day \in Nat /\ day >= 1 /\ day <= MonthLen(mp)
      /\ (mp = 11 /\ day = 29 => doy = 365)
  BY <1>1, DayHasMonth
<1>3. d = [year |-> year, month |-> m, day |-> day] /\ d = DateOf(era, yoe, mp, day)
  BY Zenon DEF DateAt, DateOf
<1>4. d.year = year /\ d.month = m /\ d.day = day
  BY <1>3
<1>5. doy = MonthStart(mp) + day - 1 /\ MonthStart(mp) \in Int
  <2>1. MonthStart(mp) \in Int
    <3> HIDE DEF mp
    <3> QED BY <1>2, SMT DEF MonthStart
  <2> HIDE DEF mp
  <2> QED BY <1>1, <2>1 DEF day
<1> HIDE DEF mp, day, d
<1>6. m \in 1..12 /\ (m <= 2 <=> mp >= 10) /\ y \in Int
  BY <1>1, <1>2, MonthDays
<1>7. day <= Cal!days_in_month(year, m)
  <2>1. CASE mp = 11
    <3>1. year = y + 1
      BY <1>6, <2>1
    <3>2. Cal!is_leap_year(year) <=> IsLong(yoe)
      BY <1>1, <3>1, LeapYears
    <3> HIDE DEF m, year
    <3>3. Cal!days_in_month(year, m) = IF Cal!is_leap_year(year) THEN 29 ELSE 28
      BY <1>2, <2>1, MonthDays DEF m
    <3>4. day <= 29
      BY <1>2, <2>1, MonthLens
    <3> QED BY <1>1, <1>2, <2>1, <3>2, <3>3, <3>4
  <2>2. CASE mp # 11
    <3> HIDE DEF year
    <3>1. Cal!days_in_month(year, m) = MonthLen(mp)
      BY <1>2, <2>2, MonthDays
    <3> QED BY <1>2, <3>1
  <2> QED BY <2>1, <2>2
<1>8. year \in Int /\ Cal!days_in_month(year, m) \in Int
  <2>1. year \in Int
    BY <1>6
  <2> HIDE DEF year
  <2>2. Cal!days_in_month(year, m) \in {28, 29, 30, 31}
    BY <1>6, SMT DEF Cal!days_in_month
  <2> QED BY <2>1, <2>2
<1>9. IsDate(d)
  <2> HIDE DEF m, year
  <2> QED BY <1>2, <1>3, <1>4, <1>6, <1>7, <1>8, SMT DEF IsDate
<1>10. Cal!days_from_civil(d) = AtDay(era, yoe, doy)
  <2>1. Cal!days_from_civil(DateOf(era, yoe, mp, day)) = AtDay(era, yoe, MonthStart(mp) + day - 1)
    <3>1. day \in Int
      BY <1>2
    <3> QED BY <1>1, <1>2, <3>1, DayOfDate, Zenon
  <2> QED BY <1>3, <1>5, <2>1, Zenon
<1> QED BY <1>9, <1>10 DEF d

\* Every date stands at a place.
LEMMA DateHasPlace ==
  ASSUME NEW d, IsDate(d)
  PROVE  \E era, yoe, doy : IsPlace(era, yoe, doy) /\ d = DateAt(era, yoe, doy)
<1> DEFINE y   == IF d.month <= 2 THEN d.year - 1 ELSE d.year
           era == y \div 400
           yoe == y - era * 400
           mp  == IF d.month > 2 THEN d.month - 3 ELSE d.month + 9
           doy == MonthStart(mp) + d.day - 1
<1>1. /\ d = [year |-> d.year, month |-> d.month, day |-> d.day]
      /\ d.year \in Int /\ d.month \in 1..12 /\ d.day \in 1..Cal!days_in_month(d.year, d.month)
  BY DEF IsDate
<1>2. /\ y \in Int /\ d.year = (IF d.month <= 2 THEN y + 1 ELSE y)
      /\ mp \in 0..11 /\ MonthNo(mp) = d.month /\ (d.month <= 2 <=> mp >= 10)
  BY <1>1, SMT DEF MonthNo
<1> HIDE DEF y, mp
<1>3. era \in Int /\ yoe \in Nat /\ yoe <= 399 /\ yoe + era * 400 = y
  BY <1>2, SMT
<1> HIDE DEF era, yoe
<1>4. /\ d.day \in Nat /\ d.day >= 1 /\ d.day <= MonthLen(mp)
      /\ (mp = 11 /\ d.day = 29 => IsLong(yoe))
  <2>1. CASE mp = 11
    <3>1. d.year = yoe + era * 400 + 1
      BY <1>2, <1>3, <2>1
    <3>2. Cal!is_leap_year(d.year) <=> IsLong(yoe)
      <4>1. Cal!is_leap_year(yoe + era * 400 + 1) <=> IsLong(yoe)
        BY <1>3, LeapYears
      <4> QED BY <3>1, <4>1, Zenon
    <3>3. Cal!days_in_month(d.year, d.month) = IF Cal!is_leap_year(d.year) THEN 29 ELSE 28
      <4>1. \A x \in 0..11 : x = 11 => Cal!days_in_month(d.year, MonthNo(x))
                                      = IF Cal!is_leap_year(d.year) THEN 29 ELSE 28
        BY MonthDays, Zenon
      <4> QED BY <1>2, <2>1, <4>1, Zenon
    <3>4. d.day \in 1..29 /\ (d.day = 29 => IsLong(yoe))
      BY <1>1, <3>2, <3>3
    <3> QED BY <2>1, <3>4, MonthLens
  <2>2. CASE mp # 11
    <3>1. Cal!days_in_month(d.year, d.month) = MonthLen(mp)
      BY <1>2, <2>2, MonthDays
    <3>2. MonthLen(mp) \in Nat
      BY SMT DEF MonthLen
    <3>3. d.day \in 1..MonthLen(mp)
      BY <1>1, <3>1
    <3> QED BY <2>2, <3>2, <3>3
  <2> QED BY <2>1, <2>2
<1>5. /\ doy \in Nat /\ (5 * doy + 2) \div 153 = mp
      /\ doy <= 365 /\ (doy = 365 => mp = 11 /\ d.day = 29)
  BY <1>2, <1>4, MonthFound
<1>6. d.day = doy - MonthStart(mp) + 1
  <2>1. MonthStart(mp) \in Int
    BY <1>2, SMT DEF MonthStart
  <2> QED BY <1>4, <2>1
<1> HIDE DEF doy
<1>7. IsPlace(era, yoe, doy)
  <2>1. doy = 365 => IsLong(yoe)
    BY <1>4, <1>5
  <2>2. doy \in Nat /\ (doy <= 364 \/ doy = 365)
    BY <1>5
  <2> QED BY <1>3, <2>1, <2>2 DEF IsPlace, IsDayOf
<1>8. DateAt(era, yoe, doy) = [year |-> IF d.month <= 2 THEN y + 1 ELSE y, month |-> d.month,
                               day |-> d.day]
  <2> DEFINE mq == (5 * doy + 2) \div 153
  <2>1. DateAt(era, yoe, doy) =
          [year |-> IF MonthNo(mq) <= 2 THEN (yoe + era * 400) + 1 ELSE yoe + era * 400,
           month |-> MonthNo(mq), day |-> doy - MonthStart(mq) + 1]
    BY Zenon DEF DateAt, DateOf
  <2>2. mq = mp
    BY <1>5
  <2> HIDE DEF mq
  <2>3. MonthNo(mq) = d.month /\ MonthStart(mq) = MonthStart(mp)
    BY <1>2, <2>2, Zenon
  <2>4. doy - MonthStart(mq) + 1 = d.day /\ yoe + era * 400 = y
    BY <1>3, <1>6, <2>3, Zenon
  <2> QED BY <2>1, <2>3, <2>4, ZenonT(60)
<1>9. d = DateAt(era, yoe, doy)
  BY <1>1, <1>2, <1>8
<1> QED BY <1>7, <1>9

LEMMA DayHasPlace ==
  ASSUME NEW days \in Int
  PROVE  \E era, yoe, doy : IsPlace(era, yoe, doy) /\ days = AtDay(era, yoe, doy)
<1> DEFINE z   == days + 719468
           era == z \div 146097
           doe == z - era * 146097
<1>1. era \in Int /\ doe \in Nat /\ InEra(doe) /\ days = era * 146097 + doe - 719468
  BY SMT DEF InEra
<1> HIDE DEF doe, era
<1>2. PICK yoe \in Nat : yoe <= 399 /\ IsDayOf(yoe, doe - Cal!Years(yoe))
  BY <1>1, DayHasYear
<1> DEFINE doy == doe - Cal!Years(yoe)
<1>3. IsPlace(era, yoe, doy)
  BY <1>1, <1>2 DEF IsPlace
<1>4. days = AtDay(era, yoe, doy)
  <2>1. Cal!Years(yoe) \in Int
    BY SMT DEF Cal!Years
  <2>2. doe = Cal!Years(yoe) + doy /\ doy \in Int
    BY <1>1, <2>1
  <2> HIDE DEF doy
  <2> QED BY <1>1, <2>1, <2>2, SMT DEF AtDay
<1> QED BY <1>3, <1>4

\* Dates and days are in one-to-one correspondence: a date is found from its day, and
\* a day from its date (time.rs:270, :281).
THEOREM DatesReadBack ==
  /\ \A d : IsDate(d) => /\ Cal!days_from_civil(d) \in Int
                         /\ Cal!civil_from_days(Cal!days_from_civil(d)) = d
  /\ \A days \in Int : /\ IsDate(Cal!civil_from_days(days))
                       /\ Cal!days_from_civil(Cal!civil_from_days(days)) = days
<1>1. ASSUME NEW d, IsDate(d)
      PROVE  /\ Cal!days_from_civil(d) \in Int
             /\ Cal!civil_from_days(Cal!days_from_civil(d)) = d
  <2>1. PICK era, yoe, doy : IsPlace(era, yoe, doy) /\ d = DateAt(era, yoe, doy)
    BY <1>1, DateHasPlace
  <2>2. Cal!days_from_civil(d) = AtDay(era, yoe, doy)
    BY <2>1, PlaceIsDate
  <2>3. AtDay(era, yoe, doy) \in Int
    BY <2>1, SMT DEF IsPlace, IsDayOf, AtDay, Cal!Years
  <2> QED BY <2>1, <2>2, <2>3, CivilIs
<1>2. ASSUME NEW days \in Int
      PROVE  /\ IsDate(Cal!civil_from_days(days))
             /\ Cal!days_from_civil(Cal!civil_from_days(days)) = days
  <2>1. PICK era, yoe, doy : IsPlace(era, yoe, doy) /\ days = AtDay(era, yoe, doy)
    BY DayHasPlace
  <2> QED BY <2>1, PlaceIsDate, CivilIs
<1> QED BY <1>1, <1>2

-----------------------------------------------------------------------------
(* The day after.                                                          *)

\* The day after the last of a year is the first of the next.
LEMMA YearStep ==
  ASSUME NEW era \in Int, NEW yoe \in Nat, yoe <= 399
  PROVE  LET next == yoe + era * 400 + 1
             days == IF IsLong(yoe) THEN 366 ELSE 365
             era2 == IF yoe = 399 THEN era + 1 ELSE era
             yoe2 == IF yoe = 399 THEN 0 ELSE yoe + 1
         IN  /\ era2 \in Int /\ yoe2 \in Nat /\ yoe2 <= 399 /\ yoe2 + era2 * 400 = next
             /\ AtDay(era, yoe, days) = AtDay(era2, yoe2, 0)
<1> DEFINE next == yoe + era * 400 + 1
           days == IF IsLong(yoe) THEN 366 ELSE 365
           era2 == IF yoe = 399 THEN era + 1 ELSE era
           yoe2 == IF yoe = 399 THEN 0 ELSE yoe + 1
<1>1. /\ era2 \in Int /\ yoe2 \in Nat /\ yoe2 <= 399 /\ yoe2 + era2 * 400 = next
  BY SMT
<1>2. AtDay(era, yoe, days) = AtDay(era2, yoe2, 0)
  <2>1. PICK c \in 0..3, q \in Nat, r \in 0..3 : AreParts(yoe, c, q, r)
    BY YearParts
  <2>2. /\ q <= 24 /\ yoe = 100 * c + 4 * q + r
        /\ yoe \div 4 = 25 * c + q /\ yoe \div 100 = c
        /\ IsLong(yoe) <=> r = 3 /\ (q = 24 => c = 3)
    BY <2>1 DEF AreParts
  <2>3. Cal!Years(yoe) = 365 * yoe + 25 * c + q - c
    BY <2>2, SMT DEF Cal!Years
  <2>4. CASE yoe = 399
    <3>1. c = 3 /\ q = 24 /\ r = 3
      BY <2>2, <2>4, SMT
    <3>2. days = 366 /\ era2 = era + 1 /\ yoe2 = 0
      BY <2>2, <2>4, <3>1
    <3>3. Cal!Years(0) = 0 /\ Cal!Years(yoe) = 145731
      BY <2>3, <2>4, <3>1, SMT DEF Cal!Years
    <3> HIDE DEF days, era2, yoe2
    <3> QED BY <3>2, <3>3, SMT DEF AtDay
  <2>5. CASE yoe # 399
    <3>1. era2 = era /\ yoe2 = yoe + 1
      BY <2>5
    <3>2. Cal!Years(yoe + 1) = 365 * (yoe + 1) + (yoe + 1) \div 4 - (yoe + 1) \div 100
      BY DEF Cal!Years
    <3>3. CASE r # 3
      <4>1. (yoe + 1) \div 4 = 25 * c + q /\ (yoe + 1) \div 100 = c
        BY <2>2, <3>3, SMT
      <4>2. days = 365
        BY <2>2, <3>3
      <4> HIDE DEF days, era2, yoe2
      <4> QED BY <2>3, <3>1, <3>2, <4>1, <4>2, SMT DEF AtDay
    <3>4. CASE r = 3 /\ q # 24
      <4>1. (yoe + 1) \div 4 = 25 * c + q + 1 /\ (yoe + 1) \div 100 = c
        BY <2>2, <3>4, SMT
      <4>2. days = 366
        BY <2>2, <3>4
      <4> HIDE DEF days, era2, yoe2
      <4> QED BY <2>3, <3>1, <3>2, <4>1, <4>2, SMT DEF AtDay
    <3>5. CASE r = 3 /\ q = 24
      <4>1. c # 3
        BY <2>2, <2>5, <3>5, SMT
      <4>2. (yoe + 1) \div 4 = 25 * c + q + 1 /\ (yoe + 1) \div 100 = c + 1
        BY <2>2, <3>5, SMT
      <4>3. days = 365
        BY <2>2, <3>5, <4>1
      <4> HIDE DEF days, era2, yoe2
      <4> QED BY <2>3, <3>1, <3>2, <3>5, <4>2, <4>3, SMT DEF AtDay
    <3> QED BY <3>3, <3>4, <3>5
  <2> QED BY <2>4, <2>5
<1> QED BY <1>1, <1>2

\* Months follow each other; the last of them ends the year.
LEMMA MonthStep ==
  ASSUME NEW mp \in 0..11, mp # 11
  PROVE  /\ MonthStart(mp) + MonthLen(mp) = MonthStart(mp + 1)
         /\ MonthNo(mp + 1) = IF MonthNo(mp) = 12 THEN 1 ELSE MonthNo(mp) + 1
<1>1. mp \in {0, 1, 2, 3, 4, 5, 6, 7, 8, 9, 10}
  BY Twelve
<1>2. MonthNo(mp + 1) = IF MonthNo(mp) = 12 THEN 1 ELSE MonthNo(mp) + 1
  BY <1>1, SMT DEF MonthNo
<1>3. MonthStart(mp) + MonthLen(mp) = MonthStart(mp + 1)
  <2>1. CASE mp = 0
    BY <2>1, MonthStarts, MonthLens
  <2>2. CASE mp = 1
    BY <2>2, MonthStarts, MonthLens
  <2>3. CASE mp = 2
    BY <2>3, MonthStarts, MonthLens
  <2>4. CASE mp = 3
    BY <2>4, MonthStarts, MonthLens
  <2>5. CASE mp = 4
    BY <2>5, MonthStarts, MonthLens
  <2>6. CASE mp = 5
    BY <2>6, MonthStarts, MonthLens
  <2>7. CASE mp = 6
    BY <2>7, MonthStarts, MonthLens
  <2>8. CASE mp = 7
    BY <2>8, MonthStarts, MonthLens
  <2>9. CASE mp = 8
    BY <2>9, MonthStarts, MonthLens
  <2>10. CASE mp = 9
    BY <2>10, MonthStarts, MonthLens
  <2>11. CASE mp = 10
    BY <2>11, MonthStarts, MonthLens
  <2> QED BY <1>1, <2>1, <2>2, <2>3, <2>4, <2>5, <2>6, <2>7, <2>8, <2>9, <2>10, <2>11
<1> QED BY <1>2, <1>3

\* The date after a date is the date of the day after (time.rs:271).
LEMMA NextDateIs ==
  ASSUME NEW d, IsDate(d)
  PROVE  /\ IsDate(NextDate(d))
         /\ Cal!days_from_civil(NextDate(d)) = Cal!days_from_civil(d) + 1
<1> DEFINE dim == Cal!days_in_month(d.year, d.month)
           next == NextDate(d)
<1>1. /\ d = [year |-> d.year, month |-> d.month, day |-> d.day]
      /\ d.year \in Int /\ d.month \in 1..12 /\ d.day \in 1..dim
  BY DEF IsDate
<1>2. PICK era \in Int, yoe \in Nat, mp \in 0..11 :
        yoe <= 399 /\ d = DateOf(era, yoe, mp, d.day)
  <2>1. PICK era, yoe, doy : IsPlace(era, yoe, doy) /\ d = DateAt(era, yoe, doy)
    BY DateHasPlace
  <2> DEFINE mp == (5 * doy + 2) \div 153
             day == doy - MonthStart(mp) + 1
  <2>2. era \in Int /\ yoe \in Nat /\ yoe <= 399 /\ doy \in Nat /\ doy <= 365
    BY <2>1 DEF IsPlace, IsDayOf
  <2>3. mp \in 0..11
    BY <2>2, DayHasMonth
  <2>4. d = DateOf(era, yoe, mp, day)
    BY <2>1 DEF DateAt
  <2>5. d.day = day
    BY <2>4 DEF DateOf
  <2> HIDE DEF mp, day
  <2>6. d = DateOf(era, yoe, mp, d.day)
    BY <2>4, <2>5
  <2> QED BY <2>2, <2>3, <2>6
<1> DEFINE y == yoe + era * 400
<1>3. d.month = MonthNo(mp) /\ d.year = (IF MonthNo(mp) <= 2 THEN y + 1 ELSE y)
  BY <1>2 DEF DateOf
<1>4. /\ y \in Int /\ (d.month <= 2 <=> mp >= 10)
      /\ (mp # 11 => dim = MonthLen(mp))
      /\ (mp = 11 => dim = IF Cal!is_leap_year(d.year) THEN 29 ELSE 28)
  <2>1. /\ MonthNo(mp) <= 2 <=> mp >= 10
        /\ mp # 11 => Cal!days_in_month(d.year, MonthNo(mp)) = MonthLen(mp)
        /\ mp = 11 => Cal!days_in_month(d.year, MonthNo(mp)) =
                        IF Cal!is_leap_year(d.year) THEN 29 ELSE 28
    BY MonthDays
  <2>2. MonthNo(mp) = d.month
    BY <1>3
  <2>3. y \in Int
    BY <1>2
  <2> QED BY <2>1, <2>2, <2>3, Zenon
<1>5. dim \in Nat /\ dim >= 28 /\ d.day \in Int
  <2>1. MonthLen(mp) \in {29, 30, 31}
    BY SMT DEF MonthLen
  <2>2. dim \in {28, 29, 30, 31}
    BY <1>4, <2>1
  <2> HIDE DEF dim
  <2> QED BY <1>1, <2>2
<1>6. Cal!days_from_civil(d) = AtDay(era, yoe, MonthStart(mp) + d.day - 1)
  <2>1. Cal!days_from_civil(DateOf(era, yoe, mp, d.day))
          = AtDay(era, yoe, MonthStart(mp) + d.day - 1)
    BY <1>2, <1>5, DayOfDate
  <2> QED BY <1>2, <2>1, Zenon
<1>7. MonthStart(mp) \in Int /\ Cal!Years(yoe) \in Int
  BY SMT DEF MonthStart, Cal!Years
<1>8. CASE d.day < dim
  <2>1. next = [year |-> d.year, month |-> d.month, day |-> d.day + 1]
    <3>1. next = [d EXCEPT !.day = @ + 1]
      <4>1. d.day # dim
        <5> HIDE DEF dim
        <5> QED BY <1>5, <1>8
      <4> QED BY <1>8, <4>1, Zenon DEF NextDate
    <3> HIDE DEF next
    <3> QED BY <1>1, <3>1
  <2>2. next = DateOf(era, yoe, mp, d.day + 1)
    <3> HIDE DEF next
    <3> QED BY <1>3, <2>1, Zenon DEF DateOf
  <2> HIDE DEF next
  <2>3. Cal!days_from_civil(next) = AtDay(era, yoe, MonthStart(mp) + (d.day + 1) - 1)
    <3>1. Cal!days_from_civil(DateOf(era, yoe, mp, d.day + 1))
            = AtDay(era, yoe, MonthStart(mp) + (d.day + 1) - 1)
      <4>1. d.day + 1 \in Int
        BY <1>5
      <4> QED BY <1>2, <4>1, DayOfDate, Zenon
    <3> QED BY <2>2, <3>1, Zenon
  <2>4. Cal!days_from_civil(next) = Cal!days_from_civil(d) + 1
    BY <1>2, <1>5, <1>6, <1>7, <2>3, SMT DEF AtDay
  <2>5. IsDate(next)
    <3>1. next.year = d.year /\ next.month = d.month /\ next.day = d.day + 1
      BY <2>1
    <3>2. d.day + 1 \in 1..dim
      <4> HIDE DEF dim
      <4> QED BY <1>1, <1>5, <1>8
    <3> QED BY <1>1, <2>1, <3>1, <3>2, Zenon DEF IsDate
  <2> QED BY <2>4, <2>5 DEF next
<1>9. CASE d.day = dim /\ mp # 11
  <2> DEFINE m2 == IF MonthNo(mp) = 12 THEN 1 ELSE MonthNo(mp) + 1
  <2>1. mp + 1 \in 0..11 /\ MonthNo(mp + 1) = m2
        /\ MonthStart(mp) + MonthLen(mp) = MonthStart(mp + 1)
    BY <1>2, <1>9, MonthStep
  <2>2. next = DateOf(era, yoe, mp + 1, 1)
    <3>1. CASE d.month < 12
      <4>1. next = [d EXCEPT !.day = 1, !.month = @ + 1]
        <5> HIDE DEF dim
        <5>1. ~(d.day < dim)
          BY <1>5, <1>9
        <5> QED BY <1>9, <3>1, <5>1, Zenon DEF NextDate, dim
      <4> HIDE DEF next
      <4>2. next = [year |-> d.year, month |-> d.month + 1, day |-> 1]
        BY <1>1, <4>1
      <4>3. MonthNo(mp + 1) = d.month + 1
        BY <1>3, <2>1, <3>1
      <4>4. d.year = IF d.month + 1 <= 2 THEN y + 1 ELSE y
        <5>1. d.month + 1 <= 2 <=> d.month <= 2
          <6>1. mp # 11 /\ d.month = (IF mp < 10 THEN mp + 3 ELSE mp - 9)
            BY <1>3, <1>9 DEF MonthNo
          <6> QED BY <1>2, <3>1, <6>1, SMT
        <5> QED BY <1>3, <5>1, ZenonT(60)
      <4> QED BY <4>2, <4>3, <4>4, ZenonT(60) DEF DateOf
    <3>2. CASE d.month = 12
      <4>1. mp = 9
        BY <1>2, <1>3, <3>2, SMT DEF MonthNo
      <4>2. d.year = y /\ m2 = 1
        BY <1>2, <1>3, <1>4, <3>2, <4>1
      <4>3. next = [year |-> d.year + 1, month |-> 1, day |-> 1]
        <5> HIDE DEF dim
        <5>1. ~(d.day < dim) /\ ~(d.month < 12)
          BY <1>5, <1>9, <3>2
        <5> QED BY <5>1, Zenon DEF NextDate, dim
      <4> HIDE DEF next
      <4>4. MonthNo(mp + 1) = 1
        BY <2>1, <4>2
      <4> QED BY <4>2, <4>3, <4>4 DEF DateOf
    <3> QED BY <1>1, <3>1, <3>2
  <2> HIDE DEF next
  <2>3. Cal!days_from_civil(next) = AtDay(era, yoe, MonthStart(mp + 1) + 1 - 1)
    <3>1. Cal!days_from_civil(DateOf(era, yoe, mp + 1, 1))
            = AtDay(era, yoe, MonthStart(mp + 1) + 1 - 1)
      <4>1. 1 \in Int
        OBVIOUS
      <4> QED BY <1>2, <2>1, <4>1, DayOfDate, Zenon
    <3> QED BY <2>2, <3>1, Zenon
  <2>4. dim = MonthLen(mp)
    BY <1>4, <1>9
  <2>5. MonthStart(mp + 1) + 1 - 1 = (MonthStart(mp) + d.day - 1) + 1
    <3> HIDE DEF dim
    <3> QED BY <1>5, <1>7, <1>9, <2>1, <2>4
  <2>6. Cal!days_from_civil(next) = Cal!days_from_civil(d) + 1
    BY <1>2, <1>5, <1>6, <1>7, <2>3, <2>5, SMT DEF AtDay
  <2>7. IsDate(next)
    <3>1. next.day = 1 /\ next.month = MonthNo(mp + 1)
          /\ next.year = (IF MonthNo(mp + 1) <= 2 THEN y + 1 ELSE y)
          /\ next = [year |-> next.year, month |-> next.month, day |-> next.day]
      BY <2>2 DEF DateOf
    <3>2. next.month \in 1..12 /\ next.year \in Int
      <4>1. MonthNo(mp + 1) \in 1..12
        BY <2>1, MonthDays
      <4> QED BY <1>4, <3>1, <4>1
    <3>3. Cal!days_in_month(next.year, next.month) \in {28, 29, 30, 31}
      BY <3>2, SMT DEF Cal!days_in_month
    <3> QED BY <3>1, <3>2, <3>3 DEF IsDate
  <2> QED BY <2>6, <2>7 DEF next
<1>10. CASE d.day = dim /\ mp = 11
  <2> DEFINE days == IF IsLong(yoe) THEN 366 ELSE 365
             era2 == IF yoe = 399 THEN era + 1 ELSE era
             yoe2 == IF yoe = 399 THEN 0 ELSE yoe + 1
  <2>1. /\ era2 \in Int /\ yoe2 \in Nat /\ yoe2 <= 399 /\ yoe2 + era2 * 400 = y + 1
        /\ AtDay(era, yoe, days) = AtDay(era2, yoe2, 0)
    BY <1>2, YearStep
  <2>2. d.month = 2 /\ d.year = y + 1
    BY <1>3, <1>10, SMT DEF MonthNo
  <2>3. MonthStart(11) + d.day = days /\ 0 + 1 - 1 = 0
    <3>1. Cal!is_leap_year(y + 1) <=> IsLong(yoe)
      BY <1>2, LeapYears, ZenonT(60)
    <3>2. d.day = IF IsLong(yoe) THEN 29 ELSE 28
      BY <1>4, <1>10, <2>2, <3>1
    <3> QED BY <3>2, MonthStarts
  <2> HIDE DEF days, era2, yoe2
  <2>4. next = DateOf(era2, yoe2, 0, 1)
    <3>1. next = [d EXCEPT !.day = 1, !.month = @ + 1]
      <4> HIDE DEF dim
      <4>1. ~(d.day < dim) /\ d.month < 12
        BY <1>5, <1>10, <2>2
      <4> QED BY <1>10, <4>1, Zenon DEF NextDate, dim
    <3> HIDE DEF next
    <3>2. next = [year |-> y + 1, month |-> 3, day |-> 1]
      <4>1. next = [year |-> d.year, month |-> d.month + 1, day |-> 1]
        BY <1>1, <3>1
      <4>2. d.month + 1 = 3
        BY <2>2
      <4> QED BY <2>2, <4>1, <4>2, Zenon
    <3>3. MonthNo(0) = 3
      BY DEF MonthNo
    <3> QED BY <2>1, <3>2, <3>3 DEF DateOf
  <2> HIDE DEF next
  <2>5. Cal!days_from_civil(next) = AtDay(era2, yoe2, MonthStart(0) + 1 - 1)
    BY <2>1, <2>4, DayOfDate
  <2>6. MonthStart(0) + 1 - 1 = 0
    BY MonthStarts
  <2>7. Cal!days_from_civil(next) = AtDay(era, yoe, MonthStart(11) + d.day)
    BY <2>1, <2>3, <2>5, <2>6, Zenon
  <2>8. Cal!days_from_civil(next) = Cal!days_from_civil(d) + 1
    <3>1. Cal!days_from_civil(d) = AtDay(era, yoe, MonthStart(11) + d.day - 1)
      BY <1>6, <1>10, Zenon
    <3> QED BY <1>2, <1>5, <1>7, <1>10, <2>7, <3>1, SMT DEF AtDay
  <2>9. IsDate(next)
    <3>1. next = [year |-> y + 1, month |-> 3, day |-> 1]
      BY <2>1, <2>4 DEF DateOf, MonthNo
    <3>2. Cal!days_in_month(y + 1, 3) = 31
      BY DEF Cal!days_in_month
    <3> QED BY <1>4, <3>1, <3>2 DEF IsDate
  <2> QED BY <2>8, <2>9 DEF next
<1>11. d.day < dim \/ d.day = dim
  <2> HIDE DEF dim
  <2> QED BY <1>1, <1>5
<1> QED BY <1>8, <1>9, <1>10, <1>11

-----------------------------------------------------------------------------
(* Instants.                                                               *)

InDay(sec) == sec \in Nat /\ sec < Cal!DayLength

\* A fraction without its trailing zeros is still that fraction.
LEMMA FractionKeepsValue ==
  ASSUME NEW nanos \in Nat
  PROVE  /\ Cal!Fraction(nanos).value * Cal!TenTo(9 - Cal!Fraction(nanos).width) = nanos
         /\ Cal!Fraction(nanos).width \in 0..9
<1> DEFINE Shown(w) == /\ nanos % Cal!TenTo(9 - w) = 0
                       /\ \A v \in 0..w-1 : nanos % Cal!TenTo(9 - v) # 0
           width == CHOOSE w \in 0..9 : Shown(w)
           unit  == Cal!TenTo(9 - width)
           Ws    == {w \in 0..9 : nanos % Cal!TenTo(9 - w) = 0}
<1>1. 9 \in Ws
  <2>1. Cal!TenTo(9 - 9) = 1
    BY SMT DEF Cal!TenTo
  <2> QED BY <2>1, SMT
<1>2. PICK least \in Ws : \A w \in Ws : least <= w
  <2> HIDE DEF Ws
  <2>1. Ws \subseteq Nat
    BY DEF Ws
  <2> QED BY <1>1, <2>1, LeastElement
<1>3. least \in 0..9 /\ Shown(least)
  <2>1. least \in 0..9 /\ nanos % Cal!TenTo(9 - least) = 0
    BY Zenon
  <2>2. ASSUME NEW v \in 0..least-1, nanos % Cal!TenTo(9 - v) = 0 PROVE FALSE
    <3>1. v \in 0..9 /\ v < least /\ v \in Int /\ least \in Int
      BY <2>1
    <3>2. v \in Ws
      BY <2>2, <3>1, Zenon
    <3> HIDE DEF Ws
    <3> QED BY <1>2, <3>1, <3>2
  <2> QED BY <2>1, <2>2, Zenon
<1>4. width \in 0..9 /\ Shown(width)
  <2> HIDE DEF Shown
  <2> QED BY <1>3, Zenon
<1>5. unit \in Nat \ {0}
  <2>1. \A w \in 0..9 : Cal!TenTo(9 - w) \in Nat \ {0}
    BY SMT DEF Cal!TenTo
  <2> HIDE DEF width
  <2> QED BY <1>4, <2>1, Zenon
<1>6. nanos % unit = 0
  <2> HIDE DEF width
  <2> QED BY <1>4, Zenon
<1>7. Cal!Fraction(nanos) = [width |-> width, value |-> nanos \div unit]
  BY Zenon DEF Cal!Fraction
<1>8. Cal!Fraction(nanos).width = width /\ Cal!Fraction(nanos).value = nanos \div unit
  <2> HIDE DEF width, unit
  <2> QED BY <1>7
<1> HIDE DEF width
<1>9. (nanos \div unit) * unit = nanos
  <2> HIDE DEF unit
  <2> QED BY <1>5, <1>6
<1> QED BY <1>4, <1>8, <1>9, Zenon

\* An instant is read back from its text, and from the text a clock of another zone
\* shows for it, when the year in it has four digits, and refused otherwise.
LEMMA WrittenIsRead ==
  ASSUME NEW day \in Int, NEW sec, InDay(sec), NEW nanos \in Nat, NEW zone \in Int, Cal!Zone(zone)
  PROVE  LET local == Cal!At(day, sec + zone, nanos)
             text  == Cal!Written(local, zone)
         IN  Cal!parse_timestamp(text) =
               IF Cal!FourDigits(text.date.year) THEN Cal!Instant(day, sec, nanos) ELSE Invalid
<1> DEFINE local == Cal!At(day, sec + zone, nanos)
           text  == Cal!Written(local, zone)
           q     == (sec + zone) \div Cal!DayLength
           s     == (sec + zone) % Cal!DayLength
<1>1. local.day = day + q /\ local.sec = s /\ local.nanos = nanos
  BY SMT DEF Cal!At, Cal!Instant
<1>2. q \in Int /\ InDay(s) /\ InDay(sec) /\ sec + zone = Cal!DayLength * q + s
  BY SMT DEF InDay, Cal!DayLength
<1> HIDE DEF local, q, s
<1>3. /\ text.date = Cal!civil_from_days(day + q) /\ text.hour = s \div 3600
      /\ text.min = (s % 3600) \div 60 /\ text.sec = s % 60
      /\ text.frac = Cal!Fraction(nanos) /\ text.zone = zone
  BY <1>1, SMT DEF Cal!Written
<1> HIDE DEF text
<1>4. IsDate(text.date) /\ Cal!days_from_civil(text.date) = day + q
  BY <1>2, <1>3, DatesReadBack
<1>5. /\ text.hour <= 23 /\ text.min <= 59 /\ text.sec <= 59
      /\ text.hour * 3600 + text.min * 60 + text.sec - text.zone = s - zone
  <2>1. s \in Nat /\ s < 86400
    BY <1>2, SMT DEF InDay, Cal!DayLength
  <2> QED BY <1>3, <2>1, SMT
<1>6. text.frac.value * Cal!TenTo(9 - text.frac.width) = nanos
  <2>1. Cal!Fraction(nanos).value * Cal!TenTo(9 - Cal!Fraction(nanos).width) = nanos
    BY FractionKeepsValue
  <2>2. text.frac = Cal!Fraction(nanos)
    BY <1>3
  <2> QED BY <2>1, <2>2, Zenon
<1>7. Cal!At(day + q, s - zone, nanos) = Cal!Instant(day, sec, nanos)
  <2>0. q \in Int /\ s \in Nat /\ sec \in Nat /\ sec < 86400 /\ s < 86400
        /\ s - zone = 86400 * (0 - q) + sec
    BY <1>2, SMT DEF InDay, Cal!DayLength
  <2>1. (s - zone) \div 86400 = 0 - q /\ (s - zone) % 86400 = sec
    BY <2>0, SMT
  <2>2. (s - zone) \div Cal!DayLength = 0 - q /\ (s - zone) % Cal!DayLength = sec
    BY <2>1, SMT DEF Cal!DayLength
  <2>3. day + q + (0 - q) = day
    BY <2>0, SMT
  <2> HIDE <2>0, <2>1
  <2> QED BY <2>2, <2>3, Zenon DEF Cal!At
<1>8. Cal!parse_timestamp(text) =
        IF Cal!FourDigits(text.date.year)
          THEN Cal!At(day + q, s - zone, nanos) ELSE Invalid
  <2>1. Cal!parse_timestamp(text) =
          IF /\ Cal!FourDigits(text.date.year) /\ text.date.month \in 1..12
             /\ text.date.day \in 1..Cal!days_in_month(text.date.year, text.date.month)
             /\ text.hour <= 23 /\ text.min <= 59 /\ text.sec <= 59 /\ Cal!Zone(text.zone)
            THEN Cal!At(Cal!days_from_civil(text.date),
                        text.hour * 3600 + text.min * 60 + text.sec - text.zone,
                        text.frac.value * Cal!TenTo(9 - text.frac.width))
            ELSE Invalid
    BY SMT DEF Cal!parse_timestamp
  <2>2. /\ text.date.month \in 1..12
        /\ text.date.day \in 1..Cal!days_in_month(text.date.year, text.date.month)
    BY <1>4, SMT DEF IsDate
  <2>3. Cal!Zone(text.zone)
    <3>1. text.zone = zone
      BY <1>3
    <3> QED BY ONLY <3>1, Cal!Zone(zone), Zenon
  <2> QED BY <1>4, <1>5, <1>6, <2>1, <2>2, <2>3, SMT
<1> QED BY <1>7, <1>8, Zenon DEF local, text

\* What a text says of an instant is what is recorded in it: dates follow each other
\* as they do in the calendar, and an instant reads back from its UTC text, and from
\* the text in any zone (of whole minutes, less than a day away), when its year there
\* has four digits, and is refused else (time.rs:58, :148).
THEOREM InstantsReadBack ==
  ASSUME NEW day \in Int, NEW sec, InDay(sec), NEW nanos \in Nat, nanos < Cal!TenTo(9),
         NEW zone \in Int, Cal!Zone(zone)
  PROVE  LET t     == Cal!Instant(day, sec, nanos)
             local == [Cal!display_timestamp(Cal!At(t.day, t.sec + zone, t.nanos))
                         EXCEPT !.zone = zone]
         IN  /\ Cal!civil_from_days(t.day + 1) = NextDate(Cal!civil_from_days(t.day))
             /\ \A text \in {Cal!display_timestamp(t), local} :
                  Cal!parse_timestamp(text) =
                    IF Cal!FourDigits(text.date.year) THEN t ELSE Invalid
<1> DEFINE t     == Cal!Instant(day, sec, nanos)
           there == Cal!At(t.day, t.sec + zone, t.nanos)
           local == [Cal!display_timestamp(there) EXCEPT !.zone = zone]
<1>1. t.day = day /\ t.sec = sec /\ t.nanos = nanos
  BY DEF Cal!Instant
<1>2. Cal!civil_from_days(day + 1) = NextDate(Cal!civil_from_days(day))
  <2> DEFINE d == Cal!civil_from_days(day)
  <2>1. IsDate(d) /\ Cal!days_from_civil(d) = day
    BY DatesReadBack
  <2> HIDE DEF d
  <2>2. IsDate(NextDate(d)) /\ Cal!days_from_civil(NextDate(d)) = day + 1
    BY <2>1, NextDateIs
  <2>3. Cal!civil_from_days(Cal!days_from_civil(NextDate(d))) = NextDate(d)
    BY <2>2, DatesReadBack
  <2> QED BY <2>2, <2>3, Zenon DEF d
<1>3. Cal!display_timestamp(t) = Cal!Written(Cal!At(day, sec + 0, nanos), 0)
  <2>1. /\ sec \div Cal!DayLength = 0 /\ sec % Cal!DayLength = sec
        /\ sec + 0 = sec /\ day + 0 = day
    BY SMT DEF InDay, Cal!DayLength
  <2>2. Cal!At(day, sec + 0, nanos) = t
    BY <2>1, Zenon DEF Cal!At
  <2> QED BY <2>2, Zenon DEF Cal!display_timestamp
<1>4. local = Cal!Written(Cal!At(day, sec + zone, nanos), zone)
  <2>1. there = Cal!At(day, sec + zone, nanos)
    BY <1>1, Zenon
  <2> HIDE DEF t, there
  <2>2. local = Cal!Written(there, zone)
    BY SMT DEF Cal!display_timestamp, Cal!Written
  <2> QED BY <2>1, <2>2, Zenon
<1> HIDE DEF local
<1>5. Cal!parse_timestamp(local) = IF Cal!FourDigits(local.date.year) THEN t ELSE Invalid
  BY <1>4, WrittenIsRead, Zenon
<1>6. Cal!parse_timestamp(Cal!display_timestamp(t)) =
        IF Cal!FourDigits(Cal!display_timestamp(t).date.year) THEN t ELSE Invalid
  <2>1. 0 \in Int /\ Cal!Zone(0)
    BY SMT DEF Cal!Zone, Cal!DayLength
  <2> DEFINE text == Cal!Written(Cal!At(day, sec + 0, nanos), 0)
  <2>2. Cal!parse_timestamp(text) =
          IF Cal!FourDigits(text.date.year) THEN Cal!Instant(day, sec, nanos) ELSE Invalid
    BY <2>1, WrittenIsRead, Zenon
  <2> HIDE DEF text
  <2>3. Cal!display_timestamp(t) = text
    BY <1>3 DEF text
  <2> QED BY <2>2, <2>3, Zenon
<1> QED BY <1>1, <1>2, <1>5, <1>6, Zenon DEF local

-----------------------------------------------------------------------------
(* Identifiers.                                                            *)

OneWord(value) == value = None \/ value = <<value[1]>>

\* What stands behind the first h parts of a text that carries a lot and a serial.
EndsWith(text, h, lot, serial) ==
  /\ lot = None /\ serial = None => Len(text) = h
  /\ lot # None /\ serial = None => Len(text) = h + 2 /\ text[h+1] = <<"10">> /\ text[h+2] = lot
  /\ lot = None /\ serial # None => Len(text) = h + 2 /\ text[h+1] = <<"21">> /\ text[h+2] = serial
  /\ lot # None /\ serial # None => /\ Len(text) = h + 4
                                    /\ text[h+1] = <<"10">> /\ text[h+2] = lot
                                    /\ text[h+3] = <<"21">> /\ text[h+4] = serial

LEMMA SmallSeqs ==
  ASSUME NEW S, NEW a \in S, NEW b \in S
  PROVE  << >> \in Seq(S) /\ <<a>> \in Seq(S) /\ <<a, b>> \in Seq(S)
OBVIOUS

IsConcat(u, s, t) ==
  /\ Len(u) = Len(s) + Len(t)
  /\ \A i \in 1..Len(s) : u[i] = s[i]
  /\ \A i \in 1..Len(t) : u[Len(s) + i] = t[i]

LEMMA ConcatIs ==
  ASSUME NEW S, NEW s \in Seq(S), NEW t \in Seq(S)
  PROVE  s \o t \in Seq(S) /\ IsConcat(s \o t, s, t)
BY DEF IsConcat

LEMMA TwoParts ==
  ASSUME NEW a, NEW b
  PROVE  <<a>> \o <<b>> = <<a, b>>
<1> DEFINE S == {a, b}
           s == <<a>>
           t == <<b>>
           u == <<a, b>>
<1>1. a \in S /\ b \in S
  OBVIOUS
<1> HIDE DEF S
<1>2. s \in Seq(S) /\ t \in Seq(S) /\ u \in Seq(S)
  BY <1>1, SmallSeqs, Zenon
<1>3. Len(s) = 1 /\ s[1] = a /\ Len(t) = 1 /\ t[1] = b /\ Len(u) = 2 /\ u[1] = a /\ u[2] = b
  OBVIOUS
<1> HIDE DEF s, t, u
<1>4. s \o t \in Seq(S) /\ Len(s \o t) = 2 /\ (s \o t)[1] = a /\ (s \o t)[2] = b
  <2>1. s \o t \in Seq(S) /\ IsConcat(s \o t, s, t)
    BY <1>2, ConcatIs, Zenon
  <2> QED BY <1>2, <1>3, <2>1 DEF IsConcat
<1>5. \A i \in 1..2 : (s \o t)[i] = u[i]
  BY <1>3, <1>4
<1>6. s \o t = u
  BY <1>2, <1>3, <1>4, <1>5, SeqEqual
<1> QED BY <1>6 DEF s, t, u

LEMMA ExtensionIs ==
  ASSUME NEW ai, NEW value, OneWord(value)
  PROVE  /\ value = None => Extension(ai, value) = << >>
         /\ value # None => Extension(ai, value) = << <<ai>>, value >>
<1>1. ASSUME value # None PROVE Extension(ai, value) = << <<ai>>, value >>
  <2>2. value = <<value[1]>>
    BY <1>1 DEF OneWord
  <2>3. Words(value) = <<value>>
    <3>0. Len(value) = 1
      BY <2>2
    <3>1. Words(value) = [i \in 1..1 |-> <<value[i]>>]
      BY <3>0 DEF Words
    <3>2. Words(value) = << <<value[1]>> >>
      BY <3>1
    <3> QED BY <2>2, <3>2
  <2>4. Extension(ai, value) = << <<ai>> >> \o <<value>>
    BY <1>1, <2>3, Zenon DEF Extension
  <2> QED BY <2>4, TwoParts, Zenon
<1>2. value = None => Extension(ai, value) = << >>
  BY DEF Extension
<1> QED BY <1>1, <1>2

LEMMA TextEnds ==
  ASSUME NEW S, NEW H \in Seq(S), NEW lot, NEW serial, OneWord(lot), OneWord(serial)
  PROVE  LET text == H \o Extension("10", lot) \o Extension("21", serial)
         IN  /\ EndsWith(text, Len(H), lot, serial)
             /\ \A i \in 1..Len(H) : text[i] = H[i]
<1> DEFINE A == Extension("10", lot)
           B == Extension("21", serial)
           text == H \o A \o B
           ten == <<"10">>
           one == <<"21">>
           T == S \cup {ten, one, lot, serial}
<1>1. /\ lot = None => A = << >>
      /\ lot # None => A = <<ten, lot>>
      /\ serial = None => B = << >>
      /\ serial # None => B = <<one, serial>>
  BY ExtensionIs, Zenon
<1> HIDE DEF A, B, ten, one
<1>2. S \subseteq T /\ ten \in T /\ one \in T /\ lot \in T /\ serial \in T
  OBVIOUS
<1> HIDE DEF T
<1>3. H \in Seq(T) /\ A \in Seq(T) /\ B \in Seq(T)
  BY <1>1, <1>2, SmallSeqs, SeqMonotonic, Zenon
<1>4. /\ Len(text) = Len(H) + Len(A) + Len(B)
      /\ \A i \in 1..Len(H) : text[i] = H[i]
      /\ \A i \in 1..Len(A) : text[Len(H) + i] = A[i]
      /\ \A i \in 1..Len(B) : text[Len(H) + Len(A) + i] = B[i]
  <2> DEFINE HA == H \o A
  <2>1. HA \in Seq(T) /\ IsConcat(HA, H, A)
    BY <1>3, ConcatIs, Zenon
  <2> HIDE DEF HA
  <2>2. HA \o B \in Seq(T) /\ IsConcat(HA \o B, HA, B)
    BY <1>3, <2>1, ConcatIs, Zenon
  <2>3. text = HA \o B
    BY DEF HA
  <2> HIDE DEF text
  <2>4. Len(H) \in Nat /\ Len(A) \in Nat /\ Len(HA) = Len(H) + Len(A)
    BY <1>3, <2>1 DEF IsConcat
  <2>5. /\ \A i \in 1..Len(A) : Len(H) + i \in 1..Len(HA)
        /\ \A i \in 1..Len(H) : i \in 1..Len(HA)
    BY <2>4
  <2> QED BY <2>1, <2>2, <2>3, <2>4, <2>5 DEF IsConcat
<1> HIDE DEF text
<1>5. EndsWith(text, Len(H), lot, serial)
  <2>0. Len(H) \in Nat
    OBVIOUS
  <2>1. CASE lot = None /\ serial = None
    BY <1>1, <1>4, <2>1 DEF EndsWith, ten, one
  <2>2. CASE lot # None /\ serial = None
    <3>1. Len(A) = 2 /\ A[1] = ten /\ A[2] = lot /\ Len(B) = 0
      BY <1>1, <2>2
    <3> QED BY <1>4, <2>2, <3>1 DEF EndsWith, ten, one
  <2>3. CASE lot = None /\ serial # None
    <3>1. Len(B) = 2 /\ B[1] = one /\ B[2] = serial /\ Len(A) = 0
      BY <1>1, <2>3
    <3> QED BY <1>4, <2>3, <3>1 DEF EndsWith, ten, one
  <2>4. CASE lot # None /\ serial # None
    <3>1. Len(B) = 2 /\ B[1] = one /\ B[2] = serial
      BY <1>1, <2>4
    <3>2. Len(A) = 2 /\ A[1] = ten /\ A[2] = lot
      BY <1>1, <2>4
    <3>3. /\ Len(text) = Len(H) + 4 /\ text[Len(H) + 1] = ten /\ text[Len(H) + 2] = lot
          /\ text[Len(H) + 2 + 1] = one /\ text[Len(H) + 2 + 2] = serial
      BY <1>4, <3>1, <3>2
    <3>4. Len(H) + 2 + 1 = Len(H) + 3 /\ Len(H) + 2 + 2 = Len(H) + 4
      OBVIOUS
    <3> QED BY <2>4, <3>3, <3>4 DEF EndsWith, ten, one
  <2> QED BY <2>1, <2>2, <2>3, <2>4
<1> QED BY <1>4, <1>5 DEF text, A, B

\* The value of an application identifier is that of its last pair.
LEMMA LastOfIs ==
  ASSUME NEW pairs, NEW ai, NEW i \in 1..Len(pairs), Len(pairs) \in Nat, pairs[i].ai = ai,
         \A j \in 1..Len(pairs) : pairs[j].ai = ai => j <= i
  PROVE  LastOf(pairs, ai) = pairs[i].value
<1> DEFINE hits == {j \in 1..Len(pairs) : pairs[j].ai = ai}
           last == CHOOSE j \in hits : \A k \in hits : k <= j
<1>1. i \in hits /\ \A k \in hits : k <= i
  OBVIOUS
<1>2. last \in hits /\ \A k \in hits : k <= last
  <2> HIDE DEF hits
  <2> QED BY <1>1, Zenon
<1>3. last = i
  <2>1. last <= i /\ i <= last /\ last \in Nat
    BY <1>1, <1>2
  <2> HIDE DEF last
  <2> QED BY <2>1
<1>4. LastOf(pairs, ai) = IF hits = {} THEN None ELSE pairs[last].value
  BY Zenon DEF LastOf
<1> HIDE DEF hits, last
<1> QED BY <1>1, <1>3, <1>4, Zenon

LEMMA LastOfNone ==
  ASSUME NEW pairs, NEW ai, \A j \in 1..Len(pairs) : pairs[j].ai # ai
  PROVE  LastOf(pairs, ai) = None
<1>1. {j \in 1..Len(pairs) : pairs[j].ai = ai} = {}
  OBVIOUS
<1> QED BY <1>1, Zenon DEF LastOf

LEMMA LastOfOneOf ==
  ASSUME NEW pairs, NEW ai, Len(pairs) \in Nat
  PROVE  \/ LastOf(pairs, ai) = None
         \/ \E i \in 1..Len(pairs) : pairs[i].ai = ai /\ LastOf(pairs, ai) = pairs[i].value
<1> DEFINE hits == {j \in 1..Len(pairs) : pairs[j].ai = ai}
           last == CHOOSE j \in hits : \A k \in hits : k <= j
<1>1. LastOf(pairs, ai) = IF hits = {} THEN None ELSE pairs[last].value
  BY Zenon DEF LastOf
<1>2. CASE hits # {}
  <2>1. PICK j \in hits : \A k \in hits : k <= j
    <3>1. hits \subseteq 1..Len(pairs)
      OBVIOUS
    <3> HIDE DEF hits
    <3> QED BY <1>2, <3>1, GreatestElement
  <2>2. last \in hits
    <3> HIDE DEF hits
    <3> QED BY <2>1, Zenon
  <2> HIDE DEF last
  <2> QED BY <1>1, <2>2
<1> QED BY <1>1, <1>2

Ten == <<"10">>
TwentyOne == <<"21">>
ZeroOne == <<"01">>
Seventeen == <<"17">>
SomeDay == <<"261118">>
Blank == <<"">>

LEMMA Different ==
  /\ Ten # TwentyOne /\ ZeroOne \notin {Ten, TwentyOne} /\ Seventeen \notin {Ten, TwentyOne}
  /\ ZeroOne # Seventeen /\ SomeDay # Blank
<1>1. /\ Ten[1] = "10" /\ TwentyOne[1] = "21" /\ ZeroOne[1] = "01" /\ Seventeen[1] = "17"
      /\ SomeDay[1] = "261118" /\ Blank[1] = ""
  BY DEF Ten, TwentyOne, ZeroOne, Seventeen, SomeDay, Blank
<1>2. /\ "10" # "21" /\ "01" # "10" /\ "01" # "21" /\ "17" # "10" /\ "17" # "21" /\ "01" # "17"
      /\ "261118" # ""
  OBVIOUS
<1> QED BY <1>1, <1>2

LEMMA PairsAre ==
  ASSUME NEW text, NEW first \in Nat \ {0}, NEW n \in Nat, Len(text) = first - 1 + 2 * n
  PROVE  /\ Len(PairsFrom(text, first)) = n
         /\ \A i \in 1..n : /\ PairsFrom(text, first)[i].ai = text[first + 2*i - 2]
                            /\ PairsFrom(text, first)[i].value = text[first + 2*i - 1]
         /\ \A S : (\A i \in 1..Len(text) : text[i] \in S) =>
                      PairsFrom(text, first) \in Seq([ai : S, value : S])
<1>1. (Len(text) - first + 1) \div 2 = n
  OBVIOUS
<1> DEFINE pair(i) == [ai |-> text[first + 2*i - 2], value |-> text[first + 2*i - 1]]
           pairs == [i \in 1..n |-> pair(i)]
<1>2. PairsFrom(text, first) = pairs
  BY <1>1, Zenon DEF PairsFrom
<1>3. Len(pairs) = n /\ \A i \in 1..n : pairs[i] = pair(i)
  OBVIOUS
<1>4. \A i \in 1..n : pairs[i].ai = text[first + 2*i - 2] /\ pairs[i].value = text[first + 2*i - 1]
  BY <1>3
<1>5. ASSUME NEW S, \A i \in 1..Len(text) : text[i] \in S
      PROVE  pairs \in Seq([ai : S, value : S])
  <2>1. \A i \in 1..n : first + 2*i - 2 \in 1..Len(text) /\ first + 2*i - 1 \in 1..Len(text)
    OBVIOUS
  <2>2. \A i \in 1..n : text[first + 2*i - 2] \in S /\ text[first + 2*i - 1] \in S
    BY <1>5, <2>1
  <2>3. \A i \in 1..n : pair(i) \in [ai : S, value : S]
    BY <2>2
  <2> HIDE DEF pair
  <2> QED BY <2>3
<1> HIDE DEF pairs
<1> QED BY <1>2, <1>3, <1>4, <1>5

\* What PairsRead says of the pairs of a text.
ReadAs(pairs, m, lot, serial) ==
  /\ LastOf(pairs, Ten) = lot /\ LastOf(pairs, TwentyOne) = serial
  /\ Len(pairs) \in Nat /\ Len(pairs) >= m
  /\ \A i \in m+1..Len(pairs) : /\ pairs[i].ai \in {Ten, TwentyOne}
                                /\ pairs[i].value \in {lot, serial} \ {None}

LEMMA PairsRead ==
  ASSUME NEW text, NEW first \in Nat \ {0}, NEW m \in Nat, NEW lot, NEW serial,
         EndsWith(text, first - 1 + 2 * m, lot, serial),
         \A i \in 1..m : text[first + 2*i - 2] \notin {Ten, TwentyOne}
  PROVE  ReadAs(PairsFrom(text, first), m, lot, serial)
<1> DEFINE h == first - 1 + 2 * m
           pairs == PairsFrom(text, first)
<1>0. h \in Nat /\ Ten # TwentyOne
  BY Different
<1>1. /\ lot = None /\ serial = None => Len(text) = h
      /\ lot # None /\ serial = None => Len(text) = h + 2 /\ text[h+1] = Ten /\ text[h+2] = lot
      /\ lot = None /\ serial # None => Len(text) = h + 2 /\ text[h+1] = TwentyOne
                                        /\ text[h+2] = serial
      /\ lot # None /\ serial # None => /\ Len(text) = h + 4
                                        /\ text[h+1] = Ten /\ text[h+2] = lot
                                        /\ text[h+3] = TwentyOne /\ text[h+4] = serial
  BY Zenon DEF EndsWith, Ten, TwentyOne
<1> DEFINE More(e) == /\ Len(pairs) = m + e
                      /\ \A i \in 1..m : pairs[i].ai \notin {Ten, TwentyOne}
<1>2. ASSUME NEW e \in 0..2, Len(text) = h + 2 * e
      PROVE  /\ More(e)
             /\ e >= 1 => pairs[m+1].ai = text[h+1] /\ pairs[m+1].value = text[h+2]
             /\ e = 2 => pairs[m+2].ai = text[h+3] /\ pairs[m+2].value = text[h+4]
  <2>1. m + e \in Nat /\ Len(text) = first - 1 + 2 * (m + e)
    BY <1>2
  <2>2. /\ Len(pairs) = m + e
        /\ \A i \in 1..m+e : /\ pairs[i].ai = text[first + 2*i - 2]
                             /\ pairs[i].value = text[first + 2*i - 1]
    <3> DEFINE n == m + e
    <3>1. n \in Nat /\ Len(text) = first - 1 + 2 * n
      BY <2>1
    <3> HIDE DEF n
    <3>2. /\ Len(pairs) = n
          /\ \A i \in 1..n : /\ pairs[i].ai = text[first + 2*i - 2]
                             /\ pairs[i].value = text[first + 2*i - 1]
      BY <3>1, PairsAre
    <3> QED BY <3>2 DEF n
  <2> HIDE DEF pairs
  <2>3. \A i \in 1..m : pairs[i].ai \notin {Ten, TwentyOne}
    <3>1. \A i \in 1..m : i \in 1..m+e
      OBVIOUS
    <3> QED BY <2>2, <3>1
  <2>4. ASSUME e >= 1 PROVE pairs[m+1].ai = text[h+1] /\ pairs[m+1].value = text[h+2]
    <3>1. m+1 \in 1..m+e /\ first + 2*(m+1) - 2 = h + 1 /\ first + 2*(m+1) - 1 = h + 2
      BY <2>4
    <3> QED BY <2>2, <3>1
  <2>5. ASSUME e = 2 PROVE pairs[m+2].ai = text[h+3] /\ pairs[m+2].value = text[h+4]
    <3>1. m+2 \in 1..m+e /\ first + 2*(m+2) - 2 = h + 3 /\ first + 2*(m+2) - 1 = h + 4
      BY <2>5
    <3> QED BY <2>2, <3>1
  <2> QED BY <2>2, <2>3, <2>4, <2>5
<1> HIDE DEF pairs, h
<1>3. CASE lot = None /\ serial = None
  <2>1. Len(pairs) = m /\ \A i \in 1..Len(pairs) : pairs[i].ai \notin {Ten, TwentyOne}
    BY <1>0, <1>1, <1>2, <1>3
  <2>2. LastOf(pairs, Ten) = None /\ LastOf(pairs, TwentyOne) = None
    BY <2>1, LastOfNone
  <2> QED BY <1>3, <2>1, <2>2 DEF ReadAs, pairs
<1>4. CASE lot # None /\ serial = None
  <2>1. /\ Len(pairs) = m + 1 /\ \A i \in 1..m : pairs[i].ai \notin {Ten, TwentyOne}
        /\ pairs[m+1].ai = Ten /\ pairs[m+1].value = lot
    BY <1>0, <1>1, <1>2, <1>4
  <2>2. LastOf(pairs, TwentyOne) = None
    <3>1. \A i \in 1..Len(pairs) : pairs[i].ai # TwentyOne
      BY <1>0, <2>1
    <3> QED BY <3>1, LastOfNone
  <2>3. LastOf(pairs, Ten) = lot
    <3>1. m + 1 \in 1..Len(pairs) /\ Len(pairs) \in Nat /\ \A j \in 1..Len(pairs) : j <= m + 1
      BY <2>1
    <3> QED BY <2>1, <3>1, LastOfIs
  <2>4. \A i \in m+1..Len(pairs) : i = m + 1
    BY <2>1
  <2> QED BY <1>4, <2>1, <2>2, <2>3, <2>4 DEF ReadAs, pairs
<1>5. CASE lot = None /\ serial # None
  <2>1. /\ Len(pairs) = m + 1 /\ \A i \in 1..m : pairs[i].ai \notin {Ten, TwentyOne}
        /\ pairs[m+1].ai = TwentyOne /\ pairs[m+1].value = serial
    BY <1>0, <1>1, <1>2, <1>5
  <2>2. LastOf(pairs, Ten) = None
    <3>1. \A i \in 1..Len(pairs) : pairs[i].ai # Ten
      BY <1>0, <2>1
    <3> QED BY <3>1, LastOfNone
  <2>3. LastOf(pairs, TwentyOne) = serial
    <3>1. m + 1 \in 1..Len(pairs) /\ Len(pairs) \in Nat /\ \A j \in 1..Len(pairs) : j <= m + 1
      BY <2>1
    <3> QED BY <2>1, <3>1, LastOfIs
  <2>4. \A i \in m+1..Len(pairs) : i = m + 1
    BY <2>1
  <2> QED BY <1>5, <2>1, <2>2, <2>3, <2>4 DEF ReadAs, pairs
<1>6. CASE lot # None /\ serial # None
  <2>1. /\ Len(pairs) = m + 2 /\ \A i \in 1..m : pairs[i].ai \notin {Ten, TwentyOne}
        /\ pairs[m+1].ai = Ten /\ pairs[m+1].value = lot
        /\ pairs[m+2].ai = TwentyOne /\ pairs[m+2].value = serial
    BY <1>0, <1>1, <1>2, <1>6
  <2>2. LastOf(pairs, Ten) = lot
    <3>1. m + 1 \in 1..Len(pairs) /\ Len(pairs) \in Nat
          /\ \A j \in 1..Len(pairs) : j <= m + 1 \/ j = m + 2
      BY <2>1
    <3> QED BY <1>0, <2>1, <3>1, LastOfIs
  <2>3. LastOf(pairs, TwentyOne) = serial
    <3>1. m + 2 \in 1..Len(pairs) /\ Len(pairs) \in Nat /\ \A j \in 1..Len(pairs) : j <= m + 2
      BY <2>1
    <3> QED BY <2>1, <3>1, LastOfIs
  <2>4. \A i \in m+1..Len(pairs) : i = m + 1 \/ i = m + 2
    BY <2>1
  <2> QED BY <1>6, <2>1, <2>2, <2>3, <2>4 DEF ReadAs, pairs
<1> QED BY <1>3, <1>4, <1>5, <1>6

\* The extensions behind the prefixed form of a key.
LEMMA ExtensionsRead ==
  ASSUME NEW text, NEW lot, NEW serial, EndsWith(text, 1, lot, serial)
  PROVE  /\ LastOf(extensions(text), <<"10">>) = lot
         /\ LastOf(extensions(text), <<"21">>) = serial
<1> DEFINE pairs == PairsFrom(text, 2)
           KnownUpTo(n) == /\ \A i \in 1..n : pairs[i].ai \in {Ten, TwentyOne}
                           /\ n < Len(pairs) => pairs[n+1].ai \notin {Ten, TwentyOne}
           known == CHOOSE n \in 0..Len(pairs) : KnownUpTo(n)
<1>1. ReadAs(pairs, 0, lot, serial)
  <2>1. 2 - 1 + 2 * 0 = 1
    OBVIOUS
  <2>2. EndsWith(text, 2 - 1 + 2 * 0, lot, serial)
    BY <2>1
  <2>3. \A i \in 1..0 : text[2 + 2*i - 2] \notin {Ten, TwentyOne}
    OBVIOUS
  <2>4. 2 \in Nat \ {0} /\ 0 \in Nat
    OBVIOUS
  <2> QED BY <2>2, <2>3, <2>4, PairsRead, Zenon
<1>2. extensions(text) = SubSeq(pairs, 1, known)
  BY Zenon DEF extensions, Ten, TwentyOne
<1> HIDE DEF pairs
<1>3. Len(pairs) \in Nat /\ \A i \in 1..Len(pairs) : pairs[i].ai \in {Ten, TwentyOne}
  BY <1>1 DEF ReadAs
<1>4. known \in 0..Len(pairs) /\ KnownUpTo(known)
  <2>1. Len(pairs) \in 0..Len(pairs) /\ KnownUpTo(Len(pairs))
    BY <1>3
  <2> HIDE DEF KnownUpTo
  <2> QED BY <2>1, Zenon
<1>5. known = Len(pairs)
  <2> HIDE DEF known
  <2>1. ~(known < Len(pairs))
    <3> SUFFICES ASSUME known < Len(pairs) PROVE FALSE
      OBVIOUS
    <3>1. known + 1 \in 1..Len(pairs)
      BY <1>3, <1>4
    <3> QED BY <1>3, <1>4, <3>1
  <2> QED BY <1>3, <1>4, <2>1
<1> HIDE DEF known
<1>6. extensions(text) = pairs
  <2> DEFINE S == {text[i] : i \in 1..Len(text)}
  <2>1. PICK e \in 0..2 : Len(text) = 2 - 1 + 2 * e
    <3>1. Len(text) \in {1, 1 + 2, 1 + 4}
      BY Zenon DEF EndsWith
    <3> QED BY <3>1
  <2>2. e \in Nat /\ 2 \in Nat \ {0}
    OBVIOUS
  <2>3. \A i \in 1..Len(text) : text[i] \in S
    OBVIOUS
  <2> HIDE DEF S
  <2>4. pairs \in Seq([ai : S, value : S])
    BY <2>1, <2>2, <2>3, PairsAre, Zenon DEF pairs
  <2>5. SubSeq(pairs, 1, Len(pairs)) = pairs
    BY <2>4, SubSeqFull, Zenon
  <2> QED BY <1>2, <1>5, <2>5
<1> QED BY <1>1, <1>6, Zenon DEF ReadAs, Ten, TwentyOne

LEMMA BuildIs ==
  ASSUME NEW scheme, NEW key, NEW lot, NEW serial, build(scheme, key, lot, serial) # Invalid
  PROVE  /\ build(scheme, key, lot, serial) =
              [scheme |-> scheme, key |-> key, lot |-> lot, serial |-> serial,
               granularity |-> granularity(scheme, lot, serial)]
         /\ key # << >> /\ key # <<"">>
         /\ requires_digits(scheme) => Len(key) = 1 /\ key[1] \in DigitKeys /\ Len(key[1]) <= 14
<1> DEFINE Refused == \/ key \in {<< >>, <<"">>}
                      \/ requires_digits(scheme)
                         /\ ~(Len(key) = 1 /\ key[1] \in DigitKeys /\ Len(key[1]) <= 14)
           made == [scheme |-> scheme, key |-> key, lot |-> lot, serial |-> serial,
                    granularity |-> granularity(scheme, lot, serial)]
<1>1. build(scheme, key, lot, serial) = IF Refused THEN Invalid ELSE made
  BY Zenon DEF build
<1>2. ~Refused
  <2> HIDE DEF Refused, made
  <2> QED BY <1>1, Zenon
<1>3. build(scheme, key, lot, serial) = made
  <2> HIDE DEF Refused, made
  <2> QED BY <1>1, <1>2, Zenon
<1> QED BY <1>2, <1>3, Zenon

LEMMA OverOne == \A n \in Nat : n > 1 => n # 1
OBVIOUS

\* A text that starts with a prefix is read as its prefix says.
LEMMA PrefixedRead ==
  ASSUME NEW text, NEW lot, NEW serial, EndsWith(text, 1, lot, serial),
         Len(text[1]) \in Nat, Len(text[1]) > 1, text[1] # ZeroOne,
         text[1][1] \notin {"http", "https"}
  PROVE  LET word == squash(text[1][1])
             key  == Tail(text[1])
         IN  parse(text) =
               CASE word = "local" -> IF Len(key) < 2 THEN Invalid
                                      ELSE build(Local(squash(key[1])), Tail(key), lot, serial)
                 [] word = "gtin"  -> build(Scheme(IF serial = None THEN "gtin" ELSE "sgtin"),
                                            key, lot, serial)
                 [] word \in Tokens \ {"gtin"} -> build(Scheme(word), key, lot, serial)
                 [] OTHER -> Invalid
<1>1. parse(text) = prefixed(text)
  <2>1. Len(text[1]) # 1
    BY OverOne, Zenon
  <2> QED BY <2>1, Zenon DEF parse, ZeroOne
<1>2. LastOf(extensions(text), <<"10">>) = lot /\ LastOf(extensions(text), <<"21">>) = serial
  BY ExtensionsRead
<1> QED BY <1>1, <1>2, Zenon DEF prefixed

\* A text that starts with a GTIN's application identifier.
LEMMA ElementRead ==
  ASSUME NEW text, NEW key, NEW lot, NEW serial, NEW m \in {1, 2},
         Short(lot), Short(serial), key # Blank,
         text[1] = ZeroOne, text[2] = key, m = 2 => text[3] = Seventeen /\ text[4] = SomeDay,
         EndsWith(text, 2 * m, lot, serial)
  PROVE  parse(text) = build(Scheme(IF serial = None THEN "gtin" ELSE "sgtin"), key, lot, serial)
<1> DEFINE pairs == PairsFrom(text, 1)
           ok    == {ZeroOne, Ten, TwentyOne, <<"11">>, Seventeen, <<"240">>}
<1>0. ZeroOne \in ok /\ Ten \in ok /\ TwentyOne \in ok /\ Seventeen \in ok
  BY Zenon
<1> HIDE DEF ok
<1>1. PICK e \in 0..2 : Len(text) = 2 * m + 2 * e
  <2> DEFINE h == 2 * m
  <2>1. Len(text) \in {h, h + 2, h + 4} /\ h \in Nat
    <3>1. h \in Nat
      OBVIOUS
    <3> HIDE DEF h
    <3>2. EndsWith(text, h, lot, serial)
      BY DEF h
    <3> QED BY <3>1, <3>2, Zenon DEF EndsWith
  <2> HIDE DEF h
  <2>2. \E e \in 0..2 : Len(text) = h + 2 * e
    BY <2>1
  <2> QED BY <2>2 DEF h
<1>2. /\ Len(pairs) = m + e
      /\ \A i \in 1..m+e : pairs[i].ai = text[1 + 2*i - 2] /\ pairs[i].value = text[1 + 2*i - 1]
  <2> DEFINE n == m + e
             first == 1
  <2>1. n \in Nat /\ Len(text) = first - 1 + 2 * n /\ first \in Nat \ {0}
    BY <1>1
  <2> HIDE DEF n, first
  <2>2. /\ Len(PairsFrom(text, first)) = n
        /\ \A i \in 1..n : /\ PairsFrom(text, first)[i].ai = text[first + 2*i - 2]
                           /\ PairsFrom(text, first)[i].value = text[first + 2*i - 1]
    BY <2>1, PairsAre
  <2> QED BY <2>2 DEF n, first
<1>3. ReadAs(pairs, m, lot, serial)
  <2>1. \A i \in 1..m : text[1 + 2*i - 2] \notin {Ten, TwentyOne}
    <3> SUFFICES ASSUME NEW i \in 1..m PROVE text[1 + 2*i - 2] \notin {Ten, TwentyOne}
      OBVIOUS
    <3>1. (i = 1 /\ 1 + 2*i - 2 = 1) \/ (m = 2 /\ i = 2 /\ 1 + 2*i - 2 = 3)
      OBVIOUS
    <3>2. text[1 + 2*i - 2] = ZeroOne \/ text[1 + 2*i - 2] = Seventeen
      BY <3>1
    <3> QED BY <3>2, Different
  <2>2. EndsWith(text, 1 - 1 + 2 * m, lot, serial)
    <3>1. 1 - 1 + 2 * m = 2 * m
      OBVIOUS
    <3> QED BY <3>1
  <2>3. 1 \in Nat \ {0} /\ m \in Nat
    OBVIOUS
  <2> QED BY <2>1, <2>2, <2>3, PairsRead, Zenon
<1> HIDE DEF pairs
<1>4. /\ pairs[1].ai = ZeroOne /\ pairs[1].value = key
      /\ m = 2 => pairs[2].ai = Seventeen /\ pairs[2].value = SomeDay
  <2>1. 1 \in 1..m+e /\ 1 + 2*1 - 2 = 1 /\ 1 + 2*1 - 1 = 2
    BY <1>1
  <2>2. m = 2 => 2 \in 1..m+e /\ 1 + 2*2 - 2 = 3 /\ 1 + 2*2 - 1 = 4
    BY <1>1
  <2> QED BY <1>2, <2>1, <2>2
<1>5. \A i \in 1..Len(pairs) : i = 1 \/ (m = 2 /\ i = 2) \/ i \in m+1..Len(pairs)
  BY <1>1, <1>2
<1>6. LastOf(pairs, ZeroOne) = key
  <2>1. \A j \in 1..Len(pairs) : pairs[j].ai = ZeroOne => j <= 1
    <3> SUFFICES ASSUME NEW j \in 1..Len(pairs), pairs[j].ai = ZeroOne, j # 1 PROVE FALSE
      BY <1>2
    <3>1. CASE m = 2 /\ j = 2
      BY <1>4, <3>1, Different
    <3>2. CASE j \in m+1..Len(pairs)
      <4>1. pairs[j].ai \in {Ten, TwentyOne}
        BY <1>3, <3>2, Zenon DEF ReadAs
      <4> QED BY <4>1, Different
    <3> QED BY <1>5, <3>1, <3>2
  <2>2. 1 \in 1..Len(pairs) /\ Len(pairs) \in Nat
    BY <1>1, <1>2
  <2> QED BY <1>4, <2>1, <2>2, LastOfIs
<1>7. \A i \in 1..Len(pairs) : pairs[i].value # Blank /\ pairs[i].ai \in ok
  <2> SUFFICES ASSUME NEW i \in 1..Len(pairs) PROVE pairs[i].value # Blank /\ pairs[i].ai \in ok
    OBVIOUS
  <2>1. CASE i = 1
    BY <1>0, <1>4, <2>1
  <2>2. CASE m = 2 /\ i = 2
    BY <1>0, <1>4, <2>2, Different
  <2>3. CASE i \in m+1..Len(pairs)
    <3>1. pairs[i].ai \in {Ten, TwentyOne} /\ pairs[i].value \in {lot, serial} \ {None}
      BY <1>3, <2>3, Zenon DEF ReadAs
    <3>2. pairs[i].value # Blank
      BY <3>1, Zenon DEF Short, Blank
    <3> QED BY <1>0, <3>1, <3>2, Zenon
  <2> QED BY <1>5, <2>1, <2>2, <2>3
<1>8. Len(text) % 2 = 0 /\ Len(text) > 1
  BY <1>1
<1>9. parse(text) = element_string(text)
  <2>1. Len(ZeroOne) = 1
    BY DEF ZeroOne
  <2>2. ~(Len(text[1]) > 1) /\ Len(text) # 1
    BY <1>8, <2>1
  <2> QED BY <1>8, <2>2, Zenon DEF parse, ZeroOne
<1>10. element_string(text) =
        build(Scheme(IF LastOf(pairs, TwentyOne) = None THEN "gtin" ELSE "sgtin"),
              LastOf(pairs, ZeroOne), LastOf(pairs, Ten), LastOf(pairs, TwentyOne))
  <2>1. ~(\/ Len(text) % 2 # 0
          \/ \E i \in 1..Len(pairs) : pairs[i].value = Blank \/ pairs[i].ai \notin ok)
    BY <1>7, <1>8, Zenon
  <2> QED BY <2>1, Zenon DEF element_string, Ten, TwentyOne, pairs, ZeroOne, Seventeen, Blank, ok
<1> QED BY <1>3, <1>6, <1>9, <1>10, Zenon DEF ReadAs

LEMMA ShortIsOneWord ==
  ASSUME NEW value, Short(value) PROVE OneWord(value)
BY Zenon DEF Short, OneWord

LEMMA TailOfConcat ==
  ASSUME NEW S, NEW x, NEW s \in Seq(S)
  PROVE  /\ Len(<<x>> \o s) = 1 + Len(s) /\ (<<x>> \o s)[1] = x /\ Tail(<<x>> \o s) = s
         /\ \A i \in 1..Len(s) : (<<x>> \o s)[1 + i] = s[i]
<1> DEFINE T == S \cup {x}
           h == <<x>>
<1>1. S \subseteq T /\ x \in T
  OBVIOUS
<1> HIDE DEF T
<1>2. h \in Seq(T) /\ s \in Seq(T)
  BY <1>1, SmallSeqs, SeqMonotonic, Zenon
<1>3. Len(h) = 1 /\ h[1] = x
  OBVIOUS
<1> HIDE DEF h
<1>4. h \o s \in Seq(T) /\ IsConcat(h \o s, h, s)
  BY <1>2, ConcatIs, Zenon
<1>5. Len(h \o s) = 1 + Len(s) /\ (h \o s)[1] = x /\ \A i \in 1..Len(s) : (h \o s)[1 + i] = s[i]
  BY <1>2, <1>3, <1>4 DEF IsConcat
<1> DEFINE u == h \o s
<1>6. Tail(u) = s
  <2> HIDE DEF u
  <2>1. /\ u \in Seq(T) /\ Len(u) = 1 + Len(s) /\ Len(s) \in Nat
        /\ \A i \in 1..Len(s) : u[1 + i] = s[i]
    BY <1>2, <1>4, <1>5 DEF u
  <2>2. Tail(u) \in Seq(T) /\ Len(Tail(u)) = Len(s) /\ \A i \in 1..Len(s) : Tail(u)[i] = u[i + 1]
    BY <2>1
  <2>3. \A i \in 1..Len(s) : Tail(u)[i] = s[i]
    BY <2>1, <2>2
  <2> QED BY <1>2, <2>2, <2>3, SeqEqual
<1> QED BY <1>5, <1>6 DEF h, u

\* Texts with one, two and four parts in front of the lot and the serial.
LEMMA OneHead ==
  ASSUME NEW lot, NEW serial, Short(lot), Short(serial), NEW a
  PROVE  LET text == <<a>> \o Extension("10", lot) \o Extension("21", serial)
         IN  EndsWith(text, 1, lot, serial) /\ text[1] = a
<1> DEFINE S == {a}
           h == <<a>>
           text == h \o Extension("10", lot) \o Extension("21", serial)
<1>1. OneWord(lot) /\ OneWord(serial) /\ 1 \in 1..1
  BY ShortIsOneWord
<1>2. a \in S
  OBVIOUS
<1> HIDE DEF S
<1>3. h \in Seq(S)
  BY <1>2
<1>4. Len(h) = 1 /\ h[1] = a
  OBVIOUS
<1> HIDE DEF h
<1>5. EndsWith(text, Len(h), lot, serial) /\ \A i \in 1..Len(h) : text[i] = h[i]
  BY <1>1, <1>3, TextEnds, Zenon
<1> HIDE DEF text
<1>6. EndsWith(text, 1, lot, serial) /\ text[1] = a
  BY <1>1, <1>4, <1>5, Zenon
<1> QED BY <1>6, Zenon DEF text, h

LEMMA TwoHeads ==
  ASSUME NEW lot, NEW serial, Short(lot), Short(serial), NEW a, NEW b
  PROVE  LET text == <<a, b>> \o Extension("10", lot) \o Extension("21", serial)
         IN  EndsWith(text, 2, lot, serial) /\ text[1] = a /\ text[2] = b
<1> DEFINE S == {a, b}
           h == <<a, b>>
           text == h \o Extension("10", lot) \o Extension("21", serial)
<1>1. OneWord(lot) /\ OneWord(serial) /\ 1 \in 1..2 /\ 2 \in 1..2
  BY ShortIsOneWord
<1>2. a \in S /\ b \in S
  OBVIOUS
<1> HIDE DEF S
<1>3. h \in Seq(S)
  BY <1>2
<1>4. Len(h) = 2 /\ h[1] = a /\ h[2] = b
  OBVIOUS
<1> HIDE DEF h
<1>5. EndsWith(text, Len(h), lot, serial) /\ \A i \in 1..Len(h) : text[i] = h[i]
  BY <1>1, <1>3, TextEnds, Zenon
<1> HIDE DEF text
<1>6. EndsWith(text, 2, lot, serial) /\ text[1] = a /\ text[2] = b
  BY <1>1, <1>4, <1>5, Zenon
<1> QED BY <1>6, Zenon DEF text, h

LEMMA FourHeads ==
  ASSUME NEW lot, NEW serial, Short(lot), Short(serial), NEW a, NEW b, NEW c, NEW d
  PROVE  LET text == <<a, b, c, d>> \o Extension("10", lot) \o Extension("21", serial)
         IN  /\ EndsWith(text, 4, lot, serial)
             /\ text[1] = a /\ text[2] = b /\ text[3] = c /\ text[4] = d
<1> DEFINE S == {a, b, c, d}
           h == <<a, b, c, d>>
           text == h \o Extension("10", lot) \o Extension("21", serial)
<1>1. OneWord(lot) /\ OneWord(serial) /\ 1 \in 1..4 /\ 2 \in 1..4 /\ 3 \in 1..4 /\ 4 \in 1..4
  BY ShortIsOneWord
<1>2. a \in S /\ b \in S /\ c \in S /\ d \in S
  OBVIOUS
<1> HIDE DEF S
<1>3. h \in Seq(S)
  BY <1>2
<1>4. Len(h) = 4 /\ h[1] = a /\ h[2] = b /\ h[3] = c /\ h[4] = d
  OBVIOUS
<1> HIDE DEF h
<1>5. EndsWith(text, Len(h), lot, serial) /\ \A i \in 1..Len(h) : text[i] = h[i]
  BY <1>1, <1>3, TextEnds, Zenon
<1> HIDE DEF text
<1>6. EndsWith(text, 4, lot, serial) /\ text[1] = a /\ text[2] = b /\ text[3] = c /\ text[4] = d
  BY <1>1, <1>4, <1>5, Zenon
<1> QED BY <1>6, Zenon DEF text, h

\* A key behind its prefix.
LEMMA PrefixRead ==
  ASSUME NEW lot, NEW serial, Short(lot), Short(serial), NEW prefix, NEW S, NEW key \in Seq(S),
         key # << >>, prefix \notin {"http", "https"}
  PROVE  LET word == squash(prefix)
             text == <<(<<prefix>> \o key)>> \o Extension("10", lot) \o Extension("21", serial)
         IN  parse(text) =
               CASE word = "local" -> IF Len(key) < 2 THEN Invalid
                                      ELSE build(Local(squash(key[1])), Tail(key), lot, serial)
                 [] word = "gtin"  -> build(Scheme(IF serial = None THEN "gtin" ELSE "sgtin"),
                                            key, lot, serial)
                 [] word \in Tokens \ {"gtin"} -> build(Scheme(word), key, lot, serial)
                 [] OTHER -> Invalid
<1> DEFINE x == <<prefix>> \o key
           text == <<x>> \o Extension("10", lot) \o Extension("21", serial)
<1>1. /\ Len(x) = 1 + Len(key) /\ x[1] = prefix /\ Tail(x) = key
  BY TailOfConcat, ZenonT(60)
<1>2. Len(key) \in Nat /\ Len(key) > 0
  BY EmptySeq
<1> HIDE DEF x
<1>3. Len(x) \in Nat /\ Len(x) > 1
  BY <1>1, <1>2
<1>4. x # ZeroOne
  <2>1. Len(ZeroOne) = 1
    BY DEF ZeroOne
  <2>2. Len(x) # 1
    BY <1>3, OverOne, Zenon
  <2> QED BY <2>1, <2>2, Zenon
<1>5. EndsWith(text, 1, lot, serial) /\ text[1] = x
  <2>1. LET t == <<x>> \o Extension("10", lot) \o Extension("21", serial)
        IN  EndsWith(t, 1, lot, serial) /\ t[1] = x
    BY ONLY Short(lot), Short(serial), OneHead
  <2> QED BY <2>1, Zenon
<1> HIDE DEF text
<1>6. text[1][1] \notin {"http", "https"} /\ Tail(text[1]) = key
  BY <1>1, <1>5, Zenon
<1>7. LET word == squash(text[1][1])
          rest == Tail(text[1])
      IN  parse(text) =
            CASE word = "local" -> IF Len(rest) < 2 THEN Invalid
                                   ELSE build(Local(squash(rest[1])), Tail(rest), lot, serial)
              [] word = "gtin"  -> build(Scheme(IF serial = None THEN "gtin" ELSE "sgtin"),
                                         rest, lot, serial)
              [] word \in Tokens \ {"gtin"} -> build(Scheme(word), rest, lot, serial)
              [] OTHER -> Invalid
  BY <1>3, <1>4, <1>5, <1>6, PrefixedRead, Zenon
<1> QED BY <1>1, <1>5, <1>6, <1>7, Zenon DEF text, x

LEMMA Squashed ==
  /\ squash("gtin") = "gtin" /\ squash("GTIN") = "gtin" /\ squash("SGTIN") = "sgtin"
  /\ squash("local") = "local" /\ squash("LOCAL") = "local"
  /\ \A token \in Tokens : squash(token) = token
BY Zenon DEF squash, Tokens

\* An issuer-local key, whatever its tag is written like.
LEMMA LocalRead ==
  ASSUME NEW lot, NEW serial, Short(lot), Short(serial), NEW S, NEW key \in Seq(S), key # << >>,
         NEW tag, NEW word \in {"local", "LOCAL"}
  PROVE  parse(<<(<<word, tag>> \o key)>> \o Extension("10", lot) \o Extension("21", serial))
           = build(Local(squash(tag)), key, lot, serial)
<1> DEFINE T == S \cup {tag}
           rest == <<tag>> \o key
           text == <<(<<word>> \o rest)>> \o Extension("10", lot) \o Extension("21", serial)
<1>1. <<tag>> \in Seq(T) /\ key \in Seq(T)
  <2>1. tag \in T /\ S \subseteq T
    OBVIOUS
  <2> HIDE DEF T
  <2> QED BY <2>1, SmallSeqs, SeqMonotonic, Zenon
<1>2. rest \in Seq(T) /\ Len(rest) = 1 + Len(key) /\ rest[1] = tag /\ Tail(rest) = key
  <2> HIDE DEF T
  <2>1. <<tag>> \o key \in Seq(T)
    BY <1>1, ConcatIs, Zenon
  <2> QED BY <1>1, <2>1, TailOfConcat, ZenonT(60)
<1>3. <<word, tag>> \o key = <<word>> \o rest
  <2> DEFINE U == T \cup {word}
             w == <<word>>
             t == <<tag>>
  <2>1. w \in Seq(U) /\ t \in Seq(U) /\ key \in Seq(U)
    <3>1. word \in U /\ T \subseteq U
      OBVIOUS
    <3> HIDE DEF U, T
    <3> QED BY <1>1, <3>1, SmallSeqs, SeqMonotonic, Zenon
  <2>2. w \o t = <<word, tag>>
    <3>1. \A a, b : <<a>> \o <<b>> = <<a, b>>
      BY ONLY TwoParts
    <3> QED BY <3>1, Zenon
  <2> HIDE DEF U, w, t
  <2>3. (w \o t) \o key = w \o (t \o key)
    BY ONLY <2>1, ConcatAssociative
  <2> QED BY <2>2, <2>3, Zenon DEF w, t
<1>4. Len(key) \in Nat /\ Len(key) > 0
  BY EmptySeq
<1> HIDE DEF rest, T
<1>5. ~(Len(rest) < 2) /\ rest # << >>
  BY <1>2, <1>4
<1>6. word \notin {"http", "https"} /\ squash(word) = "local"
  BY Squashed, Zenon
<1>7. parse(text) =
        CASE squash(word) = "local" ->
               IF Len(rest) < 2 THEN Invalid
               ELSE build(Local(squash(rest[1])), Tail(rest), lot, serial)
          [] squash(word) = "gtin"  ->
               build(Scheme(IF serial = None THEN "gtin" ELSE "sgtin"), rest, lot, serial)
          [] squash(word) \in Tokens \ {"gtin"} -> build(Scheme(squash(word)), rest, lot, serial)
          [] OTHER -> Invalid
  BY ONLY Short(lot), Short(serial), <1>2, <1>5, <1>6, PrefixRead
<1>8. parse(text) = build(Local(squash(tag)), key, lot, serial)
  <2>1. "local" # "gtin" /\ "local" \notin Tokens
    BY Zenon DEF Tokens
  <2> HIDE DEF text
  <2> QED BY <1>2, <1>5, <1>6, <1>7, <2>1, Zenon
<1> QED BY <1>3, <1>8, Zenon

\* A key of another scheme behind its token.
LEMMA TokenRead ==
  ASSUME NEW lot, NEW serial, Short(lot), Short(serial), NEW S, NEW key \in Seq(S), key # << >>,
         NEW prefix \in {"gtin", "GTIN", "SGTIN"} \cup Tokens
  PROVE  parse(<<(<<prefix>> \o key)>> \o Extension("10", lot) \o Extension("21", serial))
           = build(Scheme(IF squash(prefix) # "gtin" THEN squash(prefix)
                          ELSE IF serial = None THEN "gtin" ELSE "sgtin"), key, lot, serial)
<1> DEFINE text == <<(<<prefix>> \o key)>> \o Extension("10", lot) \o Extension("21", serial)
           word == squash(prefix)
<1>1. prefix \notin {"http", "https"} /\ word \in Tokens /\ "local" \notin Tokens
  BY Squashed, Zenon DEF Tokens
<1>2. parse(text) =
        CASE word = "local" -> IF Len(key) < 2 THEN Invalid
                               ELSE build(Local(squash(key[1])), Tail(key), lot, serial)
          [] word = "gtin"  ->
               build(Scheme(IF serial = None THEN "gtin" ELSE "sgtin"), key, lot, serial)
          [] word \in Tokens \ {"gtin"} -> build(Scheme(word), key, lot, serial)
          [] OTHER -> Invalid
  BY ONLY Short(lot), Short(serial), key \in Seq(S), key # << >>, <1>1, PrefixRead
<1> HIDE DEF text, word
<1>3. parse(text) = build(Scheme(IF word # "gtin" THEN word
                                 ELSE IF serial = None THEN "gtin" ELSE "sgtin"), key, lot, serial)
  <2>1. CASE word = "gtin"
    <3>1. word # "local"
      BY <2>1, Zenon
    <3> QED BY <1>2, <2>1, <3>1, Zenon
  <2>2. CASE word # "gtin"
    <3>1. word # "local" /\ word \in Tokens \ {"gtin"}
      BY <1>1, <2>2, Zenon
    <3> QED BY <1>2, <2>2, <3>1, Zenon
  <2> QED BY <2>1, <2>2
<1> QED BY <1>3, Zenon DEF text, word

LEMMA Twice == 2 * 1 = 2 /\ 2 * 2 = 4 /\ 1 # 2
OBVIOUS

LEMMA GtinRead ==
  ASSUME NEW lot, NEW serial, Short(lot), Short(serial), NEW key, key # <<"">>
  PROVE  LET id == build(Scheme(IF serial = None THEN "gtin" ELSE "sgtin"), key, lot, serial)
         IN  /\ parse(<< <<"01">>, key >> \o Extension("10", lot) \o Extension("21", serial)) = id
             /\ parse(<< <<"01">>, key, <<"17">>, <<"261118">> >>
                        \o Extension("10", lot) \o Extension("21", serial)) = id
<1> DEFINE id == build(Scheme(IF serial = None THEN "gtin" ELSE "sgtin"), key, lot, serial)
           two  == <<ZeroOne, key>> \o Extension("10", lot) \o Extension("21", serial)
           four == <<ZeroOne, key, Seventeen, SomeDay>>
                     \o Extension("10", lot) \o Extension("21", serial)
<1>1. EndsWith(two, 2, lot, serial) /\ two[1] = ZeroOne /\ two[2] = key
  BY ONLY Short(lot), Short(serial), TwoHeads
<1>2. /\ EndsWith(four, 4, lot, serial) /\ four[1] = ZeroOne /\ four[2] = key
      /\ four[3] = Seventeen /\ four[4] = SomeDay
  BY ONLY Short(lot), Short(serial), FourHeads
<1>3. key # Blank
  BY Zenon DEF Blank
<1> HIDE DEF two, four
<1>4. parse(two) = id
  <2>1. EndsWith(two, 2 * 1, lot, serial) /\ 1 \in {1, 2} /\ 1 # 2
    BY <1>1, Twice, Zenon
  <2> QED BY <1>1, <1>3, <2>1, ElementRead, Zenon
<1>5. parse(four) = id
  <2>1. EndsWith(four, 2 * 2, lot, serial) /\ 2 \in {1, 2}
    BY <1>2, Twice, Zenon
  <2> QED BY <1>2, <1>3, <2>1, ElementRead, Zenon
<1> QED BY <1>4, <1>5, Zenon DEF two, four, ZeroOne, Seventeen, SomeDay

LEMMA SchemeTokens ==
  ASSUME NEW scheme, Known(scheme)
  PROVE  /\ scheme.token # "local" => scheme.token \in Tokens /\ scheme = Scheme(scheme.token)
         /\ scheme.token = "local" => scheme = Local(scheme.tag) /\ squash(scheme.tag) = scheme.tag
<1>1. \A token : Scheme(token).token = token
  BY DEF Scheme
<1>2. \A tag : Local(tag).token = "local"
  BY DEF Local
<1>3. "local" \notin Tokens
  BY Zenon DEF Tokens
<1> QED BY <1>1, <1>2, <1>3, Zenon DEF Known

LEMMA LocalHeadIs ==
  ASSUME NEW q, NEW H \in LocalHeads(q)
  PROVE  \E word \in {"local", "LOCAL"} : \E tag \in q.tags : H = << <<word, tag>> \o q.key >>
<1> DEFINE f(word, tag) == << <<word, tag>> \o q.key >>
           W == {"local", "LOCAL"}
           T == q.tags
<1>1. LocalHeads(q) = {f(word, tag) : word \in W, tag \in T}
  BY SMT DEF LocalHeads
<1> HIDE DEF f, W, T
<1>2. PICK word \in W, tag \in T : H = f(word, tag)
  BY <1>1, SMT
<1> QED BY <1>2, Zenon DEF f, W, T

LEMMA GtinDigits ==
  requires_digits(Scheme("gtin")) /\ requires_digits(Scheme("sgtin"))
<1>1. Scheme("gtin").token = "gtin" /\ Scheme("sgtin").token = "sgtin"
  BY DEF Scheme
<1> QED BY <1>1, Zenon DEF requires_digits

\* Every accepted spelling of a product is read as that product.
LEMMA SpellingsAgree ==
  ASSUME NEW q, ProductAsked(q)
  PROVE  /\ \A text \in Spellings(q) : parse(text) = Product(q)
         /\ parse(display(Product(q))) = Product(q)
         /\ Product(q).serial # None => Product(q).granularity = "item"
<1> DEFINE A == Extension("10", q.lot)
           B == Extension("21", q.serial)
<1>1. /\ Short(q.lot) /\ Short(q.serial) /\ q.key \in Seq(STRING) /\ Product(q) # Invalid
      /\ q.scheme.token \in {"gtin", "local"}
      /\ q.scheme.token = "local" => \A tag \in q.tags : squash(tag) = q.scheme.tag
  BY Zenon DEF ProductAsked
<1>1a. Product(q) # Invalid
  BY <1>1
<1>1b. Short(q.lot) /\ Short(q.serial) /\ q.key \in Seq(STRING) 
  BY <1>1
<1>2. /\ q.scheme.token = "gtin" => q.scheme = Scheme("gtin")
      /\ q.scheme.token = "local" =>
           q.scheme = Local(q.scheme.tag) /\ squash(q.scheme.tag) = q.scheme.tag
  <2>1. Known(q.scheme) /\ "gtin" # "local"
    BY Zenon DEF ProductAsked
  <2> QED BY <2>1, SchemeTokens, Zenon
<1>3. /\ q.key # << >> /\ q.key # <<"">>
      /\ \E scheme : Product(q) = [scheme |-> scheme, key |-> q.key, lot |-> q.lot,
                                   serial |-> q.serial,
                                   granularity |-> granularity(scheme, q.lot, q.serial)]
  <2> DEFINE scheme == IF q.scheme = Scheme("gtin") /\ q.serial # None THEN Scheme("sgtin")
                       ELSE q.scheme
  <2>1. Product(q) = build(scheme, q.key, q.lot, q.serial)
    BY Zenon DEF Product
  <2> HIDE DEF scheme
  <2>2. build(scheme, q.key, q.lot, q.serial) # Invalid
    BY <1>1, <2>1, Zenon
  <2> QED BY <2>1, <2>2, BuildIs, ZenonT(60)
<1>4. Product(q).serial # None => Product(q).granularity = "item"
  <2>1. PICK scheme : Product(q) = [scheme |-> scheme, key |-> q.key, lot |-> q.lot,
                                    serial |-> q.serial,
                                    granularity |-> granularity(scheme, q.lot, q.serial)]
    BY <1>3
  <2> DEFINE g == granularity(scheme, q.lot, q.serial)
  <2>2. q.serial # None => g = "item"
    BY Zenon DEF granularity
  <2>4. Product(q) = [scheme |-> scheme, key |-> q.key, lot |-> q.lot,
                      serial |-> q.serial, granularity |-> g]
    BY <2>1
  <2> HIDE DEF g
  <2>3. Product(q).serial = q.serial /\ Product(q).granularity = g
    BY <2>4
  <2> QED BY <2>2, <2>3, Zenon
<1>5. CASE q.scheme.token = "gtin"
  <2> DEFINE id == build(Scheme(IF q.serial = None THEN "gtin" ELSE "sgtin"),
                         q.key, q.lot, q.serial)
  <2>1. Product(q) = id
    <3>1. q.serial = None => Product(q) = id
      BY <1>2, <1>5, Zenon DEF Product
    <3>2. q.serial # None => Product(q) = id
      BY <1>2, <1>5, Zenon DEF Product
    <3> QED BY <3>1, <3>2
  <2>2. Len(q.key) = 1 /\ q.key[1] \in DigitKeys
    <3> DEFINE scheme == Scheme(IF q.serial = None THEN "gtin" ELSE "sgtin")
    <3>1. requires_digits(scheme)
      <4>1. q.serial = None => scheme = Scheme("gtin")
        BY Zenon
      <4>2. q.serial # None => scheme = Scheme("sgtin")
        BY Zenon
      <4> HIDE DEF scheme
      <4> QED BY <4>1, <4>2, GtinDigits, Zenon
    <3>2. Product(q) = build(scheme, q.key, q.lot, q.serial)
      BY <2>1
    <3> HIDE DEF scheme
    <3>3. build(scheme, q.key, q.lot, q.serial) # Invalid
      BY <1>1a, <3>2, Zenon
    <3> QED BY <3>1, <3>3, BuildIs, Zenon
  <2>3. q.key = <<q.key[1]>>
    BY <1>1, <2>2
  <2>4. /\ parse(<< <<"01">>, q.key >> \o A \o B) = id
        /\ parse(<< <<"01">>, q.key, <<"17">>, <<"261118">> >> \o A \o B) = id
    BY <1>1, <1>3, GtinRead, Zenon
  <2>5. ASSUME NEW prefix \in {"gtin", "GTIN"} \cup (IF q.serial = None THEN {} ELSE {"SGTIN"})
        PROVE  parse(<< <<prefix, q.key[1]>> >> \o A \o B) = id
    <3>1. prefix \in {"gtin", "GTIN", "SGTIN"} \cup Tokens /\ (prefix = "SGTIN" => q.serial # None)
      BY Zenon
    <3>2. <<prefix>> \o q.key = <<prefix, q.key[1]>>
      <4>1. \A a, b : <<a>> \o <<b>> = <<a, b>>
        BY ONLY TwoParts
      <4> QED BY <2>3, <4>1, Zenon
    <3>3. parse(<<(<<prefix>> \o q.key)>> \o A \o B)
            = build(Scheme(IF squash(prefix) # "gtin" THEN squash(prefix)
                           ELSE IF q.serial = None THEN "gtin" ELSE "sgtin"),
                    q.key, q.lot, q.serial)
      BY <1>1, <1>3, <3>1, TokenRead, Zenon
    <3>4. (IF squash(prefix) # "gtin" THEN squash(prefix)
           ELSE IF q.serial = None THEN "gtin" ELSE "sgtin")
             = IF q.serial = None THEN "gtin" ELSE "sgtin"
      <4>1. CASE prefix = "SGTIN"
        BY <3>1, <4>1, Squashed, Zenon
      <4>2. CASE prefix # "SGTIN"
        <5>1. squash(prefix) = "gtin"
          BY <4>2, Squashed, Zenon
        <5> QED BY <5>1, Zenon
      <4> QED BY <4>1, <4>2
    <3> QED BY <3>2, <3>3, <3>4, Zenon
  <2>6. ASSUME q.lot = None, q.serial = None, Len(q.key[1]) \in 4..14
        PROVE  parse(<<q.key>> \o A \o B) = id
    <3> DEFINE text == <<q.key>> \o A \o B
    <3>1. EndsWith(text, 1, q.lot, q.serial) /\ text[1] = q.key
      BY ONLY <1>1, OneHead
    <3> HIDE DEF text
    <3>2. Len(text) = 1
      BY <2>6, <3>1, Zenon DEF EndsWith
    <3>3. ~(1 > 1)
      OBVIOUS
    <3>4. parse(text) = build(Scheme("gtin"), text[1], None, None)
      BY <2>2, <2>6, <3>1, <3>2, <3>3, Zenon DEF parse
    <3> QED BY <2>6, <3>1, <3>4, Zenon DEF text
  <2>7. \A H \in GtinHeads(q) : parse(H \o A \o B) = id
    <3> HIDE DEF A, B, id
    <3> SUFFICES ASSUME NEW H \in GtinHeads(q) PROVE parse(H \o A \o B) = id
      OBVIOUS
    <3>1. \/ \E prefix \in {"gtin", "GTIN"} \cup (IF q.serial = None THEN {} ELSE {"SGTIN"}) :
               H = << <<prefix, q.key[1]>> >>
          \/ H = << <<"01">>, q.key >>
          \/ H = << <<"01">>, q.key, <<"17">>, <<"261118">> >>
          \/ H = <<q.key>> /\ q.lot = None /\ q.serial = None /\ Len(q.key[1]) \in 4..14
      BY Zenon DEF GtinHeads
    <3> QED BY <2>4, <2>5, <2>6, <3>1, Zenon
  <2>8. \A text \in Spellings(q) : parse(text) = id
    BY <1>5, <2>7, Zenon DEF Spellings
  <2>9. display(id) = << <<"01">>, q.key >> \o A \o B
    <3> DEFINE scheme == Scheme(IF q.serial = None THEN "gtin" ELSE "sgtin")
    <3>1. scheme.token \in {"gtin", "sgtin"}
      BY DEF Scheme
    <3>2. id = [scheme |-> scheme, key |-> q.key, lot |-> q.lot, serial |-> q.serial,
                granularity |-> granularity(scheme, q.lot, q.serial)]
      <4>1. id # Invalid
        BY <1>1, <2>1
      <4> QED BY <4>1, BuildIs, ZenonT(60)
    <3> HIDE DEF id, scheme
    <3>3. id.scheme = scheme /\ id.key = q.key /\ id.lot = q.lot /\ id.serial = q.serial
      BY <3>2
    <3> QED BY <3>1, <3>3, Zenon DEF display, Head1
  <2> QED BY <1>4, <2>1, <2>4, <2>8, <2>9, Zenon
<1>6. CASE q.scheme.token = "local"
  <2> DEFINE id == build(q.scheme, q.key, q.lot, q.serial)
  <2>1. Product(q) = id
    <3>1. Scheme("gtin").token = "gtin"
      BY DEF Scheme
    <3>2. q.scheme # Scheme("gtin")
      BY <1>6, <3>1, Zenon
    <3> QED BY <3>2, Zenon DEF Product
  <2>2. ASSUME NEW tag, squash(tag) = q.scheme.tag, NEW word \in {"local", "LOCAL"}
        PROVE  parse(<<(<<word, tag>> \o q.key)>> \o A \o B) = id
    <3>1. parse(<<(<<word, tag>> \o q.key)>> \o A \o B)
            = build(Local(squash(tag)), q.key, q.lot, q.serial)
      <4>1. q.key # << >>
        BY <1>3, Zenon
      <4> QED BY ONLY <1>1b, <4>1, word \in {"local", "LOCAL"}, LocalRead, Zenon
    <3> QED BY <1>2, <1>6, <2>2, <3>1, Zenon
  <2>3. \A H \in LocalHeads(q) : parse(H \o A \o B) = id
    <3> HIDE DEF A, B, id
    <3> SUFFICES ASSUME NEW H \in LocalHeads(q) PROVE parse(H \o A \o B) = id
      OBVIOUS
    <3>1. PICK word \in {"local", "LOCAL"}, tag \in q.tags : H = << <<word, tag>> \o q.key >>
      BY LocalHeadIs, Zenon
    <3>2. squash(tag) = q.scheme.tag
      BY <1>1, <1>6, Zenon
    <3> QED BY <2>2, <3>1, <3>2, Zenon
  <2>4. \A text \in Spellings(q) : parse(text) = id
    BY <1>6, <2>3, Zenon DEF Spellings
  <2>5. display(id) = <<(<<"local", q.scheme.tag>> \o q.key)>> \o A \o B
    <3>1. id = [scheme |-> q.scheme, key |-> q.key, lot |-> q.lot, serial |-> q.serial,
                granularity |-> granularity(q.scheme, q.lot, q.serial)]
      <4>1. id # Invalid
        BY <1>1, <2>1
      <4> QED BY <4>1, BuildIs, Zenon
    <3> HIDE DEF id
    <3>2. id.scheme = q.scheme /\ id.key = q.key /\ id.lot = q.lot /\ id.serial = q.serial
      BY <3>1
    <3>3. id.scheme.token = "local" /\ "local" \notin {"gtin", "sgtin"}
      BY <1>6, <3>2, Zenon
    <3>4. Head1(id) = <<(<<"local", q.scheme.tag>> \o q.key)>>
      BY <3>2, <3>3, Zenon DEF Head1
    <3> QED BY <3>2, <3>4, Zenon DEF display
  <2>6. parse(display(id)) = id
    BY <1>2, <1>6, <2>2, <2>5, Zenon
  <2> QED BY <1>4, <2>1, <2>4, <2>6, Zenon
<1> QED BY <1>1, <1>5, <1>6

\* What Built questions ask about is what build makes of its parts.
LEMMA SerialledIs ==
  ASSUME NEW q, BuiltAsked(q)
  PROVE  LET id == Serialled(q)
         IN  /\ id = build(q.lotted.scheme, q.lotted.key, q.lotted.lot, q.serial)
             /\ id # Invalid
<1> DEFINE scheme == q.lotted.scheme
           key == q.lotted.key
           lot == q.lotted.lot
<1>1. q.lotted # Invalid /\ q.lotted = build(scheme, key, lot, None) /\ Serialled(q) # Invalid
      /\ Long(q.serial)
  BY Zenon DEF BuiltAsked
<1>2. CASE q.serial = None
  BY <1>1, <1>2, Zenon DEF Serialled
<1>3. CASE q.serial # None
  <2> DEFINE g == granularity(scheme, lot, q.serial)
             g0 == granularity(scheme, lot, None)
             Refused == \/ key \in {<< >>, <<"">>}
                        \/ requires_digits(scheme)
                           /\ ~(Len(key) = 1 /\ key[1] \in DigitKeys /\ Len(key[1]) <= 14)
  <2>1. Serialled(q) = [q.lotted EXCEPT !.serial = q.serial, !.granularity = g]
    BY <1>1, <1>3, Zenon DEF Serialled, with_serial
  <2>2. /\ build(scheme, key, lot, None) =
             IF Refused THEN Invalid
             ELSE [scheme |-> scheme, key |-> key, lot |-> lot, serial |-> None, granularity |-> g0]
        /\ build(scheme, key, lot, q.serial) =
             IF Refused THEN Invalid
             ELSE [scheme |-> scheme, key |-> key, lot |-> lot, serial |-> q.serial,
                   granularity |-> g]
    BY Zenon DEF build
  <2> HIDE DEF g, g0, Refused
  <2>3. /\ q.lotted = [scheme |-> scheme, key |-> key, lot |-> lot, serial |-> None,
                       granularity |-> g0]
        /\ build(scheme, key, lot, q.serial)
             = [scheme |-> scheme, key |-> key, lot |-> lot, serial |-> q.serial,
                granularity |-> g]
    BY <1>1, <2>2, Zenon
  <2> HIDE DEF scheme, key, lot
  <2>4. Serialled(q) = [scheme |-> scheme, key |-> key, lot |-> lot, serial |-> q.serial,
                        granularity |-> g]
    <3> DEFINE r == [scheme |-> scheme, key |-> key, lot |-> lot, serial |-> None,
                     granularity |-> g0]
               v == q.serial
    <3>1. Serialled(q) = [r EXCEPT !.serial = v, !.granularity = g]
      BY <2>1, <2>3, Zenon
    <3>0. r = [scheme |-> scheme, key |-> key, lot |-> lot, serial |-> None, granularity |-> g0]
      OBVIOUS
    <3> HIDE DEF v, r
    <3> DEFINE two == [scheme |-> scheme, key |-> key, lot |-> lot, serial |-> v,
                       granularity |-> g0]
    <3>2. [r EXCEPT !.serial = v] = two
      BY <3>0
    <3>3. [two EXCEPT !.granularity = g]
            = [scheme |-> scheme, key |-> key, lot |-> lot, serial |-> v, granularity |-> g]
      OBVIOUS
    <3> HIDE DEF two
    <3>4. [r EXCEPT !.serial = v, !.granularity = g] =
            [[r EXCEPT !.serial = v] EXCEPT !.granularity = g]
      BY <3>0
    <3> QED BY <3>1, <3>2, <3>3, <3>4, Zenon DEF v, two
  <2> QED BY <1>1, <2>3, <2>4, Zenon DEF scheme, key, lot
<1> QED BY <1>2, <1>3

\* Words of one part each.
Parts == {<<word>> : word \in STRING \cup {"10", "21"}}

LEMMA LongExtension ==
  ASSUME NEW value, Long(value), NEW ai \in {"10", "21"}
  PROVE  Extension(ai, value) \in Seq(Parts)
<1> DEFINE All == STRING \cup {"10", "21"}
<1>1. CASE value = None
  <2>1. Extension(ai, value) = << >>
    BY <1>1, Zenon DEF Extension
  <2> QED BY <2>1
<1>2. CASE value # None
  <2>1. value \in Seq(STRING) /\ ai \in All
    BY <1>2 DEF Long
  <2>2. \A s \in All : <<s>> \in Parts
    BY Zenon DEF Parts
  <2>3. \A i \in 1..Len(value) : value[i] \in All
    BY <2>1
  <2> HIDE DEF All
  <2>4. \A i \in 1..Len(value) : <<value[i]>> \in Parts
    BY <2>2, <2>3, Zenon
  <2>5. Len(value) \in Nat
    BY <2>1
  <2> DEFINE w(i) == <<value[i]>>
  <2> HIDE DEF w
  <2>6. [i \in 1..Len(value) |-> w(i)] \in Seq(Parts)
    BY <2>4, <2>5 DEF w
  <2>7. Words(value) \in Seq(Parts)
    BY <2>6, Zenon DEF Words, w
  <2> DEFINE h == <<ai>>
  <2>8. h \in Parts
    BY <2>1, <2>2, Zenon
  <2> HIDE DEF h
  <2>9. <<h>> \in Seq(Parts)
    BY <2>8
  <2>10. <<h>> \o Words(value) \in Seq(Parts)
    BY <2>7, <2>9, ConcatIs, Zenon
  <2> QED BY <1>2, <2>10, Zenon DEF Extension, h
<1> QED BY <1>1, <1>2

\* What stands behind the start of a text that carries extensions of any length.
Continues(text, start) ==
  /\ Len(text) \in Nat /\ Len(text) >= Len(start)
  /\ \A i \in 1..Len(start) : text[i] = start[i]
  /\ \A i \in Len(start)+1..Len(text) : Len(text[i]) = 1

LEMMA LongText ==
  ASSUME NEW S, NEW H \in Seq(S), NEW lot, NEW serial, Long(lot), Long(serial)
  PROVE  Continues(H \o Extension("10", lot) \o Extension("21", serial), H)
<1> DEFINE A == Extension("10", lot)
           B == Extension("21", serial)
           T == S \cup Parts
           HA == H \o A
           text == HA \o B
<1>1. A \in Seq(Parts) /\ B \in Seq(Parts)
  BY LongExtension, Zenon
<1> HIDE DEF A, B
<1>2. H \in Seq(T) /\ A \in Seq(T) /\ B \in Seq(T)
  BY <1>1, SeqMonotonic, Zenon
<1> HIDE DEF T
<1>3. HA \in Seq(T) /\ IsConcat(HA, H, A)
  BY <1>2, ConcatIs, Zenon
<1> HIDE DEF HA
<1>4. text \in Seq(T) /\ IsConcat(text, HA, B)
  BY <1>2, <1>3, ConcatIs, Zenon
<1>5. \A part \in Parts : Len(part) = 1
  BY DEF Parts
<1> HIDE DEF text
<1>6. /\ Len(HA) = Len(H) + Len(A) /\ Len(text) = Len(HA) + Len(B)
      /\ Len(H) \in Nat /\ Len(A) \in Nat /\ Len(B) \in Nat
  BY <1>1, <1>3, <1>4 DEF IsConcat
<1>7. \A i \in 1..Len(H) : text[i] = H[i]
  <2>1. \A i \in 1..Len(H) : i \in 1..Len(HA)
    BY <1>6
  <2> QED BY <1>3, <1>4, <2>1 DEF IsConcat
<1>8. ASSUME NEW i \in Len(H)+1..Len(text) PROVE Len(text[i]) = 1
  <2>1. CASE i \in 1..Len(HA)
    <3>1. i - Len(H) \in 1..Len(A) /\ i = Len(H) + (i - Len(H))
      BY <1>6, <2>1
    <3>2. text[i] = A[i - Len(H)]
      <4>1. text[i] = HA[i]
        BY <1>4, <2>1, Zenon DEF IsConcat
      <4>2. HA[Len(H) + (i - Len(H))] = A[i - Len(H)]
        BY <1>3, <3>1, Zenon DEF IsConcat
      <4> QED BY <3>1, <4>1, <4>2
    <3> QED BY <1>1, <1>5, <3>1, <3>2
  <2>2. CASE i \notin 1..Len(HA)
    <3>1. i - Len(HA) \in 1..Len(B) /\ i = Len(HA) + (i - Len(HA))
      BY <1>6, <2>2
    <3>2. text[i] = B[i - Len(HA)]
      <4>1. text[Len(HA) + (i - Len(HA))] = B[i - Len(HA)]
        BY <1>4, <3>1, Zenon DEF IsConcat
      <4> QED BY <3>1, <4>1
    <3> QED BY <1>1, <1>5, <3>1, <3>2
  <2> QED BY <2>1, <2>2
<1>9. Len(text) \in Nat /\ Len(text) >= Len(H)
  BY <1>6
<1>10. Continues(text, H)
  BY <1>7, <1>8, <1>9 DEF Continues
<1> QED BY <1>10, Zenon DEF text, HA, A, B

\* The pairs of a text of any length.
LEMMA AnyPairs ==
  ASSUME NEW text, NEW first \in {1, 2}, Len(text) \in Nat, Len(text) >= first - 1
  PROVE  LET pairs == PairsFrom(text, first)
         IN  /\ Len(pairs) \in Nat
             /\ \A i \in 1..Len(pairs) : /\ pairs[i].ai = text[first + 2*i - 2]
                                         /\ pairs[i].value = text[first + 2*i - 1]
                                         /\ first + 2*i - 1 \in first+1..Len(text)
<1> DEFINE n == (Len(text) - first + 1) \div 2
           pair(i) == [ai |-> text[first + 2*i - 2], value |-> text[first + 2*i - 1]]
           pairs == [i \in 1..n |-> pair(i)]
<1>1. n \in Nat /\ 2 * n <= Len(text) - first + 1
  OBVIOUS
<1>2. PairsFrom(text, first) = pairs
  BY Zenon DEF PairsFrom
<1> HIDE DEF n
<1>3. Len(pairs) = n /\ \A i \in 1..n : pairs[i] = pair(i)
  BY <1>1
<1>4. \A i \in 1..n : /\ pairs[i].ai = text[first + 2*i - 2]
                      /\ pairs[i].value = text[first + 2*i - 1]
  BY <1>3
<1>5. \A i \in 1..n : first + 2*i - 1 \in first+1..Len(text)
  BY <1>1
<1> HIDE DEF pairs
<1> QED BY <1>1, <1>2, <1>3, <1>4, <1>5

\* The extensions of a text are some of its first pairs.
LEMMA ExtensionsAre ==
  ASSUME NEW text, Len(text) \in Nat, Len(text) >= 1
  PROVE  LET pairs == PairsFrom(text, 2)
         IN  /\ Len(extensions(text)) \in Nat /\ Len(extensions(text)) <= Len(pairs)
             /\ \A i \in 1..Len(extensions(text)) : extensions(text)[i] = pairs[i]
<1> DEFINE pairs == PairsFrom(text, 2)
           Good(i) == pairs[i].ai \in {<<"10">>, <<"21">>}
           KnownUpTo(n) == /\ \A i \in 1..n : Good(i)
                           /\ n < Len(pairs) => ~Good(n+1)
           known == CHOOSE n \in 0..Len(pairs) : KnownUpTo(n)
<1>1. Len(pairs) \in Nat
  BY AnyPairs
<1>2. extensions(text) = SubSeq(pairs, 1, known)
  BY Zenon DEF extensions
<1> HIDE DEF pairs, Good
<1>3. \E n \in 0..Len(pairs) : KnownUpTo(n)
  <2> DEFINE N == {n \in 1..Len(pairs)+1 : \A i \in 1..n-1 : Good(i)}
  <2>1. N \subseteq 1..Len(pairs)+1 /\ 1 \in N /\ Len(pairs) + 1 \in Nat
    BY <1>1
  <2> HIDE DEF N
  <2>2. PICK n \in N : \A m \in N : m <= n
    <3>1. N # {}
      BY <2>1
    <3> QED BY <2>1, <3>1, GreatestElement
  <2>3. n \in 1..Len(pairs)+1 /\ \A i \in 1..n-1 : Good(i)
    BY <2>2 DEF N
  <2>4. ASSUME n - 1 < Len(pairs), Good(n) PROVE FALSE
    <3>1. n + 1 \in 1..Len(pairs)+1 /\ \A i \in 1..n+1-1 : i = n \/ i \in 1..n-1
      BY <1>1, <2>3, <2>4
    <3>2. n + 1 \in N
      BY <2>3, <2>4, <3>1 DEF N
    <3> QED BY <2>2, <2>3, <3>2
  <2>5. n - 1 \in 0..Len(pairs) /\ n - 1 + 1 = n
    BY <1>1, <2>3
  <2>6. KnownUpTo(n-1)
    BY <2>3, <2>4, <2>5
  <2> HIDE DEF KnownUpTo
  <2> QED BY <2>5, <2>6, Zenon
<1>4. known \in 0..Len(pairs)
  <2> HIDE DEF KnownUpTo
  <2> QED BY <1>3, Zenon
<1> HIDE DEF known
<1>5. /\ Len(SubSeq(pairs, 1, known)) = known
      /\ \A i \in 1..known : SubSeq(pairs, 1, known)[i] = pairs[i]
  BY <1>1, <1>4
<1> QED BY <1>1, <1>2, <1>4, <1>5 DEF pairs

OneLong(value) == value = None \/ Len(value) = 1
OfParts(id) == \E scheme, key, lot, serial :
                 /\ id = build(scheme, key, lot, serial)
                 /\ OneLong(lot) /\ OneLong(serial)
OfGtin(id) == \E key, lot, serial :
                /\ id = build(Scheme(IF serial = None THEN "gtin" ELSE "sgtin"), key, lot, serial)
                /\ OneLong(lot) /\ OneLong(serial)

\* Behind a GTIN only a lot and a serial of one word can be read.
LEMMA ElementParts ==
  ASSUME NEW text, Len(text) \in Nat, Len(text) >= 2, text[1] = ZeroOne,
         \A i \in 3..Len(text) : Len(text[i]) = 1, parse(text) # Invalid
  PROVE  OfGtin(parse(text))
<1> DEFINE pairs == PairsFrom(text, 1)
           lot == LastOf(pairs, Ten)
           serial == LastOf(pairs, TwentyOne)
           key == LastOf(pairs, ZeroOne)
<1>1. parse(text) = element_string(text)
  <2>1. Len(ZeroOne) = 1
    BY DEF ZeroOne
  <2>2. ~(Len(text[1]) > 1) /\ Len(text) # 1 /\ Len(text) > 1
    BY <2>1
  <2> QED BY <2>2, Zenon DEF parse, ZeroOne
<1>2. element_string(text) =
        build(Scheme(IF serial = None THEN "gtin" ELSE "sgtin"), key, lot, serial)
  <2> DEFINE refused == \/ Len(text) % 2 # 0
                        \/ \E i \in 1..Len(pairs) :
                             \/ pairs[i].value = <<"">>
                             \/ pairs[i].ai \notin {<<"01">>, <<"10">>, <<"21">>,
                                                     <<"11">>, <<"17">>, <<"240">>}
             made == build(Scheme(IF serial = None THEN "gtin" ELSE "sgtin"), key, lot, serial)
  <2>1. element_string(text) = IF refused THEN Invalid ELSE made
    BY Zenon DEF element_string, Ten, TwentyOne, ZeroOne
  <2> HIDE DEF refused, made
  <2>2. element_string(text) = made
    BY <1>1, <2>1, Zenon
  <2> QED BY <2>2 DEF made
<1>3. /\ Len(pairs) \in Nat
      /\ \A i \in 1..Len(pairs) : /\ pairs[i].ai = text[1 + 2*i - 2]
                                  /\ pairs[i].value = text[1 + 2*i - 1]
                                  /\ 1 + 2*i - 1 \in 1+1..Len(text)
  <2> DEFINE first == 1
  <2>1. first \in {1, 2} /\ Len(text) >= first - 1
    OBVIOUS
  <2> HIDE DEF first
  <2>2. LET p == PairsFrom(text, first)
        IN  /\ Len(p) \in Nat
            /\ \A i \in 1..Len(p) : /\ p[i].ai = text[first + 2*i - 2]
                                    /\ p[i].value = text[first + 2*i - 1]
                                    /\ first + 2*i - 1 \in first+1..Len(text)
    BY <2>1, AnyPairs, Zenon
  <2> QED BY <2>2 DEF first
<1> HIDE DEF pairs
<1>4. ASSUME NEW ai \in {Ten, TwentyOne} PROVE OneLong(LastOf(pairs, ai))
  <2> SUFFICES ASSUME LastOf(pairs, ai) # None PROVE Len(LastOf(pairs, ai)) = 1
    BY Zenon DEF OneLong
  <2>1. PICK i \in 1..Len(pairs) : pairs[i].ai = ai /\ LastOf(pairs, ai) = pairs[i].value
    BY <1>3, LastOfOneOf
  <2>2. i # 1
    <3> SUFFICES ASSUME i = 1 PROVE FALSE
      OBVIOUS
    <3>1. 1 + 2*1 - 2 = 1
      OBVIOUS
    <3>2. pairs[1].ai = ZeroOne
      BY <1>3, <3>1
    <3> QED BY <2>1, <3>2, Different, Zenon
  <2>3. 1 + 2*i - 1 \in 3..Len(text)
    BY <1>3, <2>2
  <2> QED BY <1>3, <2>1, <2>3
<1>5. OneLong(lot) /\ OneLong(serial)
  BY <1>4, Zenon
<1> HIDE DEF lot, serial, key
<1> QED BY <1>1, <1>2, <1>5, Zenon DEF OfGtin

\* So it is behind a prefix.
LEMMA PrefixParts ==
  ASSUME NEW text, Len(text) \in Nat, Len(text) >= 1, Len(text[1]) \in Nat, Len(text[1]) > 1,
         text[1][1] \notin {"http", "https"},
         \A i \in 2..Len(text) : Len(text[i]) = 1, parse(text) # Invalid
  PROVE  OfParts(parse(text))
<1> DEFINE pairs == PairsFrom(text, 2)
           some == extensions(text)
           lot == LastOf(some, <<"10">>)
           serial == LastOf(some, <<"21">>)
<1>1. parse(text) = prefixed(text)
  <2>1. text[1] # ZeroOne
    <3>1. Len(ZeroOne) = 1
      BY DEF ZeroOne
    <3>2. Len(text[1]) # 1
      BY OverOne, Zenon
    <3> QED BY <3>1, <3>2, Zenon
  <2>2. Len(text[1]) # 1
    BY OverOne, Zenon
  <2> QED BY <2>1, <2>2, Zenon DEF parse, ZeroOne
<1>2. \E scheme, key : prefixed(text) = build(scheme, key, lot, serial)
  <2> DEFINE word == squash(text[1][1])
             key == Tail(text[1])
             B(s, k) == build(s, k, lot, serial)
  <2>1. prefixed(text) =
          CASE word = "local" -> IF Len(key) < 2 THEN Invalid
                                 ELSE B(Local(squash(key[1])), Tail(key))
            [] word = "gtin"  -> B(Scheme(IF serial = None THEN "gtin" ELSE "sgtin"), key)
            [] word \in Tokens \ {"gtin"} -> B(Scheme(word), key)
            [] OTHER -> Invalid
    BY Zenon DEF prefixed
  <2> HIDE DEF B, word, key
  <2>2. "local" # "gtin" /\ "local" \notin Tokens
    BY Zenon DEF Tokens
  <2>3. \E s, k : prefixed(text) = B(s, k)
    <3>0. prefixed(text) # Invalid
      BY <1>1
    <3>1. CASE word = "local"
      <4>1. word # "gtin" /\ word \notin Tokens
        BY <2>2, <3>1, Zenon
      <4> QED BY <2>1, <3>0, <3>1, <4>1, Zenon
    <3>2. CASE word = "gtin"
      <4>1. word # "local"
        BY <2>2, <3>2, Zenon
      <4> QED BY <2>1, <3>2, <4>1, Zenon
    <3>3. CASE word # "local" /\ word # "gtin"
      <4>1. word \in Tokens \ {"gtin"} => prefixed(text) = B(Scheme(word), key)
        BY <2>1, <3>3, Zenon
      <4>2. word \notin Tokens \ {"gtin"} => prefixed(text) = Invalid
        BY <2>1, <3>3, Zenon
      <4> QED BY <3>0, <4>1, <4>2, Zenon
    <3> QED BY <3>1, <3>2, <3>3, Zenon
  <2> QED BY <2>3, Zenon DEF B
<1>3. /\ Len(pairs) \in Nat
      /\ \A i \in 1..Len(pairs) : /\ pairs[i].value = text[2 + 2*i - 1]
                                  /\ 2 + 2*i - 1 \in 2+1..Len(text)
  <2> DEFINE first == 2
  <2>1. first \in {1, 2} /\ Len(text) >= first - 1
    OBVIOUS
  <2> HIDE DEF first
  <2>2. LET p == PairsFrom(text, first)
        IN  /\ Len(p) \in Nat
            /\ \A i \in 1..Len(p) : /\ p[i].ai = text[first + 2*i - 2]
                                    /\ p[i].value = text[first + 2*i - 1]
                                    /\ first + 2*i - 1 \in first+1..Len(text)
    BY <2>1, AnyPairs, Zenon
  <2> QED BY <2>2 DEF first
<1>4. Len(some) \in Nat /\ Len(some) <= Len(pairs) /\ \A i \in 1..Len(some) : some[i] = pairs[i]
  BY ExtensionsAre, Zenon
<1> HIDE DEF pairs, some
<1>5. ASSUME NEW ai PROVE OneLong(LastOf(some, ai))
  <2> SUFFICES ASSUME LastOf(some, ai) # None PROVE Len(LastOf(some, ai)) = 1
    BY Zenon DEF OneLong
  <2>1. PICK i \in 1..Len(some) : some[i].ai = ai /\ LastOf(some, ai) = some[i].value
    BY <1>4, LastOfOneOf
  <2>2. i \in 1..Len(pairs) /\ some[i] = pairs[i]
    BY <1>3, <1>4
  <2>3. 2 + 2*i - 1 \in 2..Len(text) /\ some[i].value = text[2 + 2*i - 1]
    BY <1>3, <2>2
  <2> QED BY <2>1, <2>3
<1>6. OneLong(lot) /\ OneLong(serial)
  BY <1>5, Zenon
<1> HIDE DEF lot, serial
<1> QED BY <1>1, <1>2, <1>6, Zenon DEF OfParts

MadeOf(id, s, k, l, v) == id.scheme = s /\ id.key = k /\ id.lot = l /\ id.serial = v

\* What was built has the parts it was built of.
LEMMA BuildParts ==
  ASSUME NEW s, NEW k, NEW l, NEW v, build(s, k, l, v) # Invalid
  PROVE  MadeOf(build(s, k, l, v), s, k, l, v)
<1> DEFINE g == granularity(s, l, v)
           id == build(s, k, l, v)
<1>1. id = [scheme |-> s, key |-> k, lot |-> l, serial |-> v, granularity |-> g]
  BY BuildIs, Zenon
<1> HIDE DEF g, id
<1>2. id.scheme = s /\ id.key = k /\ id.lot = l /\ id.serial = v
  BY <1>1
<1> QED BY <1>2, Zenon DEF id, MadeOf

LEMMA LongShort ==
  ASSUME NEW value, Long(value), OneLong(value) PROVE Short(value)
<1>1. CASE value = None
  BY <1>1, Zenon DEF Short
<1>2. CASE value # None
  <2>1. value \in Seq(STRING) /\ Len(value) = 1 /\ value # <<"">>
    BY <1>2, Zenon DEF Long, OneLong
  <2>2. value = <<value[1]>>
    <3>1. \A S : \A w \in Seq(S) : Len(w) = 1 => w = <<w[1]>>
      OBVIOUS
    <3> QED BY <2>1, <3>1, Zenon
  <2> QED BY <2>1, <2>2, Zenon DEF Short
<1> QED BY <1>1, <1>2

LEMMA TwoAndKey ==
  ASSUME NEW a, NEW b, NEW S, NEW key \in Seq(S)
  PROVE  LET x == <<a, b>> \o key IN Len(x) \in Nat /\ Len(x) > 1 /\ x[1] = a
<1> DEFINE T == S \cup {a, b}
           h == <<a, b>>
           x == h \o key
<1>1. h \in Seq(T) /\ key \in Seq(T)
  <2>1. a \in T /\ b \in T /\ S \subseteq T
    OBVIOUS
  <2> HIDE DEF T
  <2> QED BY <2>1, SmallSeqs, SeqMonotonic, Zenon
<1>2. Len(h) = 2 /\ h[1] = a
  OBVIOUS
<1> HIDE DEF h, T
<1>3. x \in Seq(T) /\ IsConcat(x, h, key)
  BY <1>1, ConcatIs, Zenon
<1> HIDE DEF x
<1>4. Len(x) \in Nat /\ Len(x) > 1 /\ x[1] = a
  BY <1>1, <1>2, <1>3 DEF IsConcat
<1> QED BY <1>4, Zenon DEF x, h

\* A text whose first part is no GTIN's application identifier.
LEMMA LongPrefixed ==
  ASSUME NEW x, NEW lot, NEW serial, Long(lot), Long(serial),
         Len(x) \in Nat, Len(x) > 1, x[1] \notin {"http", "https"}
  PROVE  LET text == <<x>> \o Extension("10", lot) \o Extension("21", serial)
         IN  parse(text) # Invalid => OfParts(parse(text))
<1> DEFINE S == {x}
           h == <<x>>
           text == h \o Extension("10", lot) \o Extension("21", serial)
<1>1. x \in S
  OBVIOUS
<1> HIDE DEF S
<1>2. h \in Seq(S)
  BY <1>1
<1>3. Len(h) = 1 /\ h[1] = x
  OBVIOUS
<1> HIDE DEF h
<1>4. Continues(text, h)
  BY <1>2, LongText, Zenon
<1> HIDE DEF text
<1>5. /\ Len(text) \in Nat /\ Len(text) >= 1 /\ text[1] = x
      /\ \A i \in 2..Len(text) : Len(text[i]) = 1
  BY <1>3, <1>4 DEF Continues
<1>6. parse(text) # Invalid => OfParts(parse(text))
  <2>1. /\ Len(text) \in Nat /\ Len(text) >= 1 /\ Len(text[1]) \in Nat /\ Len(text[1]) > 1
        /\ text[1][1] \notin {"http", "https"}
    BY <1>5, Zenon
  <2>2. \A i \in 2..Len(text) : Len(text[i]) = 1
    BY <1>5
  <2> QED BY <2>1, <2>2, PrefixParts, Zenon
<1> QED BY <1>6, Zenon DEF text, h

LEMMA LongElement ==
  ASSUME NEW key, NEW lot, NEW serial, Long(lot), Long(serial)
  PROVE  LET text == <<ZeroOne, key>> \o Extension("10", lot) \o Extension("21", serial)
         IN  parse(text) # Invalid => OfGtin(parse(text))
<1> DEFINE S == {ZeroOne, key}
           h == <<ZeroOne, key>>
           text == h \o Extension("10", lot) \o Extension("21", serial)
<1>1. ZeroOne \in S /\ key \in S
  OBVIOUS
<1> HIDE DEF S
<1>2. h \in Seq(S)
  BY <1>1, SmallSeqs, Zenon
<1>3. Len(h) = 2 /\ h[1] = ZeroOne
  OBVIOUS
<1> HIDE DEF h
<1>4. Continues(text, h)
  BY <1>2, LongText, Zenon
<1> HIDE DEF text
<1>5. /\ Len(text) \in Nat /\ Len(text) >= 2 /\ text[1] = ZeroOne
      /\ \A i \in 3..Len(text) : Len(text[i]) = 1
  BY <1>3, <1>4 DEF Continues
<1>6. parse(text) # Invalid => OfGtin(parse(text))
  <2>1. Len(text) \in Nat /\ Len(text) >= 2 /\ text[1] = ZeroOne
    BY <1>5
  <2>2. \A i \in 3..Len(text) : Len(text[i]) = 1
    BY <1>5
  <2> QED BY <2>1, <2>2, ElementParts, Zenon
<1> QED BY <1>6, Zenon DEF text, h

\* An identifier that was built reads back exactly when ReadsBack says so.
LEMMA RoundTrip ==
  ASSUME NEW q, BuiltAsked(q)
  PROVE  parse(display(Serialled(q))) = Serialled(q) <=> ReadsBack(Serialled(q))
<1> DEFINE s == q.lotted.scheme
           k == q.lotted.key
           l == q.lotted.lot
           v == q.serial
           id == Serialled(q)
           text == display(id)
<1>1. Known(s) /\ k \in Seq(STRING) /\ Long(l) /\ Long(v)
  BY Zenon DEF BuiltAsked
<1>2. id = build(s, k, l, v) /\ id # Invalid
  BY SerialledIs, Zenon
<1> HIDE DEF s, k, l, v, id
<1>3. /\ id = [scheme |-> s, key |-> k, lot |-> l, serial |-> v,
               granularity |-> granularity(s, l, v)]
      /\ k # << >> /\ k # <<"">>
  BY <1>2, BuildIs, Zenon
<1>4. id.scheme = s /\ id.key = k /\ id.lot = l /\ id.serial = v
  BY <1>3
<1>5. ReadsBack(id) <=>
        /\ s.token \in {"gtin", "sgtin"} => (s.token = "sgtin" <=> v # None)
        /\ OneLong(l) /\ OneLong(v)
  BY <1>4, Zenon DEF ReadsBack, OneLong
<1>6. text = Head1(id) \o Extension("10", l) \o Extension("21", v)
  BY <1>4, Zenon DEF display
<1>7. /\ s.token # "local" => s.token \in Tokens /\ s = Scheme(s.token)
      /\ s.token = "local" => s = Local(s.tag) /\ squash(s.tag) = s.tag
  BY <1>1, SchemeTokens, Zenon
<1>8. OneLong(l) /\ OneLong(v) => Short(l) /\ Short(v)
  BY <1>1, LongShort, Zenon
<1>9. \A t, j, m, w : build(t, j, m, w) = id => t = s /\ m = l /\ w = v
  <2> SUFFICES ASSUME NEW t, NEW j, NEW m, NEW w, build(t, j, m, w) = id
               PROVE  t = s /\ m = l /\ w = v
    OBVIOUS
  <2>1. build(t, j, m, w) # Invalid
    BY <1>2, Zenon
  <2>2. /\ build(t, j, m, w).scheme = t /\ build(t, j, m, w).lot = m
        /\ build(t, j, m, w).serial = w
    <3>1. MadeOf(build(t, j, m, w), t, j, m, w)
      BY <2>1, BuildParts, Zenon
    <3> QED BY <3>1, Zenon DEF MadeOf
  <2> QED BY <1>4, <2>2, Zenon
<1>10. CASE s.token \in {"gtin", "sgtin"}
  <2>1. Head1(id) = <<ZeroOne, k>>
    BY <1>4, <1>10, Zenon DEF Head1, ZeroOne
  <2>2. s = Scheme(s.token)
    <3>1. "gtin" # "local" /\ "sgtin" # "local"
      BY Zenon
    <3> QED BY <1>7, <1>10, <3>1, Zenon
  <2> DEFINE token == IF v = None THEN "gtin" ELSE "sgtin"
  <2>3. ASSUME ReadsBack(id) PROVE parse(text) = id
    <3>1. s.token = token
      BY <1>5, <1>10, <2>3, Zenon
    <3>2. Short(l) /\ Short(v)
      BY <1>5, <1>8, <2>3, Zenon
    <3>3. parse(<<ZeroOne, k>> \o Extension("10", l) \o Extension("21", v))
            = build(Scheme(token), k, l, v)
      BY <1>3, <3>2, GtinRead, Zenon DEF ZeroOne
    <3> HIDE DEF token, text
    <3> QED BY <1>2, <1>6, <2>1, <2>2, <3>1, <3>3, Zenon
  <2>4. ASSUME parse(text) = id PROVE ReadsBack(id)
    <3>1. parse(text) # Invalid
      BY <1>2, <2>4
    <3>2. PICK j, m, w : /\ parse(text) = build(Scheme(IF w = None THEN "gtin" ELSE "sgtin"),
                                              j, m, w)
                         /\ OneLong(m) /\ OneLong(w)
      <4> DEFINE u == <<ZeroOne, k>> \o Extension("10", l) \o Extension("21", v)
      <4>1. parse(u) # Invalid => OfGtin(parse(u))
        BY <1>1, LongElement, Zenon
      <4>2. text = u
        BY <1>6, <2>1, Zenon
      <4> HIDE DEF u, text
      <4> QED BY <3>1, <4>1, <4>2, Zenon DEF OfGtin
    <3>3. s = Scheme(token) /\ m = l /\ w = v
      <4> DEFINE t == Scheme(IF w = None THEN "gtin" ELSE "sgtin")
      <4>1. build(t, j, m, w) = id
        BY <2>4, <3>2, Zenon
      <4> HIDE DEF t, token
      <4>2. t = s /\ m = l /\ w = v
        BY <1>9, <4>1
      <4> QED BY <4>2, Zenon DEF t, token
    <3>4. s.token = token
      <4>1. \A t : Scheme(t).token = t
        BY DEF Scheme
      <4> QED BY <3>3, <4>1, Zenon
    <3>5. "gtin" # "sgtin"
      BY Zenon
    <3> QED BY <1>5, <3>2, <3>3, <3>4, <3>5, Zenon
  <2> QED BY <2>3, <2>4, Zenon DEF id
<1>11. CASE s.token = "local"
  <2> DEFINE x == <<"local", s.tag>> \o k
  <2>0. "local" \notin {"gtin", "sgtin"} /\ "local" \notin {"http", "https"}
    BY Zenon
  <2>1. Head1(id) = <<x>>
    BY <1>4, <1>11, <2>0, Zenon DEF Head1
  <2>2. ASSUME ReadsBack(id) PROVE parse(text) = id
    <3>1. Short(l) /\ Short(v)
      BY <1>5, <1>8, <2>2, Zenon
    <3>2. parse(<<x>> \o Extension("10", l) \o Extension("21", v))
            = build(Local(squash(s.tag)), k, l, v)
      <4>1. k \in Seq(STRING) /\ k # << >>
        BY <1>1, <1>3
      <4>2. "local" \in {"local", "LOCAL"}
        BY Zenon
      <4> QED BY ONLY <3>1, <4>1, <4>2, LocalRead, Zenon
    <3> HIDE DEF text, x
    <3> QED BY <1>2, <1>6, <1>7, <1>11, <2>1, <3>2, Zenon
  <2>3. ASSUME parse(text) = id PROVE ReadsBack(id)
    <3>1. Len(x) \in Nat /\ Len(x) > 1 /\ x[1] = "local"
      BY <1>1, TwoAndKey, Zenon
    <3>2. parse(text) # Invalid
      BY <1>2, <2>3
    <3> HIDE DEF x
    <3>3. PICK t, j, m, w : parse(text) = build(t, j, m, w) /\ OneLong(m) /\ OneLong(w)
      <4> DEFINE u == <<x>> \o Extension("10", l) \o Extension("21", v)
      <4>3. x[1] \notin {"http", "https"}
        BY <2>0, <3>1, Zenon
      <4>1. parse(u) # Invalid => OfParts(parse(u))
        BY <1>1, <3>1, <4>3, LongPrefixed, Zenon
      <4>2. text = u
        BY <1>6, <2>1, Zenon
      <4> HIDE DEF u, text
      <4> QED BY <3>2, <4>1, <4>2, Zenon DEF OfParts
    <3>4. m = l /\ w = v
      BY <1>9, <2>3, <3>3
    <3> QED BY <1>5, <1>11, <2>0, <3>3, <3>4, Zenon
  <2> QED BY <2>2, <2>3, Zenon DEF id
<1>12. CASE s.token \notin {"gtin", "sgtin", "local"}
  <2> DEFINE x == <<s.token>> \o k
  <2>0. s.token \in Tokens /\ s = Scheme(s.token) /\ squash(s.token) = s.token
    BY <1>7, <1>12, Squashed, Zenon
  <2>1. Head1(id) = <<x>>
    BY <1>4, <1>12, Zenon DEF Head1
  <2>2. ASSUME ReadsBack(id) PROVE parse(text) = id
    <3>1. Short(l) /\ Short(v)
      BY <1>5, <1>8, <2>2, Zenon
    <3>2. parse(<<x>> \o Extension("10", l) \o Extension("21", v))
            = build(Scheme(IF squash(s.token) # "gtin" THEN squash(s.token)
                           ELSE IF v = None THEN "gtin" ELSE "sgtin"), k, l, v)
      <4>1. k \in Seq(STRING) /\ k # << >>
        BY <1>1, <1>3
      <4>2. s.token \in {"gtin", "GTIN", "SGTIN"} \cup Tokens
        BY <2>0, Zenon
      <4> QED BY ONLY <3>1, <4>1, <4>2, TokenRead, Zenon
    <3>3. squash(s.token) # "gtin"
      BY <1>12, <2>0, Zenon
    <3>4. parse(<<x>> \o Extension("10", l) \o Extension("21", v)) =
            build(Scheme(squash(s.token)), k, l, v)
      BY <3>2, <3>3, Zenon
    <3> HIDE DEF text, x
    <3> QED BY <1>2, <1>6, <2>0, <2>1, <3>4, Zenon
  <2>3. ASSUME parse(text) = id PROVE ReadsBack(id)
    <3>1. Len(x) \in Nat /\ Len(x) > 1 /\ x[1] = s.token
      <4>1. Len(k) \in Nat /\ Len(k) > 0
        <5>1. \A S : \A w \in Seq(S) : w # << >> => Len(w) \in Nat /\ Len(w) > 0
          OBVIOUS
        <5> QED BY <1>1, <1>3, <5>1, Zenon
      <4>2. Len(x) = 1 + Len(k) /\ x[1] = s.token
        BY <1>1, TailOfConcat
      <4> HIDE DEF x
      <4> QED BY <4>1, <4>2
    <3>2. parse(text) # Invalid
      BY <1>2, <2>3
    <3>3. s.token \notin {"http", "https"}
      BY <2>0, Zenon DEF Tokens
    <3> HIDE DEF x
    <3>4. PICK t, j, m, w : parse(text) = build(t, j, m, w) /\ OneLong(m) /\ OneLong(w)
      <4> DEFINE u == <<x>> \o Extension("10", l) \o Extension("21", v)
      <4>3. x[1] \notin {"http", "https"}
        BY <2>0, <3>1, <3>3, Zenon
      <4>1. parse(u) # Invalid => OfParts(parse(u))
        BY <1>1, <3>1, <4>3, LongPrefixed, Zenon
      <4>2. text = u
        BY <1>6, <2>1, Zenon
      <4> HIDE DEF u, text
      <4> QED BY <3>2, <4>1, <4>2, Zenon DEF OfParts
    <3>5. m = l /\ w = v
      BY <1>9, <2>3, <3>4
    <3> QED BY <1>5, <1>12, <3>4, <3>5, Zenon
  <2> QED BY <2>2, <2>3, Zenon DEF id
<1> QED BY <1>10, <1>11, <1>12, Zenon

Total(digits) == SumFunctionOnSet(Weighted(digits), 1..Len(digits)-1)

LEMMA CheckIs ==
  ASSUME NEW digits
  PROVE  gs1_check_digit_ok(digits) <=> (10 - (Total(digits) % 10)) % 10 = digits[Len(digits)]
<1>1. DOMAIN Weighted(digits) = 1..Len(digits)-1
  BY DEF Weighted
<1> QED BY <1>1, Zenon DEF gs1_check_digit_ok, SumFunction, Total

WeightAt(n, i) == IF (n - i) % 2 = 1 THEN 3 ELSE 1

LEMMA WeightedIs ==
  ASSUME NEW digits \in Seq(0..9), Len(digits) > 0
  PROVE  /\ Len(digits) \in Nat
         /\ \A i \in 1..Len(digits)-1 :
              /\ Weighted(digits)[i] = digits[i] * WeightAt(Len(digits), i)
              /\ digits[i] \in 0..9 /\ WeightAt(Len(digits), i) \in {1, 3}
              /\ Weighted(digits)[i] \in Int
         /\ Total(digits) \in Int /\ IsFiniteSet(1..Len(digits)-1)
<1> DEFINE n == Len(digits)
           w == Weighted(digits)
<1>1. n \in Nat /\ \A i \in 1..n-1 : digits[i] \in 0..9
  OBVIOUS
<1>2. \A i \in 1..n-1 : w[i] = digits[i] * WeightAt(n, i)
  <2>1. w = [i \in 1..n-1 |-> digits[i] * WeightAt(n, i)]
    BY Zenon DEF Weighted, WeightAt
  <2> HIDE DEF w, n
  <2> QED BY <2>1
<1>3. \A i \in 1..n-1 : WeightAt(n, i) \in {1, 3}
  BY Zenon DEF WeightAt
<1> HIDE DEF w, n
<1>4. \A i \in 1..n-1 : w[i] \in Int
  <2> SUFFICES ASSUME NEW i \in 1..n-1 PROVE w[i] \in Int
    OBVIOUS
  <2>1. \A x \in 0..9 : \A y \in {1, 3} : x * y \in Int
    OBVIOUS
  <2> QED BY <1>1, <1>2, <1>3, <2>1, Zenon
<1>5. IsFiniteSet(1..n-1)
  BY <1>1, FS_Interval
<1>6. SumFunctionOnSet(w, 1..n-1) \in Int
  BY <1>4, <1>5, SumIsInt
<1> QED BY <1>1, <1>2, <1>3, <1>4, <1>5, <1>6, Zenon DEF n, w, Total

\* A zero in front changes nothing.
LEMMA PaddedTotal ==
  ASSUME NEW digits \in Seq(0..9), Len(digits) > 0
  PROVE  LET padded == <<0>> \o digits
         IN  Total(padded) = Total(digits) /\ padded[Len(padded)] = digits[Len(digits)]
<1> DEFINE n == Len(digits)
           padded == <<0>> \o digits
           w == Weighted(digits)
           v == Weighted(padded)
           I == 1..n-1
           R == 2..n
           k == [i \in I |-> i + 1]
<1>1. n \in Nat /\ n > 0
  OBVIOUS
<1>2. /\ padded \in Seq(0..9) /\ Len(padded) = n + 1 /\ padded[1] = 0
      /\ \A i \in 1..n : padded[i + 1] = digits[i]
  OBVIOUS
<1>3. /\ \A i \in I : w[i] = digits[i] * WeightAt(n, i) /\ w[i] \in Int
      /\ IsFiniteSet(I)
  BY WeightedIs
<1> HIDE DEF padded, n
<1>4. /\ \A i \in 1..n : v[i] = padded[i] * WeightAt(n + 1, i) /\ v[i] \in Int
      /\ IsFiniteSet(1..n)
  <2>1. Len(padded) > 0 /\ Len(padded) - 1 = n
    BY <1>1, <1>2
  <2> QED BY <1>2, <2>1, WeightedIs
<1> HIDE DEF w, v
<1>5. \A i \in I : v[i + 1] = w[i]
  <2> SUFFICES ASSUME NEW i \in I PROVE v[i + 1] = w[i]
    OBVIOUS
  <2>1. i + 1 \in 1..n /\ i \in 1..n /\ (n + 1) - (i + 1) = n - i
    BY <1>1
  <2>2. WeightAt(n + 1, i + 1) = WeightAt(n, i)
    BY <2>1, Zenon DEF WeightAt
  <2>3. v[i + 1] = padded[i + 1] * WeightAt(n + 1, i + 1)
    BY <1>4, <2>1
  <2>4. padded[i + 1] = digits[i]
    BY <1>2, <2>1
  <2> QED BY <1>3, <2>2, <2>3, <2>4, Zenon
<1>6. SumFunctionOnSet(v, R) = SumFunctionOnSet(w, I)
  <2>1. \A i, j \in I : k[i] = k[j] => i = j
    OBVIOUS
  <2>2. \A i \in I : k[i] \in R
    BY <1>1
  <2>3. \A y \in R : \E i \in I : y = k[i]
    <3> SUFFICES ASSUME NEW y \in R PROVE \E i \in I : y = k[i]
      OBVIOUS
    <3>1. y - 1 \in I /\ k[y - 1] = y
      BY <1>1
    <3> QED BY <3>1
  <2>4. \A i \in I : w[i] \in Int /\ v[k[i]] = w[i]
    BY <1>3, <1>5
  <2> HIDE DEF I, R, k
  <2> QED BY <1>3, <2>1, <2>2, <2>3, <2>4, SumRenamed
<1>7. v[1] = 0
  <2>0. 1 \in 1..n
    BY <1>1
  <2>1. 1 \in 1..n /\ WeightAt(n + 1, 1) \in {1, 3}
    BY <2>0, Zenon DEF WeightAt
  <2>2. \A y \in {1, 3} : 0 * y = 0
    OBVIOUS
  <2> QED BY <1>2, <1>4, <2>1, <2>2
<1>8. SumFunctionOnSet(v, 1..n) = SumFunctionOnSet(v, R)
  <2>1. 1 \in 1..n /\ (1..n) \ {1} = R
    BY <1>1
  <2>2. SumFunctionOnSet(v, 1..n) = v[1] + SumFunctionOnSet(v, R)
    <3>1. SumFunctionOnSet(v, 1..n) = v[1] + SumFunctionOnSet(v, (1..n) \ {1})
      BY <1>4, <2>1, SumRemove
    <3> QED BY <2>1, <3>1, Zenon
  <2>3. SumFunctionOnSet(v, R) \in Int
    <3>1. SumFunctionOnSet(w, I) \in Int
      BY <1>3, SumIsInt
    <3> QED BY <1>6, <3>1, Zenon
  <2> HIDE DEF R
  <2> QED BY <1>7, <2>2, <2>3
<1>9. Total(padded) = SumFunctionOnSet(v, 1..n)
  <2>1. Len(padded) - 1 = n
    BY <1>1, <1>2
  <2> QED BY <2>1, Zenon DEF Total, v
<1>10. padded[Len(padded)] = digits[n]
  BY <1>1, <1>2
<1> QED BY <1>6, <1>8, <1>9, <1>10, Zenon DEF Total, padded, n, w, I

LEMMA ModTen ==
  ASSUME NEW s \in Int, NEW t \in Int, (10 - (s % 10)) % 10 = (10 - (t % 10)) % 10
  PROVE  \E k \in Int : s - t = 10 * k
<1> DEFINE a == s \div 10
           b == t \div 10
           x == s % 10
           y == t % 10
<1>1. a \in Int /\ b \in Int /\ x \in 0..9 /\ y \in 0..9 /\ s = 10 * a + x /\ t = 10 * b + y
  OBVIOUS
<1>2. \A p, r \in 0..9 : (10 - p) % 10 = (10 - r) % 10 => p = r
  OBVIOUS
<1>3. x = y
  BY <1>1, <1>2
<1> HIDE DEF a, b, x, y
<1>4. s - t = 10 * (a - b) /\ a - b \in Int
  BY <1>1, <1>3
<1> QED BY <1>4

LEMMA WeightTells ==
  ASSUME NEW x \in 0..9, NEW y \in 0..9, NEW c \in {1, 3}, NEW k \in Int, x * c - y * c = 10 * k
  PROVE  x = y
<1>1. CASE c = 1
  BY <1>1
<1>2. CASE c = 3
  BY <1>2
<1> QED BY <1>1, <1>2

\* A digit that was changed is told.
LEMMA WrongTold ==
  ASSUME NEW digits \in Seq(0..9), NEW at \in DOMAIN digits, NEW digit \in 0..9,
         gs1_check_digit_ok(digits), gs1_check_digit_ok([digits EXCEPT ![at] = digit])
  PROVE  [digits EXCEPT ![at] = digit] = digits
<1> DEFINE n == Len(digits)
           wrong == [digits EXCEPT ![at] = digit]
           w == Weighted(digits)
           v == Weighted(wrong)
           I == 1..n-1
<1>1. n \in Nat /\ n > 0 /\ at \in 1..n
  OBVIOUS
<1>2. /\ wrong \in Seq(0..9) /\ Len(wrong) = n /\ wrong[at] = digit
      /\ \A i \in 1..n : i # at => wrong[i] = digits[i]
  OBVIOUS
<1>3. SUFFICES digit = digits[at]
  OBVIOUS
<1>4. /\ \A i \in I : /\ w[i] = digits[i] * WeightAt(n, i) /\ w[i] \in Int
                      /\ WeightAt(n, i) \in {1, 3} /\ digits[i] \in 0..9
      /\ IsFiniteSet(I) /\ Total(digits) \in Int
  BY WeightedIs
<1>5. (10 - (Total(digits) % 10)) % 10 = digits[n]
  BY CheckIs
<1>6. (10 - (Total(wrong) % 10)) % 10 = wrong[Len(wrong)]
  BY CheckIs
<1> HIDE DEF n, wrong
<1>7. /\ \A i \in I : v[i] = wrong[i] * WeightAt(n, i) /\ v[i] \in Int
      /\ Total(wrong) \in Int
  BY <1>1, <1>2, WeightedIs
<1>8. Total(digits) = SumFunctionOnSet(w, I) /\ Total(wrong) = SumFunctionOnSet(v, I)
  BY <1>2, Zenon DEF Total, n
<1> HIDE DEF w, v
<1>9. \A i \in I : i # at => v[i] = w[i]
  <2> SUFFICES ASSUME NEW i \in I, i # at PROVE v[i] = w[i]
    OBVIOUS
  <2>1. i \in 1..n
    BY <1>1
  <2>2. wrong[i] = digits[i]
    BY <1>2, <2>1, Zenon
  <2>3. v[i] = wrong[i] * WeightAt(n, i) /\ w[i] = digits[i] * WeightAt(n, i)
    BY <1>4, <1>7
  <2> QED BY <2>2, <2>3, Zenon
<1>10. CASE at = n
  <2>1. Total(digits) = Total(wrong)
    <3>1. \A i \in I : i # at
      BY <1>1, <1>10
    <3> HIDE DEF I
    <3>2. \A i \in I : w[i] \in Int /\ v[i] = w[i]
      BY <1>4, <1>9, <3>1, Zenon
    <3>3. SumFunctionOnSet(w, I) = SumFunctionOnSet(v, I)
      BY <1>4, <3>2, SumEqual
    <3> QED BY <1>8, <3>3, Zenon
  <2> QED BY <1>2, <1>5, <1>6, <1>10, <2>1, Zenon
<1>11. CASE at # n
  <2> DEFINE J == I \ {at}
             c == WeightAt(n, at)
  <2>1. at \in I /\ n # at /\ n \in 1..n
    BY <1>1, <1>11
  <2> HIDE DEF I
  <2>2. SumFunctionOnSet(w, I) = w[at] + SumFunctionOnSet(w, J)
    BY <1>4, <2>1, SumRemove
  <2>3. SumFunctionOnSet(v, I) = v[at] + SumFunctionOnSet(v, J)
    BY <1>4, <1>7, <2>1, SumRemove
  <2>4. IsFiniteSet(J)
    BY <1>4, FS_RemoveElement
  <2>5. SumFunctionOnSet(w, J) = SumFunctionOnSet(v, J) /\ SumFunctionOnSet(w, J) \in Int
    <3>1. \A i \in J : w[i] \in Int /\ v[i] = w[i]
      BY <1>4, <1>9, Zenon
    <3> HIDE DEF J
    <3> QED BY <2>4, <3>1, SumEqual, SumIsInt
  <2>6. wrong[Len(wrong)] = digits[n]
    BY <1>2, <2>1
  <2>7. PICK k \in Int : Total(digits) - Total(wrong) = 10 * k
    <3>1. (10 - (Total(digits) % 10)) % 10 = (10 - (Total(wrong) % 10)) % 10
      BY <1>5, <1>6, <2>6, Zenon
    <3> QED BY <1>4, <1>7, <3>1, ModTen
  <2>8. /\ w[at] = digits[at] * c /\ v[at] = digit * c /\ c \in {1, 3} /\ digits[at] \in 0..9
        /\ w[at] \in Int /\ v[at] \in Int
    BY <1>2, <1>4, <1>7, <2>1
  <2> HIDE DEF J, c
  <2>9. w[at] - v[at] = 10 * k
    BY <1>8, <2>2, <2>3, <2>5, <2>7, <2>8
  <2>10. digits[at] * c - digit * c = 10 * k
    BY <2>8, <2>9, Zenon
  <2> QED BY <2>8, <2>10, WeightTells
<1> QED BY <1>10, <1>11

\* The question that is asked does not change.
QInv == asked \in Questions \cup {None}

LEMMA AskedInvariance == CSpec => []QInv
<1>1. CInit => QInv
  BY Zenon DEF CInit, QInv
<1>2. QInv /\ [CNext]_cvars => QInv'
  <2>1. [CNext]_cvars => asked' = asked
    BY Zenon DEF CNext, cvars
  <2> QED BY <2>1, Zenon DEF QInv
<1> QED BY <1>1, <1>2, PTL DEF CSpec

LEMMA IdentityAnswered ==
  ASSUME QInv PROVE OneIdentity
<1> SUFFICES ASSUME About("identifier") PROVE OneIdentity
  BY Zenon DEF OneIdentity
<1>1. ProductAsked(asked)
  BY QuestionsOK, Zenon DEF QInv, About
<1> DEFINE ids == {parse(text) : text \in Spellings(asked)}
           id == Product(asked)
<1>2. /\ \A text \in Spellings(asked) : parse(text) = id
      /\ parse(display(id)) = id
      /\ id.serial # None => id.granularity = "item"
  BY <1>1, SpellingsAgree, Zenon
<1>3. id # Invalid
  BY <1>1, Zenon DEF ProductAsked
<1> HIDE DEF id
<1>4. \A x \in ids : x = id
  BY <1>2
<1> HIDE DEF ids
<1>5. \A x \in ids : ids = {x}
  BY <1>4
<1>6. \A x \in ids : /\ x # Invalid /\ ids = {x}
                     /\ parse(display(x)) = x
                     /\ x.serial # None => x.granularity = "item"
  BY <1>2, <1>3, <1>4, <1>5, Zenon
<1> QED BY <1>6, Zenon DEF OneIdentity, ids

LEMMA RoundTripAnswered ==
  ASSUME QInv PROVE RoundTripExact
<1> SUFFICES ASSUME About("built") PROVE RoundTripExact
  BY Zenon DEF RoundTripExact
<1>1. BuiltAsked(asked)
  BY QuestionsOK, Zenon DEF QInv, About
<1> QED BY <1>1, RoundTrip, Zenon DEF RoundTripExact

LEMMA TimesAnswered ==
  ASSUME QInv PROVE TimesReadBack
<1> SUFFICES ASSUME About("time") PROVE TimesReadBack
  BY Zenon DEF TimesReadBack
<1>1. TimeAsked(asked)
  BY QuestionsOK, Zenon DEF QInv, About
<1>2. /\ asked.day \in Int /\ InDay(asked.sec)
      /\ asked.nanos \in Nat /\ asked.nanos < Cal!TenTo(9)
      /\ asked.zone \in Int /\ Cal!Zone(asked.zone)
  BY <1>1, Zenon DEF TimeAsked, InDay
<1> QED BY <1>2, InstantsReadBack, Zenon DEF TimesReadBack

LEMMA NotEmpty == \A n \in Nat : \A i \in 1..n : n > 0
OBVIOUS

LEMMA DigitsAnswered ==
  ASSUME QInv PROVE WrongDigitNoticed
<1> SUFFICES ASSUME About("check digit") PROVE WrongDigitNoticed
  BY Zenon DEF WrongDigitNoticed
<1> DEFINE d == asked.digits
           padded == <<0>> \o d
<1>1. DigitAsked(asked)
  BY QuestionsOK, Zenon DEF QInv, About
<1>2. /\ d \in Seq(0..9) /\ gs1_check_digit_ok(d)
      /\ asked.at \in DOMAIN d /\ asked.digit \in 0..9
  BY <1>1, Zenon DEF DigitAsked
<1>3. Len(d) > 0
  <2>1. Len(d) \in Nat /\ DOMAIN d = 1..Len(d)
    BY <1>2, LenProperties
  <2>2. asked.at \in 1..Len(d)
    BY <1>2, <2>1, Zenon
  <2> QED BY <2>1, <2>2, NotEmpty, Zenon
<1>4. gs1_check_digit_ok(padded)
  <2>1. Total(padded) = Total(d) /\ padded[Len(padded)] = d[Len(d)]
    BY <1>2, <1>3, PaddedTotal, Zenon
  <2> HIDE DEF padded
  <2> QED BY <1>2, <2>1, CheckIs, Zenon
<1>5. gs1_check_digit_ok([d EXCEPT ![asked.at] = asked.digit])
        => [d EXCEPT ![asked.at] = asked.digit] = d
  BY <1>2, WrongTold, Zenon
<1> QED BY <1>2, <1>4, <1>5, Zenon DEF WrongDigitNoticed

\* Whatever texts a card carries, they read back as the values they were printed
\* from: every spelling of a product is one identity, an identifier reads back from
\* its text exactly when its scheme agrees with its serial and its lot and serial
\* are words, instants read back in every zone exactly when the year has four
\* digits, and a wrong digit of a key of any length is noticed (identifier.rs:169,
\* :253, :315, time.rs:58, :148, :270).
THEOREM TextsAlwaysReadBack == CSpec => []TextsReadBack
<1>1. QInv => TextsReadBack
  BY IdentityAnswered, RoundTripAnswered, TimesAnswered, DigitsAnswered, Zenon
  DEF TextsReadBack
<1> QED BY <1>1, AskedInvariance, PTL
=============================================================================

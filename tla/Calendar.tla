------------------------------ MODULE Calendar ------------------------------
(***************************************************************************)
(* Timestamps of the model crate: the proleptic Gregorian calendar, and    *)
(* the ISO 8601 text of an instant with its fraction and zone.  An instant *)
(* is a day since 1970-01-01 and a second of that day (the code keeps the  *)
(* sum in one i64) with nanoseconds.  A text is the record of its fields.  *)
(***************************************************************************)
EXTENDS Integers

CONSTANT Unreadable   \* ModelError::Parse

DayLength == 86400
Instant(day, sec, nanos) == [day |-> day, sec |-> sec, nanos |-> nanos]

is_leap_year(y) == (y % 4 = 0 /\ y % 100 # 0) \/ y % 400 = 0

days_in_month(y, m) ==
  CASE m \in {1, 3, 5, 7, 8, 10, 12} -> 31
    [] m \in {4, 6, 9, 11} -> 30
    [] m = 2 -> IF is_leap_year(y) THEN 29 ELSE 28

\* The code's division by 400 of a number lowered by 399 when it is negative is
\* \div, which rounds down.  The year starts in March.
Years(yoe) == 365 * yoe + yoe \div 4 - yoe \div 100

days_from_civil(date) ==
  LET y   == IF date.month <= 2 THEN date.year - 1 ELSE date.year
      era == y \div 400
      mp  == IF date.month > 2 THEN date.month - 3 ELSE date.month + 9
      doy == (153 * mp + 2) \div 5 + date.day - 1
  IN  era * 146097 + Years(y - era * 400) + doy - 719468

civil_from_days(days) ==
  LET z   == days + 719468
      era == z \div 146097
      doe == z - era * 146097
      yoe == (doe - doe \div 1460 + doe \div 36524 - doe \div 146096) \div 365
      doy == doe - Years(yoe)
      mp  == (5 * doy + 2) \div 153
      m   == IF mp < 10 THEN mp + 3 ELSE mp - 9
      y   == yoe + era * 400
  IN  [year  |-> IF m <= 2 THEN y + 1 ELSE y, month |-> m,
       day   |-> doy - (153 * mp + 2) \div 5 + 1]

\* 10u64.pow(n), n at most 9.
TenTo(n) == <<1, 10, 100, 1000, 10000, 100000, 1000000, 10000000, 100000000,
              1000000000>>[n + 1]

\* Nine digits without their trailing zeros: how many are left, and their value.
Fraction(nanos) ==
  LET width == CHOOSE w \in 0..9 : /\ nanos % TenTo(9 - w) = 0
                                   /\ \A v \in 0..w-1 : nanos % TenTo(9 - v) # 0
  IN  [width |-> width, value |-> nanos \div TenTo(9 - width)]

\* Display: always in UTC.
Written(t, zone) ==
  [date |-> civil_from_days(t.day), hour |-> t.sec \div 3600,
   min |-> (t.sec % 3600) \div 60, sec |-> t.sec % 60,
   frac |-> Fraction(t.nanos), zone |-> zone]
display_timestamp(t) == Written(t, 0)

\* The instant a number of seconds, of this day or one beside it, falls on.
At(day, sec, nanos) == Instant(day + sec \div DayLength, sec % DayLength, nanos)

\* Timestamp::parse.  The year has four digits; the offset of the zone, in whole
\* minutes and less than a day, is subtracted.
FourDigits(year) == year \in 0..9999
Zone(offset) == offset % 60 = 0 /\ -DayLength < offset /\ offset < DayLength
parse_timestamp(text) ==
  IF /\ FourDigits(text.date.year) /\ text.date.month \in 1..12
     /\ text.date.day \in 1..days_in_month(text.date.year, text.date.month)
     /\ text.hour <= 23 /\ text.min <= 59 /\ text.sec <= 59 /\ Zone(text.zone)
    THEN At(days_from_civil(text.date),
            text.hour * 3600 + text.min * 60 + text.sec - text.zone,
            text.frac.value * TenTo(9 - text.frac.width))
    ELSE Unreadable
=============================================================================

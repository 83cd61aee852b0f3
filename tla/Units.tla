-------------------------------- MODULE Units --------------------------------
(***************************************************************************)
(* The units and measurement chain of the semantic layer: the table of     *)
(* canonical units and registered conversions, intake, conversion, GUM     *)
(* propagation and the decision rules.  The code computes in f64; here the *)
(* magnitudes are integers on which every operation is exact, and a factor *)
(* is a fraction.                                                          *)
(***************************************************************************)
EXTENDS Integers, FiniteSetsExt

CONSTANT None   \* Option::None

\* UnitTable::seeded.
canonical == [energy |-> "kWh", mass |-> "kg", length |-> "m", power |-> "W", capacity |-> "Ah"]
Conversion(to, num, den) == [to |-> to, num |-> num, den |-> den, offset |-> 0]
conversions ==
  [Wh  |-> Conversion("kWh", 1, 1000), MWh |-> Conversion("kWh", 1000, 1),
   g   |-> Conversion("kg", 1, 1000),  t   |-> Conversion("kg", 1000, 1),
   cm  |-> Conversion("m", 1, 100),    mm  |-> Conversion("m", 1, 1000),
   kW  |-> Conversion("W", 1000, 1),   mWh |-> Conversion("Wh", 1, 1000)]

Measured(value, unit, uncertainty) ==
  [value |-> value, unit |-> unit, uncertainty |-> uncertainty]

\* intake: what is stored, or the class of the refusal.  "re-offer" offers the
\* conversion; the other refusals offer nothing.
intake(kind, offered, uncertainty) ==
  IF kind \notin DOMAIN canonical THEN [refused |-> "unknown-kind"]
  ELSE IF uncertainty = None THEN [refused |-> "no-uncertainty"]
  ELSE IF offered.unit = canonical[kind]
         THEN [stored |-> Measured(offered.value, offered.unit, uncertainty)]
  ELSE IF offered.unit \notin DOMAIN conversions THEN [refused |-> "inadmissible"]
  ELSE IF conversions[offered.unit].to = canonical[kind] THEN [refused |-> "re-offer"]
  ELSE [refused |-> "not-to-canonical"]

\* convert, for a unit that has a conversion.
convert(offered, uncertainty) ==
  LET c == conversions[offered.unit]
  IN  Measured((offered.value * c.num) \div c.den + c.offset, c.to,
               (uncertainty * c.num) \div c.den)

\* propagate: independent terms combine in quadrature.  The square root is that
\* of a square.
Root(square) == CHOOSE r \in 0..square : r * r = square
Quadrature(u, w) == Root(u * u + w * w)
scale(x, factor) == Measured(x.value * factor, x.unit, x.uncertainty * Max({factor, -factor}))

\* Deviation: the root is not taken.
sum_of_squares(x, y) ==
  IF x.unit # y.unit THEN [refused |-> "unit-mismatch"]
  ELSE Measured(x.value + y.value, x.unit,
                x.uncertainty * x.uncertainty + y.uncertainty * y.uncertainty)
sum(x, y) ==
  IF x.unit # y.unit THEN [refused |-> "unit-mismatch"]
  ELSE Measured(x.value + y.value, x.unit, Quadrature(x.uncertainty, y.uncertainty))
difference(x, y) ==
  IF x.unit # y.unit THEN [refused |-> "unit-mismatch"]
  ELSE Measured(x.value - y.value, x.unit, Quadrature(x.uncertainty, y.uncertainty))

\* The decision rules, and classify_upper.
SharedRisk == [rule |-> "shared-risk"]
GuardBanded(k) == [rule |-> "guard-banded", k |-> k]

classify_upper(rule, x, limit) ==
  LET margin == IF rule = SharedRisk THEN 0 ELSE x.uncertainty * rule.k
  IN  CASE x.value + margin <= limit -> "conforms"
        [] x.value + margin > limit /\ x.value - margin > limit -> "does-not-conform"
        [] OTHER -> "inconclusive"
=============================================================================

------------------------------- MODULE MCRollup -------------------------------
(* Small instances of Rollup: five children, three units of mass that      *)
(* convert into each other exactly or not at all, and one of energy.  One  *)
(* of mass is not registered at first, though a child may declare in it.   *)
(* One amount sits on the lower bound of the mantissa, and one is below it *)
(* with its leading digit in the same place.                               *)
EXTENDS Rollup, TLC

Unit(dimension, num, den) == [dimension |-> dimension, num |-> num, den |-> den]
Seed == "kg" :> Unit("mass", 1, 1) @@ "g" :> Unit("mass", 1, 10)
        @@ "J" :> Unit("energy", 1, 1)

\* A new unit, one that conflicts with the seed, and two that are refused.
Defs == {[uom |-> "lb", def |-> Unit("mass", 3, 10)],
         [uom |-> "g", def |-> Unit("mass", 1, 5)],
         [uom |-> "t", def |-> Unit("mass", 1, 0)],
         [uom |-> "t", def |-> Unit("mass", -1, 1)]}

Q(mant, exp, uom) == [amount |-> new(mant, exp), uom |-> uom]
Declarable == {Q(12, 0, "kg"), Q(5, -1, "g"), Q(99, 0, "kg"), Q(1, 0, "J"),
               Q(3, 1, "g"), Q(0, -1, "kg"), Q(7, 0, "lb"),
               Q(-Limit - 1, 0, "kg"), Q(-13, 1, "kg")}

Start(q, r) == [p \in Passports |-> IF p % 2 = 1 THEN ("mass" :> q) ELSE ("mass" :> r)]
Starts == {Start(Q(12, 0, "kg"), Q(5, -1, "g")), Start(Q(-Limit - 1, 0, "kg"), Q(3, 1, "g")),
           [p \in Passports |-> IF p < 3 THEN "mass" :> Q(3, 1, "g") ELSE << >>]}

Orders == {<<1>>, <<4>>, <<2, 1>>, <<3, 5>>, <<1, 2, 3>>, <<4, 3, 1>>, <<1, 1>>,
           <<4, 1, 3, 2>>, <<2, 3, 4, 5>>, <<5, 4, 3, 2, 1>>, <<1, 2, 3, 1>>}
=============================================================================

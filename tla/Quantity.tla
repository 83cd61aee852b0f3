------------------------------- MODULE Quantity -------------------------------
(***************************************************************************)
(* Quantities in registered units.  A registry maps a uom to its dimension *)
(* and its exact factor to the canonical unit of that dimension.           *)
(***************************************************************************)
EXTENDS Decimal, SequencesExt

\* An exact amount and the unit it is in.
IsQuantity(q) == q = [amount |-> q.amount, uom |-> q.uom] /\ IsDecimal(q.amount)

\* A factor that may be divided by.
IsFactor(def) == def.num \in Nat /\ def.den \in Nat \ {0}

\* A deviation: a second definition of a unit replaces the first.
register_over(registry, uom, def) ==
  IF def.den = 0 \/ def.num < 0 \/ def.den < 0 THEN Err
  ELSE [u \in DOMAIN registry \cup {uom} |-> IF u = uom THEN def ELSE registry[u]]

\* A unit is defined once: the same definition again is fine, another is refused.
register(registry, uom, def) ==
  IF \/ def.den = 0 \/ def.num < 0 \/ def.den < 0
     \/ uom \in DOMAIN registry /\ registry[uom] # def
    THEN Err
    ELSE [u \in DOMAIN registry \cup {uom} |-> IF u = uom THEN def ELSE registry[u]]

Known(q, registry) == q.uom \in DOMAIN registry

canonical_amount(q, registry) ==
  IF Known(q, registry)
    THEN mul_ratio_exact(q.amount, registry[q.uom].num, registry[q.uom].den)
    ELSE Err

from_canonical(canonical, uom, registry) ==
  LET amount == mul_ratio_exact(canonical, registry[uom].den, registry[uom].num)
  IN  IF amount = Err THEN Err ELSE [amount |-> amount, uom |-> uom]

same_dimension(q, r, registry) ==
  Known(q, registry) /\ Known(r, registry)
  /\ registry[q.uom].dimension = registry[r.uom].dimension

convert_to(q, uom, registry) ==
  IF same_dimension(q, [uom |-> uom], registry) /\ canonical_amount(q, registry) # Err
    THEN from_canonical(canonical_amount(q, registry), uom, registry)
    ELSE Err

\* The exact sum, in the unit of the first.
sum_of(canonical, other, uom, registry) ==
  IF canonical = Err \/ other = Err \/ add(canonical, other) = Err THEN Err
  ELSE from_canonical(add(canonical, other), uom, registry)
plus(q, r, registry) ==
  IF same_dimension(q, r, registry)
    THEN sum_of(canonical_amount(q, registry), canonical_amount(r, registry), q.uom, registry)
    ELSE Err

minus(q, r, registry) == plus(q, [r EXCEPT !.amount = neg(@)], registry)

cmp_qty(q, r, registry) ==
  IF /\ same_dimension(q, r, registry)
     /\ canonical_amount(q, registry) # Err /\ canonical_amount(r, registry) # Err
    THEN cmp(canonical_amount(q, registry), canonical_amount(r, registry))
    ELSE Err

\* Left to right from the first, in its unit; no quantities have no sum.
sum(quantities, registry) ==
  LET total[k \in 1..Len(quantities)] ==
        IF k = 1 THEN quantities[1]
        ELSE IF total[k-1] = Err THEN Err ELSE plus(total[k-1], quantities[k], registry)
  IN  IF quantities = << >> THEN Err ELSE total[Len(quantities)]

eq_qty(q, r) == eq(q.amount, r.amount) /\ q.uom = r.uom

=============================================================================

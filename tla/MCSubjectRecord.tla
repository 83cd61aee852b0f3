--------------------------- MODULE MCSubjectRecord ---------------------------
(* Small instances of SubjectRecord.                                       *)
EXTENDS SubjectRecord

Offer(kind, value, unit, uncertainty) ==
  [kind |-> kind, value |-> value, unit |-> unit, uncertainty |-> uncertainty]
FiveOffers ==
  {Offer("energy", 2, "kWh", 1), Offer("energy", 2000, "Wh", 1000),
   Offer("energy", 2000000, "mWh", 1000000), Offer("energy", 2, "BTU", 1),
   Offer("mass", 3, "t", None)}
TwoNotes == {[note |-> "serial", personal |-> FALSE], [note |-> "home", personal |-> TRUE]}
=============================================================================

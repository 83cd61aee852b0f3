--------------------------- MODULE MCVerification ---------------------------
(* Small instances of Verification.                                        *)
EXTENDS Verification

OneKind == {[type |-> "recall.campaign"]}

TwoRequirements ==
  {[kind |-> "static"], [kind |-> "fresh-within", max_age |-> 1]}

Slot(suite, signed) == [suite |-> suite, key |-> "k", signed |-> signed]
ThreeSlotSets ==
  {{}, {Slot("ed25519", FALSE)},
   {Slot("ed25519", TRUE), Slot("ml-dsa", TRUE), Slot("ecdsa-p256", FALSE)}}
=============================================================================

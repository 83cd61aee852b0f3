--------------------------- MODULE MCWitnessedLog ---------------------------
(* Small instances of WitnessedLog.                                        *)
EXTENDS WitnessedLog, TLC

Symmetric == Permutations(Salts)

TwoPayloads == {[type |-> "milestone.record"], [type |-> "recall.campaign"]}
=============================================================================

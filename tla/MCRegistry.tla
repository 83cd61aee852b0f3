----------------------------- MODULE MCRegistry -----------------------------
(* Small instances of Registry.                                            *)
EXTENDS Registry

CONSTANTS vocabA, vocabB, vocabC, east, west

TwoPairs == {<<vocabA, vocabB>>, <<vocabB, vocabC>>}
TwoOwners == (<<vocabA, vocabB>> :> east) @@ (<<vocabB, vocabC>> :> west)
FiveKinds == (<<vocabA, vocabB>> :> {Deterministic("inc"), Correspondence({"batteries"}, "rounded")}) @@
             (<<vocabB, vocabC>> :> {Deterministic("swap"), Correspondence({"batteries", "eu"}, "lost"),
                           NoMapping})
TierThreeFirst == (<<vocabA, vocabB>> :> {NoMapping}) @@ (<<vocabB, vocabC>> :> {Deterministic("swap")})
TwoTransforms == [inc |-> [v \in 1..3 |-> (v % 3) + 1],
                  swap |-> [v \in 1..3 |-> IF v = 3 THEN 3 ELSE 3 - v]]
TwoBundles == {[roles |-> <<"registry-operator">>, tier |-> 2],
               [roles |-> <<"consumer", "trust-authority">>, tier |-> 2],
               [roles |-> <<"registry-operator">>, tier |-> 1]}
Descriptors == {ToSet(Gates), {"jurisdiction", "continuity"}}
=============================================================================

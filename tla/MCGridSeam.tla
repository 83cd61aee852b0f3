------------------------------ MODULE MCGridSeam ------------------------------
(* Small instances of GridSeam.                                            *)
EXTENDS GridSeam, TLC

CONSTANTS customs, dealer   \* names of verifiers

TwoTerms == {[verifiers |-> {customs}, reveal |-> "pairing-gated"],
             [verifiers |-> {AnyVerifier}, reveal |-> "origin-sealed"]}
=============================================================================

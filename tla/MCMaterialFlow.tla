--------------------------- MODULE MCMaterialFlow ---------------------------
(* Small instances of MaterialFlow.                                        *)
EXTENDS MaterialFlow

WithNegative == -1 .. 2
Whole == 0 .. 2
=============================================================================

--------------------------- MODULE MCFractionCalc ---------------------------
(* Small instances of FractionCalc: 4-bit numbers.                         *)
EXTENDS FractionCalc

MCIntegrals == -5 .. 5
=============================================================================

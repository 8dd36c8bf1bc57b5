--------------------------- MODULE MCUnsigned128 ---------------------------
(* Every pair of numbers of four elements of two bits: a sum and a product *)
(* of two elements can carry, and an element can lie strictly between 0    *)
(* and the largest.                                                        *)
EXTENDS Unsigned128
=============================================================================

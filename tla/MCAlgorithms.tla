---------------------------- MODULE MCAlgorithms ----------------------------
(* Small inputs: every order of up to seven numbers with repetitions, and  *)
(* up to six numbers with products and sums in any order.                  *)
EXTENDS Algorithms

MCVectors == UNION {[0 .. n - 1 -> 1 .. 3] : n \in 0 .. 7}

MCUtterances == UNION {[1 .. n -> 1 .. 3] : n \in 0 .. 6}

Products == UNION {[1 .. n -> {0, 2, 130}] : n \in 1 .. 3}
MCExpressions == UNION {[1 .. n -> Products] : n \in 1 .. 2} \cup
                 [1 .. 4 -> {<<2>>, <<130, 2>>, <<2, 0, 130>>}]
=============================================================================

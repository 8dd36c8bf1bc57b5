---------------------------- MODULE MCFractionMt ----------------------------
(* Two threads on two fractions.  Locked holds every operation that locks *)
(* its operands, on two different fractions where it has two: without the  *)
(* copy constructor, and without a fraction that is both operands.         *)
EXTENDS FractionMt

CONSTANTS f, g, t1, t2

MCFractions == {f, g}
TwoThreads == {t1, t2}

Binaries == [kind : BinaryKinds, self : MCFractions, other : MCFractions]
Unaries == [kind : UnaryKinds \ {"copy"}, self : MCFractions, other : MCFractions]

Locked == {op \in Binaries : op.self # op.other} \cup
          {op \in Unaries : op.self = op.other}
=============================================================================

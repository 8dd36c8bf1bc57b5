----------------------------- MODULE FractionOps -----------------------------
(***************************************************************************)
(* The operations of Fraction that threads call, and what they do to the   *)
(* value of their left operand.                                            *)
(*                                                                         *)
(* A value is abstracted to how many multiplications went into it, so that *)
(* multiplying two fractions adds and multiplying by an integer adds one:  *)
(* enough to see an operation lost, applied twice, or read half-way.  What *)
(* each multiplication computes is the subject of FractionArith.           *)
(***************************************************************************)
EXTENDS Naturals

CONSTANTS
    Threads,
    Fractions,
    Operations, (* the operations threads may call                         *)
    MaxOps,     (* how many operations a thread calls: bounds the counters *)
    NoOp        (* what a thread outside every operation is in             *)

BinaryKinds == {"assign", "moveAssign", "timesAssign", "times", "equal"}
UnaryKinds == {"scaleAssign", "scale", "print", "copy"}

Binary(op) == op.kind \in BinaryKinds

(* An operation on one fraction has it as both operands.                   *)
ASSUME OperationsAssumption ==
    /\ Operations \subseteq [kind : BinaryKinds \cup UnaryKinds,
                             self : Fractions, other : Fractions]
    /\ \A op \in Operations : Binary(op) \/ op.other = op.self
    /\ NoOp \notin Operations

ASSUME MaxOpsAssumption == MaxOps \in Nat

Writes(op) == op.kind \in {"assign", "moveAssign", "timesAssign", "scaleAssign"}

(* What a writing operation leaves in its left operand.                    *)
Written(op, self, other) ==
    CASE op.kind \in {"assign", "moveAssign"} -> other
      [] op.kind = "timesAssign"              -> self + other
      [] op.kind = "scaleAssign"              -> self + 1
=============================================================================

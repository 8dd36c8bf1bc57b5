----------------------------- MODULE CfarInputs -----------------------------
(* What a caller may hand to an OrderedStatCfarImpl.                       *)
EXTENDS CfarContract

CONSTANTS
    Shapes,      (* masks and array sizes: [select, omit, size] records    *)
    Percentiles, (* [num, den] records                                     *)
    Values,      (* the numbers an input array may hold                    *)
    Unset        (* what the caller's output array holds before a run      *)

(* "k and l are positive integers"; an array may be empty.                 *)
ASSUME ShapesAssumption ==
    Shapes \subseteq [select : Nat \ {0}, omit : Nat \ {0}, size : Nat]

(* "A real value p between 0 and 1".                                       *)
ASSUME PercentilesAssumption ==
    \A p \in Percentiles : /\ p \in [num : Nat, den : Nat \ {0}]
                           /\ p.num <= p.den

ASSUME ValuesAssumption == Values \subseteq Int /\ Unset \notin Values
=============================================================================

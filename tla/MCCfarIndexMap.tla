-------------------------- MODULE MCCfarIndexMap ---------------------------
(* Small instances of CfarIndexMap.  Over an array of equal values         *)
(* nth_element may leave any order: one value covers every order there is. *)
EXTENDS CfarIndexMap

MCMedian == {[num |-> 1, den |-> 2]}
MCShapes == {s \in [select : 1 .. 3, omit : 1 .. 2, size : 0 .. 5] :
                s.select + s.omit <= 4}
MCSlots == -24 .. 4
=============================================================================

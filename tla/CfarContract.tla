---------------------------- MODULE CfarContract ----------------------------
(***************************************************************************)
(* What an ordered-statistic CFAR filter promises about one output cell:   *)
(* which input positions the mask selects around a cell, and which value   *)
(* of the selected ones may be written.  Positions count from 0, as the    *)
(* C++ arrays do; k is maskSelect, l is maskOmit, n is the array's size.   *)
(*                                                                         *)
(* |1......1|0......0|0|0......0|1......1|                                 *)
(* |<- k  ->|<- l-1->| |<- l-1->|<- k  ->|                                 *)
(***************************************************************************)
EXTENDS Integers, FiniteSets

(* Positions under the left and the right block of ones when the mask is   *)
(* centred on position i; those off the array are ignored.                 *)
LeftWindow(k, l, n, i) ==
    {m \in 0 .. n - 1 : i - l - k + 1 <= m /\ m <= i - l}

RightWindow(k, l, n, i) ==
    {m \in 0 .. n - 1 : i + l <= m /\ m <= i + l + k - 1}

Window(k, l, n, i) == LeftWindow(k, l, n, i) \cup RightWindow(k, l, n, i)

(* floor(p * n) for the percentile p = num / den.                          *)
FloorOf(p, n) == (p.num * n) \div p.den

(* v is one of the values a takes on S, some m of those values are no      *)
(* greater than v and the others are no less.                              *)
IsSelected(a, S, m, v) ==
    /\ \E q \in S : a[q] = v
    /\ \E T \in SUBSET S :
          /\ Cardinality(T) = m
          /\ \A q \in T : a[q] <= v
          /\ \A q \in S \ T : a[q] >= v

(* The postcondition of std::nth_element: entry n (counted from 0) of the  *)
(* range holds a value v that would be there if the range were sorted.     *)
(* The range is given by its slots D and the value key[d] of each slot.    *)
IsNthElement(key, D, n, v) ==
    /\ \E d \in D : key[d] = v
    /\ Cardinality({d \in D : key[d] < v}) <= n
    /\ n < Cardinality({d \in D : key[d] <= v})

(* The index handed to nth_element: floor(p * n), moved one down to count  *)
(* from 0 unless it is 0 already.                                          *)
NthIndex(p, n) == LET m == FloorOf(p, n) IN IF m > 0 THEN m - 1 ELSE 0
=============================================================================

---------------------------- MODULE MCCfarDeques ----------------------------
(* Small instances of CfarDeques: every mask up to 3 selected and 3        *)
(* omitted cells a side, over arrays too short for the mask, arrays with   *)
(* an eye, arrays the window crosses, and arrays longer than the mask.     *)
EXTENDS CfarDeques

MCShapes == [select : 1 .. 3, omit : 1 .. 3, size : 0 .. 6]
MCPercentiles == {[num |-> 0, den |-> 1], [num |-> 1, den |-> 2], [num |-> 1, den |-> 1]}
MCValues == 1 .. 2
=============================================================================

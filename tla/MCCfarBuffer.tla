---------------------------- MODULE MCCfarBuffer ----------------------------
(* Small instances of CfarBuffer.                                          *)
EXTENDS CfarBuffer

MCPercentiles == {[num |-> 0, den |-> 1], [num |-> 1, den |-> 2], [num |-> 1, den |-> 1]}

Supported == {s \in [select : 1 .. 3, omit : 1 .. 3, size : 0 .. 6] : KeepsCount(s)}
=============================================================================

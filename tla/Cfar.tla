-------------------------------- MODULE Cfar --------------------------------
(***************************************************************************)
(* The promise of OrderedStatCfar::run, without an algorithm.  A filter is *)
(* built once with a mask and a percentile; run() may then be called any   *)
(* number of times.  A run writes, in any order, a permitted value to each *)
(* output cell whose window is not empty, leaves every other cell as the   *)
(* caller passed it in (Unset), and returns when all of them are written.  *)
(***************************************************************************)
EXTENDS CfarInputs

VARIABLES
    maskSelect, maskOmit, percentile, (* the constructor's arguments       *)
    size, input, output,              (* the arguments of the current run  *)
    running                           (* is a call of run() in progress?   *)

config == <<maskSelect, maskOmit, percentile>>
vars == <<maskSelect, maskOmit, percentile, size, input, output, running>>

WindowAt(i) == Window(maskSelect, maskOmit, size, i)

Permitted(i, v) ==
    IsSelected(input, WindowAt(i), FloorOf(percentile, Cardinality(WindowAt(i))), v)

Init ==
    /\ \E s \in Shapes : maskSelect = s.select /\ maskOmit = s.omit
    /\ percentile \in Percentiles
    /\ size = 0 /\ input = <<>> /\ output = <<>>
    /\ running = FALSE

Call ==
    /\ ~running
    /\ \E s \in Shapes :
          /\ s.select = maskSelect /\ s.omit = maskOmit
          /\ size' = s.size
          /\ input' \in [0 .. s.size - 1 -> Values]
          /\ output' = [i \in 0 .. s.size - 1 |-> Unset]
    /\ running' = TRUE
    /\ UNCHANGED config

Write(i) ==
    /\ running
    /\ output[i] = Unset
    /\ \E v \in Values : Permitted(i, v) /\ output' = [output EXCEPT ![i] = v]
    /\ UNCHANGED <<config, size, input, running>>

Return ==
    /\ running
    /\ \A i \in 0 .. size - 1 : WindowAt(i) # {} => output[i] # Unset
    /\ running' = FALSE
    /\ UNCHANGED <<config, size, input, output>>

Next == Call \/ (\E i \in 0 .. size - 1 : Write(i)) \/ Return

Spec == Init /\ [][Next]_vars
=============================================================================

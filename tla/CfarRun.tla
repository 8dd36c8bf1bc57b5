------------------------------ MODULE CfarRun -------------------------------
(***************************************************************************)
(* What the versions of OrderedStatCfarImpl have in common: the offsets    *)
(* the constructor computes, the loop of run(), and the choice made by     *)
(* reduceSelectBuffer().  How a version keeps its window is a module that  *)
(* extends this one and conjoins what each step does to the window.        *)
(*                                                                         *)
(* A version's buffers hold copies of input values; in the models they     *)
(* hold the positions the values were read from, the value being           *)
(* input[position]: the caller's array does not change during a run.       *)
(***************************************************************************)
EXTENDS CfarInputs, Sequences, SequencesExt

VARIABLES
    maskSelect, maskOmit, percentile, (* the constructor's arguments       *)
    size, input, output,              (* the arguments of the current run  *)
    pc,                               (* where run() is                    *)
    idx                               (* the cell run() is at              *)

config == <<maskSelect, maskOmit, percentile>>
args == <<size, input>>
runVars == <<maskSelect, maskOmit, percentile, size, input, output, pc, idx>>

Positions == 0 .. size - 1

(* The offsets computed by the constructor.                                *)
LeftStartOffset == 0 - maskSelect - (2 * maskOmit - 1) \div 2
LeftEndOffset == 0 - 1 - (2 * maskOmit - 1) \div 2
RightStartOffset == (2 * maskOmit - 1) \div 2 + 1
RightEndOffset == (2 * maskOmit - 1) \div 2 + maskSelect

(* Operations of std::deque, the front at the head of the sequence.        *)
PushFront(d, x) == Cons(x, d)
PopBack(d) == Front(d)

(* The last position of the initial fill of the right window, and the      *)
(* sequence that pushing lo, lo + 1, ..., hi to the front makes.           *)
FillEnd == IF RightEndOffset < size - 1 THEN RightEndOffset ELSE size - 1
Descending(hi, lo) == [j \in 1 .. hi - lo + 1 |-> hi + 1 - j]

(* Neither block of ones touches the array: the early return of            *)
(* slideSelectWindow.                                                      *)
InTheEye == idx + LeftEndOffset < 0 /\ idx + RightStartOffset >= size

RunInit ==
    /\ \E s \in Shapes : maskSelect = s.select /\ maskOmit = s.omit
    /\ percentile \in Percentiles
    /\ size = 0 /\ input = <<>> /\ output = <<>>
    /\ pc = "idle" /\ idx = 0

(* A caller passes an array of one of the sizes to run().                  *)
CallRun ==
    /\ pc = "idle"
    /\ \E s \in Shapes :
          /\ s.select = maskSelect /\ s.omit = maskOmit
          /\ size' = s.size
          /\ input' \in [0 .. s.size - 1 -> Values]
          /\ output' = [i \in 0 .. s.size - 1 |-> Unset]
    /\ pc' = "enter"
    /\ UNCHANGED <<config, idx>>

(* The omit mask is too wide for this array: nothing is even cleared.      *)
ReturnEarly ==
    /\ pc = "enter"
    /\ RightStartOffset >= size
    /\ pc' = "idle"
    /\ UNCHANGED <<config, args, output, idx>>

EnterLoop ==
    /\ pc = "enter"
    /\ RightStartOffset < size
    /\ idx' = 0
    /\ pc' = "slide"
    /\ UNCHANGED <<config, args, output>>

(* Control moves on from slideSelectWindow.                                *)
Slid ==
    /\ pc = "slide"
    /\ pc' = "reduce"
    /\ UNCHANGED <<config, args, output, idx>>

(* v is what std::nth_element may leave at the index asked for.            *)
Reduced(scratch, v) ==
    LET slots == DOMAIN scratch
        key == [d \in slots |-> input[scratch[d]]]
    IN  IsNthElement(key, slots, NthIndex(percentile, Len(scratch)), v)

WriteReduced(scratch) ==
    /\ pc = "reduce"
    /\ scratch # <<>>
    /\ \E v \in Values : Reduced(scratch, v) /\ output' = [output EXCEPT ![idx] = v]
    /\ pc' = "advance"
    /\ UNCHANGED <<config, args, idx>>

(* Mutant: nothing to reduce starts the next iteration without ++idx.      *)
SkipReduceContinues(scratch) ==
    /\ pc = "reduce"
    /\ scratch = <<>>
    /\ pc' = "slide"
    /\ UNCHANGED <<config, args, output, idx>>

SkipReduce(scratch) ==
    /\ pc = "reduce"
    /\ scratch = <<>>
    /\ pc' = "advance"
    /\ UNCHANGED <<config, args, output, idx>>

(* Mutant: the loop ends one cell early.                                   *)
AdvanceIdxShort ==
    /\ pc = "advance"
    /\ idx' = idx + 1
    /\ pc' = IF idx + 2 < size THEN "slide" ELSE "idle"
    /\ UNCHANGED <<config, args, output>>

(* while (++idx < size)                                                    *)
AdvanceIdx ==
    /\ pc = "advance"
    /\ idx' = idx + 1
    /\ pc' = IF idx + 1 < size THEN "slide" ELSE "idle"
    /\ UNCHANGED <<config, args, output>>

RunTypeOK ==
    /\ maskSelect \in Nat \ {0} /\ maskOmit \in Nat \ {0}
    /\ percentile \in Percentiles
    /\ size \in Nat
    /\ input \in [Positions -> Values]
    /\ output \in [Positions -> Values \cup {Unset}]
    /\ pc \in {"idle", "enter", "slide", "reduce", "advance"}
    /\ idx \in Nat

(* Every cell whose window is not empty gets a permitted value before      *)
(* run() returns, and no other cell is touched: the contract of run().     *)
Abs == INSTANCE Cfar WITH running <- (pc # "idle")
ImplementsCfar == Abs!Spec
=============================================================================

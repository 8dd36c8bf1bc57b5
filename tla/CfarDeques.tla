----------------------------- MODULE CfarDeques -----------------------------
(***************************************************************************)
(* OrderedStatCfarImpl of candidateTest: the window is kept in two deques, *)
(* one per block of ones of the mask, that slide one cell to the right per *)
(* iteration of run().  The deques are members of the object: they keep    *)
(* what a run left in them until a later run clears them.                  *)
(***************************************************************************)
EXTENDS CfarRun

VARIABLES selectLeft, selectRight

deques == <<selectLeft, selectRight>>
vars == <<maskSelect, maskOmit, percentile, size, input, output, pc, idx,
          selectLeft, selectRight>>

Init == RunInit /\ selectLeft = <<>> /\ selectRight = <<>>

Run == CallRun /\ UNCHANGED deques

TooWide == ReturnEarly /\ UNCHANGED deques

Enter == EnterLoop /\ selectLeft' = <<>> /\ selectRight' = <<>>

(* slideSelectWindow at cell 0: the initial fill of the right window.      *)
FillRight ==
    /\ Slid
    /\ idx = 0
    /\ selectRight' = Descending(FillEnd, RightStartOffset) \o selectRight
    /\ UNCHANGED selectLeft

(* Mutant: the left window is popped before it is full.                    *)
LeftPoppedAlways == IF selectLeft # <<>> THEN PopBack(selectLeft) ELSE selectLeft

LeftPopped ==
    IF idx + LeftStartOffset > 0 /\ selectLeft # <<>>
    THEN PopBack(selectLeft) ELSE selectLeft

RightPopped == IF selectRight # <<>> THEN PopBack(selectRight) ELSE selectRight

(* slideSelectWindow at a later cell.                                      *)
SlideWindow ==
    /\ Slid
    /\ idx > 0
    /\ selectLeft' = IF ~InTheEye /\ idx + LeftEndOffset >= 0
                     THEN PushFront(LeftPopped, idx + LeftEndOffset)
                     ELSE LeftPopped
    /\ selectRight' = IF ~InTheEye /\ idx + RightEndOffset < size
                      THEN PushFront(RightPopped, idx + RightEndOffset)
                      ELSE RightPopped

(* What reduceSelectBuffer copies to select from.                          *)
Scratch == selectLeft \o selectRight

Reduce == WriteReduced(Scratch) /\ UNCHANGED deques

NothingSelected == SkipReduce(Scratch) /\ UNCHANGED deques

Advance == AdvanceIdx /\ UNCHANGED deques

Step == \/ TooWide \/ Enter \/ FillRight \/ SlideWindow
        \/ Reduce \/ NothingSelected \/ Advance

Next == Run \/ Step

Spec == Init /\ [][Next]_vars

(* A caller need not call; a call that was made keeps executing.           *)
FairSpec == Spec /\ WF_vars(Step)
-----------------------------------------------------------------------------
(* Every variable holds a value of its type; pc is a line of run().        *)
TypeOK == RunTypeOK /\ selectLeft \in Seq(Nat) /\ selectRight \in Seq(Nat)

(* Whenever the deques are reduced they hold, newest position first and    *)
(* without a gap or a repetition, exactly what the mask selects around the *)
(* current cell: pops and pushes keep in step at both ends of the array,   *)
(* in the eye of the window, and in a run that follows another one.        *)
WindowExact ==
    pc = "reduce" =>
        /\ ToSet(selectLeft) = LeftWindow(maskSelect, maskOmit, size, idx)
        /\ ToSet(selectRight) = RightWindow(maskSelect, maskOmit, size, idx)
        /\ \A d \in {selectLeft, selectRight} :
              \A j \in 1 .. Len(d) - 1 : d[j] = d[j + 1] + 1

(* Every call of run() returns.                                            *)
RunReturns == pc = "enter" ~> pc = "idle"
=============================================================================

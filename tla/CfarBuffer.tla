----------------------------- MODULE CfarBuffer -----------------------------
(***************************************************************************)
(* OrderedStatCfarImpl of candidateTestNoCopies: one deque of (value,      *)
(* index) pairs holds both halves of the window and is reduced in place;   *)
(* first and leftLast bound the left half, rightFirst and last the right.  *)
(*                                                                         *)
(* nth_element permutes the deque.  Nothing depends on its order: a slot   *)
(* is found by the index kept in it, and the value selected depends on the *)
(* values present only, so the order in which slots were inserted is kept. *)
(* The four bounds have no initialiser: until the first cell of a first    *)
(* run sets them they are Unread, a value no step reads.                   *)
(***************************************************************************)
EXTENDS CfarRun

CONSTANT Unread

ASSUME UnreadAssumption == Unread \notin Nat

VARIABLES selectBuffer, first, leftLast, rightFirst, last

bounds == <<first, leftLast, rightFirst, last>>
window == <<selectBuffer, bounds>>
vars == <<maskSelect, maskOmit, percentile, size, input, output, pc, idx,
          selectBuffer, first, leftLast, rightFirst, last>>

Init ==
    /\ RunInit
    /\ selectBuffer = <<>>
    /\ first = Unread /\ leftLast = Unread /\ rightFirst = Unread /\ last = Unread

Run == CallRun /\ UNCHANGED window

TooWide == ReturnEarly /\ UNCHANGED window

Enter == EnterLoop /\ selectBuffer' = <<>> /\ UNCHANGED bounds

(* Mutant: the initial fill forgets one of the bounds.                     *)
FillRightUnbounded ==
    /\ Slid
    /\ idx = 0
    /\ selectBuffer' = Descending(FillEnd, RightStartOffset) \o selectBuffer
    /\ first' = RightStartOffset
    /\ rightFirst' = RightStartOffset
    /\ leftLast' = RightStartOffset - 1
    /\ UNCHANGED last

FillRight ==
    /\ Slid
    /\ idx = 0
    /\ selectBuffer' = Descending(FillEnd, RightStartOffset) \o selectBuffer
    /\ first' = RightStartOffset
    /\ rightFirst' = RightStartOffset
    /\ leftLast' = RightStartOffset - 1
    /\ last' = FillEnd

Found(buffer, i) == i \in ToSet(buffer)

InsertBefore(buffer, i, x) ==
    InsertAt(buffer, CHOOSE j \in DOMAIN buffer : buffer[j] = i, x)

(* The oldest entry of the left half leaves the window.                    *)
EvictsLeft ==
    /\ idx + LeftStartOffset > 0
    /\ leftLast >= first /\ leftLast <= last
    /\ Found(selectBuffer, first)

LeftEvicted == IF EvictsLeft THEN RemoveFirst(selectBuffer, first) ELSE selectBuffer
(* Mutant: ++first is forgotten.                                           *)
FirstEvictedStays == first

FirstEvicted == IF EvictsLeft THEN first + 1 ELSE first

(* The oldest entry of the right half leaves the window.                   *)
EvictsRight == rightFirst <= last /\ Found(LeftEvicted, rightFirst)

BothEvicted == IF EvictsRight THEN RemoveFirst(LeftEvicted, rightFirst) ELSE LeftEvicted
(* Mutant: ++rightFirst is forgotten.                                      *)
RightFirstEvictedStays == rightFirst

RightFirstEvicted == IF EvictsRight THEN rightFirst + 1 ELSE rightFirst

(* The three places where a new entry of the left half is inserted.        *)
EntersLeft == ~InTheEye /\ idx + LeftEndOffset >= 0

EntersBeforeRight ==
    /\ EntersLeft /\ leftLast < last
    /\ RightFirstEvicted <= last
    /\ Found(BothEvicted, RightFirstEvicted)

(* Mutant: an empty right half is not provided for.                        *)
EntersInFrontNever == FALSE

EntersInFront ==
    /\ EntersLeft
    /\ \/ leftLast < last /\ RightFirstEvicted > last
       \/ leftLast = last

LeftEntered ==
    LET new == idx + LeftEndOffset
    IN  IF EntersBeforeRight THEN InsertBefore(BothEvicted, RightFirstEvicted, new)
        ELSE IF EntersInFront THEN PushFront(BothEvicted, new)
        ELSE BothEvicted

(* slideSelectWindow at a later cell.                                      *)
SlideWindow ==
    /\ Slid
    /\ idx > 0
    /\ leftLast' = IF EntersBeforeRight \/ EntersInFront
                   THEN idx + LeftEndOffset ELSE leftLast
    /\ first' = IF EntersBeforeRight /\ FirstEvicted > idx + LeftEndOffset
                THEN idx + LeftEndOffset ELSE FirstEvicted
    /\ rightFirst' = RightFirstEvicted
    /\ IF ~InTheEye /\ idx + RightEndOffset < size
       THEN /\ selectBuffer' = PushFront(LeftEntered, idx + RightEndOffset)
            /\ last' = idx + RightEndOffset
       ELSE /\ selectBuffer' = LeftEntered
            /\ UNCHANGED last

Reduce == WriteReduced(selectBuffer) /\ UNCHANGED window

NothingSelected == SkipReduce(selectBuffer) /\ UNCHANGED window

Advance == AdvanceIdx /\ UNCHANGED window

Step == \/ TooWide \/ Enter \/ FillRight \/ SlideWindow
        \/ Reduce \/ NothingSelected \/ Advance

Next == Run \/ Step

Spec == Init /\ [][Next]_vars

-----------------------------------------------------------------------------
(* Every variable holds a value of its type; the bounds are read only      *)
(* after the first cell of a run set them.                                 *)
TypeOK ==
    /\ RunTypeOK
    /\ selectBuffer \in Seq(Nat)
    /\ \A b \in {first, leftLast, rightFirst, last} : b \in Nat \cup {Unread}
    /\ pc \in {"reduce", "advance"} \/ (pc = "slide" /\ idx > 0) =>
          Unread \notin {first, leftLast, rightFirst, last}

(* The shapes for which the left half keeps its own count: either the      *)
(* right half still has an entry when the first entry of the left half     *)
(* arrives, at cell omit, or the array is so short that no entry of the    *)
(* left half ever expires.                                                 *)
KeepsCount(s) ==
    \/ s.select > 1 /\ s.size > 2 * s.omit
    \/ s.size <= s.select + s.omit

WindowAt(i) == Window(maskSelect, maskOmit, size, i)

(* Whenever the buffer is reduced it holds each position the mask selects  *)
(* around the current cell once and no other position.                     *)
WindowExact ==
    pc = "reduce" =>
        /\ ToSet(selectBuffer) = WindowAt(idx)
        /\ IsInjective(selectBuffer)

(* The "Internal Error!" lines are never reached: the entry that should    *)
(* leave the right half, and the one to insert next to, is in the buffer,  *)
(* and the left half never overtakes the right one.                        *)
NoInternalError ==
    pc = "slide" /\ idx > 0 =>
        /\ rightFirst <= last => EvictsRight
        /\ EntersLeft => EntersBeforeRight \/ EntersInFront
=============================================================================

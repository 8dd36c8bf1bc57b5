-------------------------- MODULE CfarDequesProofs --------------------------
(***************************************************************************)
(* Theorems of CfarDeques for every mask, percentile, set of values and    *)
(* array size: type correctness and the exactness of the window.           *)
(***************************************************************************)
EXTENDS CfarDeques, CfarRunProofs

(* A deque that holds the positions hi, hi - 1, ..., lo and nothing else.  *)
IsBlock(d, hi, lo) ==
    /\ d \in Seq(Nat)
    /\ Len(d) = IF lo <= hi THEN hi - lo + 1 ELSE 0
    /\ \A j \in 1 .. Len(d) : d[j] = hi + 1 - j

HalvesAt(i) ==
    /\ IsBlock(selectLeft, LeftHi(i), LeftLo(i))
    /\ IsBlock(selectRight, RightHi(i), RightLo(i))

(* The inductive invariant: between two slides the deques are one cell     *)
(* behind, after one they are at the current cell.                         *)
WindowInv ==
    /\ LoopInv
    /\ pc = "slide" /\ idx = 0 => selectLeft = <<>> /\ selectRight = <<>>
    /\ pc = "slide" /\ idx > 0 => HalvesAt(idx - 1)
    /\ pc \in {"reduce", "advance"} => HalvesAt(idx)

LEMMA EmptyBlock ==
    ASSUME NEW hi \in Int, NEW lo \in Int, NEW d \in Seq(Nat)
    PROVE  /\ hi < lo => (IsBlock(d, hi, lo) <=> d = <<>>)
           /\ lo <= hi /\ IsBlock(d, hi, lo) => d # <<>>
BY DEF IsBlock

LEMMA PushBlock ==
    ASSUME NEW d, NEW hi \in Int, NEW lo \in Int,
           IsBlock(d, hi, lo), lo <= hi + 1, hi + 1 \in Nat
    PROVE  IsBlock(PushFront(d, hi + 1), hi + 1, lo)
<1> DEFINE e == <<hi + 1>> \o d
<1>1. d \in Seq(Nat) /\ Len(d) = hi - lo + 1
  BY DEF IsBlock
<1>2. e \in Seq(Nat) /\ Len(e) = Len(d) + 1
  BY <1>1
<1>3. ASSUME NEW j \in 1 .. Len(e)
      PROVE  e[j] = hi + 2 - j
  <2>1. CASE j = 1
    BY <2>1, <1>1, <1>2
  <2>2. CASE j > 1
    <3>1. e[j] = d[j - 1]
      BY <2>2, <1>1, <1>2
    <3>2. d[j - 1] = hi + 1 - (j - 1)
      BY <2>2, <1>1, <1>2 DEF IsBlock
    <3> QED
      BY <3>1, <3>2
  <2> QED
    BY <2>1, <2>2
<1> QED
  BY <1>1, <1>2, <1>3 DEF IsBlock, PushFront, Cons

LEMMA PopBlock ==
    ASSUME NEW d, NEW hi \in Int, NEW lo \in Int, IsBlock(d, hi, lo), lo <= hi
    PROVE  IsBlock(PopBack(d), hi, lo + 1)
<1>1. d \in Seq(Nat) /\ Len(d) = hi - lo + 1
  BY DEF IsBlock
<1>2. /\ PopBack(d) \in Seq(Nat)
      /\ Len(PopBack(d)) = Len(d) - 1
      /\ \A j \in 1 .. Len(d) - 1 : PopBack(d)[j] = d[j]
  BY <1>1 DEF PopBack, Front
<1> QED
  BY <1>1, <1>2 DEF IsBlock

LEMMA DescendingBlock ==
    ASSUME NEW hi \in Int, NEW lo \in Nat
    PROVE  /\ IsBlock(Descending(hi, lo), hi, lo)
           /\ Descending(hi, lo) \o <<>> = Descending(hi, lo)
<1> DEFINE d == Descending(hi, lo)
           n == IF lo <= hi THEN hi - lo + 1 ELSE 0
<1>1. d = [j \in 1 .. n |-> hi + 1 - j]
  BY DEF Descending
<1>2. \A j \in 1 .. n : hi + 1 - j \in Nat
  OBVIOUS
<1>3. d \in [1 .. n -> Nat] /\ n \in Nat
  BY <1>1, <1>2
<1>4. d \in Seq(Nat) /\ Len(d) = n
  BY <1>1, <1>3
<1>5. d \o <<>> = d
  BY <1>4
<1> QED
  BY <1>1, <1>4, <1>5 DEF IsBlock

LEMMA BlockLists ==
    ASSUME NEW d, NEW hi \in Int, NEW lo \in Int, IsBlock(d, hi, lo)
    PROVE  Lists(d, lo .. hi)
<1> DEFINE n == Len(d)
           S == lo .. hi
<1>1. d \in Seq(Nat) /\ n = Len(d)
  BY DEF IsBlock
<1>2. n \in Nat /\ \A j \in 1 .. n : d[j] = hi + 1 - j /\ j \in Int /\ hi + 1 - j \in S
  BY DEF IsBlock
<1>3. ASSUME NEW x \in S PROVE \E j \in 1 .. n : d[j] = x
  <2>1. hi + 1 - x \in 1 .. n /\ hi + 1 - (hi + 1 - x) = x
    BY DEF IsBlock
  <2> QED
    BY <1>2, <2>1
<1>4. \A j \in 1 .. n : d[j] \in S
  BY <1>2
<1> HIDE DEF n, S
<1>5. \A j, k \in 1 .. n : d[j] = d[k] => j = k
  BY <1>2
<1>6. Lists(d, S)
  BY <1>1, <1>3, <1>4, <1>5, MakesLists
<1> QED
  BY <1>6 DEF S

LEMMA BlockSteps ==
    ASSUME NEW d, NEW hi \in Int, NEW lo \in Int, IsBlock(d, hi, lo)
    PROVE  \A j \in 1 .. Len(d) - 1 : d[j] = d[j + 1] + 1
<1>1. ASSUME NEW j \in 1 .. Len(d) - 1 PROVE d[j] = d[j + 1] + 1
  <2>1. Len(d) \in Nat
    BY DEF IsBlock
  <2>2. d[j] = hi + 1 - j /\ d[j + 1] = hi + 1 - (j + 1)
    BY <2>1 DEF IsBlock
  <2> QED
    BY <2>2
<1> QED
  BY <1>1

(* One slide moves the left half one cell on: the entry that falls off the *)
(* far end is popped once there is one, a new one enters once its position *)
(* is in the array.                                                        *)
LEMMA SlideLeft ==
    ASSUME maskSelect \in Nat \ {0}, maskOmit \in Nat \ {0},
           size \in Nat, idx \in Nat, 0 < idx, idx < size,
           selectLeft \in Seq(Nat),
           IsBlock(selectLeft, LeftHi(idx - 1), LeftLo(idx - 1)),
           NEW d,
           d = IF ~InTheEye /\ idx + LeftEndOffset >= 0
               THEN PushFront(LeftPopped, idx + LeftEndOffset)
               ELSE LeftPopped
    PROVE  IsBlock(d, LeftHi(idx), LeftLo(idx))
<1>1. /\ idx + LeftStartOffset = idx + 1 - maskSelect - maskOmit
      /\ idx + LeftEndOffset = LeftHi(idx)
      /\ LeftHi(idx) = LeftHi(idx - 1) + 1
      /\ LeftHi(idx) \in Int /\ LeftHi(idx - 1) \in Int
      /\ LeftLo(idx) \in Nat /\ LeftLo(idx - 1) \in Nat
  BY Offsets DEF LeftHi, LeftLo
<1>2. IsBlock(LeftPopped, LeftHi(idx - 1), LeftLo(idx))
  <2>1. CASE idx + LeftStartOffset > 0
    <3>1. LeftLo(idx - 1) <= LeftHi(idx - 1) /\ LeftLo(idx) = LeftLo(idx - 1) + 1
      BY <1>1, <2>1 DEF LeftLo, LeftHi
    <3>2. selectLeft # <<>>
      BY <1>1, <3>1, EmptyBlock
    <3> QED
      BY <1>1, <2>1, <3>1, <3>2, PopBlock DEF LeftPopped
  <2>2. CASE ~(idx + LeftStartOffset > 0)
    <3>1. LeftLo(idx) = LeftLo(idx - 1)
      BY <1>1, <2>2 DEF LeftLo
    <3> QED
      BY <2>2, <3>1 DEF LeftPopped
  <2> QED
    BY <2>1, <2>2
<1>3. CASE LeftHi(idx) >= 0
  <2>1. LeftLo(idx) <= LeftHi(idx)
    BY <1>3 DEF LeftLo, LeftHi
  <2>2. d = PushFront(LeftPopped, LeftHi(idx))
    BY <1>1, <1>3 DEF InTheEye
  <2> QED
    BY <1>1, <1>2, <1>3, <2>1, <2>2, PushBlock
<1>4. CASE LeftHi(idx) < 0
  <2>1. d = LeftPopped /\ LeftPopped \in Seq(Nat)
    BY <1>1, <1>2, <1>4 DEF IsBlock
  <2> QED
    BY <1>1, <1>2, <1>4, <2>1, EmptyBlock
<1> QED
  BY <1>1, <1>3, <1>4

(* The same of the right half: it loses its oldest entry as long as it has *)
(* one, and gains the next position as long as the array does.             *)
LEMMA SlideRight ==
    ASSUME maskSelect \in Nat \ {0}, maskOmit \in Nat \ {0},
           size \in Nat, idx \in Nat, 0 < idx, idx < size,
           selectRight \in Seq(Nat),
           IsBlock(selectRight, RightHi(idx - 1), RightLo(idx - 1)),
           NEW d,
           d = IF ~InTheEye /\ idx + RightEndOffset < size
               THEN PushFront(RightPopped, idx + RightEndOffset)
               ELSE RightPopped
    PROVE  IsBlock(d, RightHi(idx), RightLo(idx))
<1>1. /\ idx + RightEndOffset = idx + maskOmit + maskSelect - 1
      /\ idx + RightStartOffset = RightLo(idx)
      /\ RightLo(idx) = RightLo(idx - 1) + 1
      /\ RightHi(idx) \in Int /\ RightHi(idx - 1) \in Int
      /\ RightLo(idx) \in Nat /\ RightLo(idx - 1) \in Nat
  BY Offsets DEF RightHi, RightLo
<1>2. CASE RightHi(idx - 1) < RightLo(idx - 1)
  <2>1. selectRight = <<>>
    BY <1>1, <1>2, EmptyBlock
  <2>2. RightHi(idx) < RightLo(idx) /\ ~(idx + RightEndOffset < size)
    BY <1>1, <1>2 DEF RightHi, RightLo
  <2>3. d = selectRight
    BY <2>1, <2>2 DEF RightPopped
  <2>4. d \in Seq(Nat) /\ d = <<>>
    BY <2>1, <2>3
  <2>5. RightLo(idx) \in Int /\ RightHi(idx) \in Int
    BY <1>1
  <2> HIDE DEF RightLo, RightHi
  <2> QED
    BY <2>2, <2>4, <2>5, EmptyBlock
<1>3. CASE RightLo(idx - 1) <= RightHi(idx - 1)
  <2>1. selectRight # <<>>
    BY <1>1, <1>3, EmptyBlock
  <2>2. IsBlock(RightPopped, RightHi(idx - 1), RightLo(idx))
    BY <1>1, <1>3, <2>1, PopBlock DEF RightPopped
  <2>3. CASE idx + RightEndOffset < size
    <3>a. idx + maskOmit + maskSelect - 1 < size
      BY <1>1, <2>3
    <3>1. RightHi(idx) = RightHi(idx - 1) + 1 /\ RightHi(idx) = idx + RightEndOffset
      BY <1>1, <3>a DEF RightHi
    <3>2. ~InTheEye
      BY <1>1, <3>a DEF InTheEye, RightLo
    <3>3. d = PushFront(RightPopped, RightHi(idx))
      BY <2>3, <3>1, <3>2
    <3> QED
      BY <1>1, <1>3, <2>2, <3>1, <3>3, PushBlock
  <2>4. CASE ~(idx + RightEndOffset < size)
    <3>1. RightHi(idx) = RightHi(idx - 1) /\ d = RightPopped
      BY <1>1, <2>4 DEF RightHi
    <3> QED
      BY <2>2, <3>1
  <2> QED
    BY <2>3, <2>4
<1> QED
  BY <1>1, <1>2, <1>3
-----------------------------------------------------------------------------
(* Every step is a step of the loop.                                       *)
LEMMA RunsTheLoop == [Next]_vars => RunStep(Scratch)
BY DEF Next, Step, Run, TooWide, Enter, FillRight, SlideWindow, Reduce, NothingSelected,
       Advance, RunStep, vars, runVars

(* Every step keeps every variable in its type.                            *)
THEOREM TypeCorrect == Spec => []TypeOK
<1>1. Init => TypeOK
  BY RunInitInv DEF Init, TypeOK
<1>2. TypeOK /\ [Next]_vars => TypeOK'
  <2> SUFFICES ASSUME TypeOK, [Next]_vars PROVE TypeOK'
    OBVIOUS
  <2>1. RunTypeOK'
    BY RunsTheLoop, RunTypeStep DEF TypeOK
  <2>2. CASE FillRight
    <3>1. RightStartOffset \in Nat /\ FillEnd \in Int
      BY Offsets, RunTypes DEF TypeOK, FillEnd
    <3>2. Descending(FillEnd, RightStartOffset) \in Seq(Nat)
      BY <3>1, DescendingBlock DEF IsBlock
    <3> QED
      BY <2>1, <2>2, <3>2 DEF FillRight, TypeOK
  <2>3. CASE SlideWindow
    <3>1. LeftPopped \in Seq(Nat) /\ RightPopped \in Seq(Nat)
      <4>1. \A d \in Seq(Nat) : d # <<>> => PopBack(d) \in Seq(Nat)
        BY DEF PopBack, Front
      <4> QED
        BY <4>1 DEF LeftPopped, RightPopped, TypeOK
    <3>2. /\ idx + LeftEndOffset >= 0 => idx + LeftEndOffset \in Nat
          /\ idx + RightEndOffset \in Nat
      BY Offsets, RunTypes DEF TypeOK
    <3>3. \A d \in Seq(Nat), x \in Nat : PushFront(d, x) \in Seq(Nat)
      BY DEF PushFront, Cons
    <3>4. selectLeft' \in Seq(Nat) /\ selectRight' \in Seq(Nat)
      BY <2>3, <3>1, <3>2, <3>3 DEF SlideWindow
    <3> QED
      BY <2>1, <3>4 DEF TypeOK
  <2>4. CASE Enter
    BY <2>1, <2>4 DEF Enter, TypeOK
  <2>5. CASE UNCHANGED deques
    BY <2>1, <2>5 DEF TypeOK, deques
  <2> QED
    BY <2>2, <2>3, <2>4, <2>5
    DEF Next, Step, Run, TooWide, Reduce, NothingSelected, Advance, vars, deques
<1> QED
  BY <1>1, <1>2, PTL DEF Spec

(* The deques are where the inductive invariant says.                      *)
THEOREM WindowInvariant == Spec => []WindowInv
<1>1. Init => WindowInv
  BY RunInitInv DEF Init, RunInit, WindowInv
<1>2. TypeOK /\ WindowInv /\ [Next]_vars => WindowInv'
  <2> SUFFICES ASSUME TypeOK, WindowInv, [Next]_vars PROVE WindowInv'
    OBVIOUS
  <2>t. /\ maskSelect \in Nat \ {0} /\ maskOmit \in Nat \ {0}
        /\ size \in Nat /\ idx \in Nat
        /\ selectLeft \in Seq(Nat) /\ selectRight \in Seq(Nat)
    BY DEF TypeOK, RunTypeOK
  <2> USE DEF config, args, deques
  <2>l. LoopInv'
    BY RunsTheLoop, LoopStep DEF TypeOK, WindowInv
  <2>1. CASE Run
    BY <2>l, <2>1 DEF Run, CallRun, WindowInv
  <2>2. CASE TooWide
    BY <2>l, <2>2 DEF TooWide, ReturnEarly, WindowInv
  <2>3. CASE Enter
    BY <2>l, <2>3 DEF Enter, EnterLoop, WindowInv
  <2>4. CASE FillRight
    <3>1. /\ selectLeft = <<>> /\ selectRight = <<>>
          /\ maskOmit < size /\ idx = 0
      BY <2>4 DEF FillRight, Slid, WindowInv, LoopInv
    <3>2. FillEnd = RightHi(0) /\ RightStartOffset = RightLo(0)
      BY <2>t, Offsets DEF FillEnd, RightHi, RightLo
    <3>3. RightHi(0) \in Int /\ RightLo(0) \in Nat
      BY <2>t DEF RightHi, RightLo
    <3>4. IsBlock(selectRight', RightHi(0), RightLo(0))
      BY <2>4, <3>1, <3>2, <3>3, DescendingBlock DEF FillRight
    <3>5. /\ LeftHi(0) \in Int /\ LeftLo(0) \in Int
          /\ LeftHi(0) < LeftLo(0)
      BY <2>t DEF LeftHi, LeftLo
    <3>6. IsBlock(selectLeft, LeftHi(0), LeftLo(0))
      BY <2>t, <3>1, <3>5, EmptyBlock
    <3>7. HalvesAt(0)'
      BY <2>4, <3>4, <3>6 DEF FillRight, Slid, HalvesAt, LeftHi, LeftLo, RightHi, RightLo
    <3> QED
      BY <2>l, <2>4, <3>1, <3>7 DEF FillRight, Slid, WindowInv
  <2>5. CASE SlideWindow
    <3>1. /\ maskOmit < size /\ idx < size /\ idx > 0
          /\ IsBlock(selectLeft, LeftHi(idx - 1), LeftLo(idx - 1))
          /\ IsBlock(selectRight, RightHi(idx - 1), RightLo(idx - 1))
      BY <2>5 DEF SlideWindow, Slid, WindowInv, LoopInv, HalvesAt
    <3>2. IsBlock(selectLeft', LeftHi(idx), LeftLo(idx))
      BY <2>5, <2>t, <3>1, SlideLeft DEF SlideWindow
    <3>3. IsBlock(selectRight', RightHi(idx), RightLo(idx))
      BY <2>5, <2>t, <3>1, SlideRight DEF SlideWindow
    <3>4. HalvesAt(idx)'
      BY <2>5, <3>2, <3>3
      DEF SlideWindow, Slid, HalvesAt, LeftHi, LeftLo, RightHi, RightLo
    <3> QED
      BY <2>l, <2>5, <3>1, <3>4 DEF SlideWindow, Slid, WindowInv
  <2>6. CASE Reduce
    BY <2>l, <2>6 DEF Reduce, WriteReduced, WindowInv, HalvesAt, LeftHi, LeftLo, RightHi, RightLo
  <2>7. CASE NothingSelected
    BY <2>l, <2>7 DEF NothingSelected, SkipReduce, WindowInv,
                HalvesAt, LeftHi, LeftLo, RightHi, RightLo
  <2>8. CASE Advance
    <3>1. HalvesAt(idx)
      BY <2>8 DEF Advance, AdvanceIdx, WindowInv
    <3>2. idx' = idx + 1 /\ idx' - 1 = idx
      BY <2>8, <2>t DEF Advance, AdvanceIdx
    <3>3. HalvesAt(idx - 1)'
      BY <2>8, <3>1, <3>2
      DEF Advance, AdvanceIdx, HalvesAt, LeftHi, LeftLo, RightHi, RightLo
    <3> QED
      BY <2>l, <2>8, <2>t, <3>2, <3>3 DEF Advance, AdvanceIdx, WindowInv
  <2>9. CASE UNCHANGED vars
    BY <2>l, <2>9 DEF vars, WindowInv, HalvesAt, LeftHi, LeftLo, RightHi, RightLo
  <2> QED
    BY <2>1, <2>2, <2>3, <2>4, <2>5, <2>6, <2>7, <2>8, <2>9 DEF Next, Step
<1> QED
  BY <1>1, <1>2, TypeCorrect, PTL DEF Spec

(* Every reduction sees exactly the window, newest position first.         *)
THEOREM WindowIsExact == Spec => []WindowExact
<1>1. TypeOK /\ WindowInv => WindowExact
  <2> SUFFICES ASSUME TypeOK, WindowInv, pc = "reduce" PROVE WindowExact
    BY DEF WindowExact
  <2>1. /\ maskSelect \in Nat \ {0} /\ maskOmit \in Nat \ {0}
        /\ size \in Nat /\ idx \in Nat
    BY DEF TypeOK, RunTypeOK
  <2>2. /\ idx < size
        /\ IsBlock(selectLeft, LeftHi(idx), LeftLo(idx))
        /\ IsBlock(selectRight, RightHi(idx), RightLo(idx))
    BY DEF WindowInv, LoopInv, HalvesAt
  <2>3. /\ LeftHi(idx) \in Int /\ LeftLo(idx) \in Int
        /\ RightHi(idx) \in Int /\ RightLo(idx) \in Int
    BY <2>1 DEF LeftHi, LeftLo, RightHi, RightLo
  <2>4. /\ ToSet(selectLeft) = LeftLo(idx) .. LeftHi(idx)
        /\ ToSet(selectRight) = RightLo(idx) .. RightHi(idx)
    BY <2>2, <2>3, BlockLists DEF Lists
  <2>5. /\ LeftLo(idx) .. LeftHi(idx) = LeftWindow(maskSelect, maskOmit, size, idx)
        /\ RightLo(idx) .. RightHi(idx) = RightWindow(maskSelect, maskOmit, size, idx)
    BY <2>1, <2>2, Halves
  <2>6. \A d \in {selectLeft, selectRight} : \A j \in 1 .. Len(d) - 1 : d[j] = d[j + 1] + 1
    BY <2>2, <2>3, BlockSteps
  <2> QED
    BY <2>4, <2>5, <2>6 DEF WindowExact
<1> QED
  BY <1>1, TypeCorrect, WindowInvariant, PTL

(* What is reduced is the window: each of its positions once.              *)
LEMMA ScratchIsWindow ==
    ASSUME TypeOK, WindowInv, pc = "reduce"
    PROVE  HoldsWindow(Scratch)
<1>1. /\ maskSelect \in Nat \ {0} /\ maskOmit \in Nat \ {0}
      /\ size \in Nat /\ idx \in Nat
  BY DEF TypeOK, RunTypeOK
<1>2. /\ idx < size
      /\ IsBlock(selectLeft, LeftHi(idx), LeftLo(idx))
      /\ IsBlock(selectRight, RightHi(idx), RightLo(idx))
  BY DEF WindowInv, LoopInv, HalvesAt
<1>3. /\ LeftHi(idx) \in Int /\ LeftLo(idx) \in Int
      /\ RightHi(idx) \in Int /\ RightLo(idx) \in Int
      /\ LeftHi(idx) < RightLo(idx)
  BY <1>1 DEF LeftHi, LeftLo, RightHi, RightLo
<1> DEFINE L == LeftLo(idx) .. LeftHi(idx)
           R == RightLo(idx) .. RightHi(idx)
<1>4. Lists(selectLeft, L) /\ Lists(selectRight, R)
  BY <1>2, <1>3, BlockLists
<1>5. L \cap R = {}
  BY <1>3
<1>6. Window(maskSelect, maskOmit, size, idx) = L \cup R
  BY <1>1, <1>2, Halves
<1> HIDE DEF L, R
<1>7. Lists(selectLeft \o selectRight, L \cup R)
  BY <1>4, <1>5, ListsJoined
<1> QED
  BY <1>6, <1>7 DEF HoldsWindow, Scratch

-----------------------------------------------------------------------------
(* Nothing is written too early, and nothing is left out.                  *)
THEOREM OutputInvariant == Spec => []OutputInv
<1>1. Init => OutputInv
  BY RunInitInv DEF Init
<1>2. TypeOK /\ WindowInv /\ OutputInv /\ [Next]_vars => OutputInv'
  BY RunsTheLoop, ScratchIsWindow, OutputStep DEF TypeOK
<1> QED
  BY <1>1, <1>2, TypeCorrect, WindowInvariant, PTL DEF Spec

(* run() keeps its contract: for every mask, percentile, array and number  *)
(* of calls, each step of the implementation is a step of Cfar or a        *)
(* stutter.                                                                *)
THEOREM Implementation == Spec => ImplementsCfar
<1>1. Init => Abs!Init
  BY RunInitInv DEF Init
<1>2. TypeOK /\ WindowInv /\ OutputInv /\ [Next]_vars => [Abs!Next]_(Abs!vars)
  BY RunsTheLoop, ScratchIsWindow, ContractStep DEF TypeOK, WindowInv
<1> QED
  BY <1>1, <1>2, TypeCorrect, WindowInvariant, OutputInvariant, PTL
  DEF Spec, ImplementsCfar, Abs!Spec
=============================================================================

-------------------------- MODULE CfarBufferProofs --------------------------
(***************************************************************************)
(* Theorems of CfarBuffer for every percentile, set of values and number   *)
(* of calls, and for every mask and array size for which the left half     *)
(* keeps its count.                                                        *)
(***************************************************************************)
EXTENDS CfarBuffer, CfarRunProofs

LEMMA ListPushed ==
    ASSUME NEW d, NEW S, Lists(d, S), NEW x \in Nat, x \notin S
    PROVE  Lists(PushFront(d, x), S \cup {x})
<1>1. Lists(<<x>>, {x})
  BY ListsOne
<1>2. {x} \cap S = {} /\ {x} \cup S = S \cup {x}
  OBVIOUS
<1>3. Lists(<<x>> \o d, {x} \cup S)
  BY <1>1, <1>2, ListsJoined
<1> QED
  BY <1>2, <1>3 DEF PushFront, Cons

LEMMA ListInserted ==
    ASSUME NEW d, NEW S, Lists(d, S), NEW i \in S, NEW x \in Nat, x \notin S
    PROVE  Lists(InsertBefore(d, i, x), S \cup {x})
<1> DEFINE p == CHOOSE j \in DOMAIN d : d[j] = i
           f == SubSeq(d, 1, p - 1)
           g == SubSeq(d, p, Len(d))
<1>1. /\ d \in Seq(Nat) /\ Len(d) \in Nat /\ DOMAIN d = 1 .. Len(d)
      /\ \E j \in DOMAIN d : d[j] = i
  <2>1. d \in Seq(Nat)
    BY DEF Lists
  <2> QED
    BY <2>1, ListsMeans
<1>2. p \in 1 .. Len(d)
  BY <1>1
<1> HIDE DEF p
<1>3. p - 1 \in 0 .. Len(d) /\ (p - 1) + 1 = p
  BY <1>1, <1>2
<1>4. PICK A \in SUBSET S : Lists(f, A) /\ Lists(g, S \ A)
  BY <1>3, ListsSplit
<1> HIDE DEF f, g
<1>5. Lists(<<x>>, {x})
  BY ListsOne
<1>6. Lists(f \o <<x>>, A \cup {x})
  <2>1. A \cap {x} = {}
    OBVIOUS
  <2> QED
    BY <1>4, <1>5, <2>1, ListsJoined
<1>7. Lists(f \o <<x>> \o g, (A \cup {x}) \cup (S \ A))
  <2>1. (A \cup {x}) \cap (S \ A) = {}
    OBVIOUS
  <2> QED
    BY <1>4, <1>6, <2>1, ListsJoined
<1>8. (A \cup {x}) \cup (S \ A) = S \cup {x}
  OBVIOUS
<1>9. InsertBefore(d, i, x) = f \o <<x>> \o g
  BY DEF InsertBefore, InsertAt, f, g, p
<1> QED
  BY <1>7, <1>8, <1>9

LEMMA ListRemoved ==
    ASSUME NEW d, NEW S, Lists(d, S), NEW i \in S
    PROVE  Lists(RemoveFirst(d, i), S \ {i})
<1>1. /\ d \in Seq(Nat) /\ DOMAIN d = 1 .. Len(d) /\ Len(d) \in Nat
      /\ \E j \in 1 .. Len(d) : d[j] = i
      /\ \A j, k \in 1 .. Len(d) : d[j] = d[k] => j = k
  <2>1. d \in Seq(Nat)
    BY DEF Lists
  <2> QED
    BY <2>1, ListsMeans
<1>2. PICK p \in 1 .. Len(d) : d[p] = i
  BY <1>1
<1> DEFINE f == SubSeq(d, 1, p - 1)
           g == SubSeq(d, p + 1, Len(d))
           h == SubSeq(d, 1, p)
<1>3. RemoveFirst(d, i) = f \o g
  <2> DEFINE I == {j \in 1 .. Len(d) : d[j] = i}
  <2>1. I = {p}
    BY <1>1, <1>2
  <2>2. Min({p}) = p
    BY <1>1, <1>2 DEF Min
  <2>3. SelectInSeq(d, LAMBDA e : e = i) = p
    BY <1>1, <2>1, <2>2 DEF SelectInSeq
  <2> QED
    BY <1>2, <2>3 DEF RemoveFirst, RemoveAt
<1>4. p \in 0 .. Len(d) /\ p \in Nat
  BY <1>1
<1>5. PICK A \in SUBSET S : Lists(h, A) /\ Lists(g, S \ A)
  BY <1>4, ListsSplit
<1>6. /\ h \in Seq(Nat) /\ Len(h) = p
      /\ \A j \in 1 .. p : h[j] = d[j] /\ d[j] \in Nat
  BY <1>1, <1>4
<1>7. SubSeq(h, 1, p - 1) = f /\ SubSeq(h, p, Len(h)) = <<i>>
  <2>1. /\ f \in Seq(Nat) /\ Len(f) = p - 1
        /\ \A j \in 1 .. p - 1 : f[j] = d[j]
    BY <1>1, <1>4
  <2> HIDE DEF f, h
  <2> DEFINE hf == SubSeq(h, 1, p - 1)
             hl == SubSeq(h, p, p)
  <2>2. /\ hf \in Seq(Nat) /\ Len(hf) = p - 1
        /\ \A j \in 1 .. p - 1 : hf[j] = h[j]
    BY <1>4, <1>6
  <2>3. hl \in Seq(Nat) /\ Len(hl) = 1 /\ hl[1] = h[p]
    BY <1>4, <1>6
  <2>4. h[p] = i
    BY <1>2, <1>6
  <2> HIDE DEF hf, hl
  <2>5. \A j \in 1 .. p - 1 : hf[j] = f[j]
    <3>1. \A j \in 1 .. p - 1 : j \in 1 .. p
      BY <1>4
    <3> QED
      BY <1>6, <2>1, <2>2, <3>1
  <2>6. hf = f
    BY <2>1, <2>2, <2>5
  <2>7. hl = <<i>>
    BY <2>3, <2>4
  <2> QED
    BY <1>6, <2>6, <2>7 DEF hf, hl
<1> HIDE DEF f, g, h
<1>8. PICK B \in SUBSET A : Lists(f, B) /\ Lists(<<i>>, A \ B)
  <2>1. p - 1 \in 0 .. Len(h) /\ (p - 1) + 1 = p /\ Len(h) = p
    BY <1>4, <1>6
  <2>2. \E B \in SUBSET A : /\ Lists(SubSeq(h, 1, p - 1), B)
                            /\ Lists(SubSeq(h, (p - 1) + 1, Len(h)), A \ B)
    BY <1>5, <2>1, ListsSplit
  <2> QED
    BY <1>7, <2>1, <2>2
<1>9. A \ B = {i}
  BY <1>8 DEF Lists, ToSet
<1>10. B \cap (S \ A) = {} /\ B \cup (S \ A) = S \ {i}
  BY <1>9
<1>11. Lists(f \o g, B \cup (S \ A))
  BY <1>5, <1>8, <1>10, ListsJoined
<1> QED
  BY <1>3, <1>10, <1>11

-----------------------------------------------------------------------------
(* What the buffer and its bounds are after the slide at cell i.  first is *)
(* known only where the left half keeps its count by evicting.             *)
KeptAt(i) ==
    /\ Lists(selectBuffer, LeftHalf(i) \cup RightHalf(i))
    /\ last = RightHi(i)
    /\ rightFirst = IF i + maskOmit <= size THEN i + maskOmit ELSE size
    /\ leftLast = IF i >= maskOmit THEN i - maskOmit ELSE maskOmit - 1
    /\ first \in Nat
    /\ maskSelect > 1 /\ size > 2 * maskOmit =>
          first = IF i >= maskOmit THEN LeftLo(i) ELSE maskOmit

Shape == [select |-> maskSelect, omit |-> maskOmit, size |-> size]

(* A slide is about to move the window on to cell idx.                     *)
Sliding ==
    /\ RunTypeOK
    /\ maskOmit < size /\ 0 < idx /\ idx < size
    /\ KeepsCount(Shape)
    /\ KeptAt(idx - 1)

LEMMA SlidingNumbers ==
    ASSUME Sliding
    PROVE  /\ maskSelect \in Nat \ {0} /\ maskOmit \in Nat \ {0}
           /\ size \in Nat /\ idx \in Nat /\ maskOmit < size /\ 0 < idx /\ idx < size
           /\ (maskSelect > 1 /\ size > 2 * maskOmit) \/ size <= maskSelect + maskOmit
           /\ LeftStartOffset = 1 - maskSelect - maskOmit
           /\ LeftEndOffset = 0 - maskOmit
           /\ RightStartOffset = maskOmit
           /\ RightEndOffset = maskOmit + maskSelect - 1
           /\ LeftHi(idx) = idx - maskOmit /\ LeftHi(idx - 1) = idx - maskOmit - 1
           /\ RightLo(idx) = idx + maskOmit /\ RightLo(idx - 1) = idx + maskOmit - 1
           /\ LeftLo(idx) \in Nat /\ LeftLo(idx - 1) \in Nat
           /\ RightHi(idx) \in Int /\ RightHi(idx - 1) \in Int
BY SlideNumbers DEF Sliding, KeepsCount, Shape

(* The oldest entry of the left half goes when it leaves the window.       *)
LEMMA LeftEviction ==
    ASSUME Sliding
    PROVE  /\ Lists(LeftEvicted, (LeftLo(idx) .. LeftHi(idx - 1)) \cup RightHalf(idx - 1))
           /\ FirstEvicted \in Nat
           /\ maskSelect > 1 /\ size > 2 * maskOmit =>
                 FirstEvicted = IF idx > maskOmit THEN LeftLo(idx) ELSE maskOmit
<1> DEFINE S == LeftHalf(idx - 1) \cup RightHalf(idx - 1)
           T == (LeftLo(idx) .. LeftHi(idx - 1)) \cup RightHalf(idx - 1)
<1>k. /\ Lists(selectBuffer, S) /\ first \in Nat
      /\ last = RightHi(idx - 1)
      /\ leftLast = IF idx > maskOmit THEN idx - 1 - maskOmit ELSE maskOmit - 1
      /\ maskSelect > 1 /\ size > 2 * maskOmit =>
            first = IF idx > maskOmit THEN LeftLo(idx - 1) ELSE maskOmit
  <2>1. idx - 1 >= maskOmit <=> idx > maskOmit
    BY SlidingNumbers
  <2> QED
    BY <2>1 DEF Sliding, KeptAt
<1>1. CASE idx + LeftStartOffset <= 0
  <2>1. ~EvictsLeft
    BY <1>1, SlidingNumbers DEF EvictsLeft
  <2>2. LeftLo(idx) = 0 /\ LeftLo(idx - 1) = 0
    BY <1>1, SlidingNumbers DEF LeftLo
  <2>3. S = T
    BY <2>2 DEF LeftHalf
  <2> QED
    BY <1>k, <2>1, <2>2, <2>3 DEF LeftEvicted, FirstEvicted
<1>2. CASE idx + LeftStartOffset > 0
  <2>1. maskSelect > 1 /\ size > 2 * maskOmit /\ idx > maskOmit
    BY <1>2, SlidingNumbers
  <2>2. first = LeftLo(idx - 1) /\ LeftLo(idx) = LeftLo(idx - 1) + 1
    BY <1>2, <1>k, <2>1, SlidingNumbers DEF LeftLo
  <2>3. first <= LeftHi(idx - 1) /\ LeftHi(idx - 1) < RightLo(idx - 1)
    BY <1>2, <2>2, SlidingNumbers DEF LeftLo
  <2>4. leftLast >= first /\ leftLast <= last
    BY <1>k, <2>1, <2>3, SlidingNumbers DEF RightHi
  <2>5. first \in S
    BY <1>k, <2>2, <2>3, SlidingNumbers DEF LeftHalf
  <2>6. S \ {first} = T
    BY <1>k, <2>2, <2>3, SlidingNumbers DEF LeftHalf, RightHalf
  <2> HIDE DEF S, T
  <2>7. EvictsLeft
    BY <1>2, <1>k, <2>4, <2>5 DEF EvictsLeft, Found, Lists
  <2>8. Lists(LeftEvicted, T)
    BY <1>k, <2>5, <2>6, <2>7, ListRemoved DEF LeftEvicted
  <2>9. FirstEvicted = LeftLo(idx)
    BY <2>2, <2>7 DEF FirstEvicted
  <2> QED
    BY <2>1, <2>8, <2>9, SlidingNumbers DEF T
<1> QED
  BY <1>1, <1>2, SlidingNumbers

(* The oldest entry of the right half goes if the half has one.            *)
LEMMA RightEviction ==
    ASSUME Sliding
    PROVE  /\ Lists(BothEvicted, (LeftLo(idx) .. LeftHi(idx - 1))
                                    \cup (RightLo(idx) .. RightHi(idx - 1)))
           /\ RightFirstEvicted = IF idx + maskOmit <= size THEN idx + maskOmit ELSE size
           /\ rightFirst <= last => EvictsRight
<1> DEFINE S == (LeftLo(idx) .. LeftHi(idx - 1)) \cup RightHalf(idx - 1)
           T == (LeftLo(idx) .. LeftHi(idx - 1)) \cup (RightLo(idx) .. RightHi(idx - 1))
<1>k. /\ Lists(LeftEvicted, S)
      /\ last = RightHi(idx - 1)
      /\ rightFirst = IF idx - 1 + maskOmit <= size THEN idx - 1 + maskOmit ELSE size
  BY LeftEviction DEF Sliding, KeptAt
<1>1. CASE RightLo(idx - 1) <= RightHi(idx - 1)
  <2>1. idx + maskOmit <= size
    BY <1>1, SlidingNumbers DEF RightHi
  <2>2. rightFirst = RightLo(idx - 1) /\ rightFirst <= last
    BY <1>1, <1>k, <2>1, SlidingNumbers
  <2>3. rightFirst \in S
    BY <1>1, <2>2, SlidingNumbers DEF RightHalf
  <2>4. S \ {rightFirst} = T
    BY <2>2, SlidingNumbers DEF RightHalf
  <2> HIDE DEF S, T
  <2>5. EvictsRight
    BY <1>k, <2>2, <2>3 DEF EvictsRight, Found, Lists
  <2>6. Lists(BothEvicted, T)
    BY <1>k, <2>3, <2>4, <2>5, ListRemoved DEF BothEvicted
  <2> QED
    BY <2>1, <2>2, <2>5, <2>6, SlidingNumbers DEF RightFirstEvicted, T
<1>2. CASE ~(RightLo(idx - 1) <= RightHi(idx - 1))
  <2>1. idx - 1 + maskOmit >= size
    BY <1>2, SlidingNumbers DEF RightHi
  <2>2. rightFirst = size /\ last < size
    BY <1>k, <2>1, SlidingNumbers DEF RightHi
  <2>3. ~EvictsRight /\ ~(rightFirst <= last)
    BY <1>k, <2>2, SlidingNumbers DEF EvictsRight
  <2>4. S = T
    BY <1>2, SlidingNumbers DEF RightHalf
  <2>5. RightFirstEvicted = IF idx + maskOmit <= size THEN idx + maskOmit ELSE size
    BY <2>1, <2>2, <2>3, SlidingNumbers DEF RightFirstEvicted
  <2> HIDE DEF S, T
  <2>6. Lists(BothEvicted, T)
    BY <1>k, <2>3, <2>4 DEF BothEvicted
  <2> QED
    BY <2>3, <2>5, <2>6 DEF T
<1> QED
  BY <1>1, <1>2

(* The next entry of the left half comes in once its position is in the    *)
(* array, and one of the places to insert it is found.                     *)
LEMMA LeftEntry ==
    ASSUME Sliding
    PROVE  /\ Lists(LeftEntered, LeftHalf(idx) \cup (RightLo(idx) .. RightHi(idx - 1)))
           /\ EntersLeft <=> idx >= maskOmit
           /\ EntersLeft => EntersBeforeRight \/ EntersInFront
           /\ EntersBeforeRight <=> EntersLeft /\ idx + maskOmit <= RightHi(idx - 1)
<1> DEFINE S == (LeftLo(idx) .. LeftHi(idx - 1)) \cup (RightLo(idx) .. RightHi(idx - 1))
           T == LeftHalf(idx) \cup (RightLo(idx) .. RightHi(idx - 1))
           new == idx + LeftEndOffset
<1>k. /\ Lists(BothEvicted, S)
      /\ RightFirstEvicted = IF idx + maskOmit <= size THEN idx + maskOmit ELSE size
      /\ last = RightHi(idx - 1)
      /\ leftLast = IF idx > maskOmit THEN idx - 1 - maskOmit ELSE maskOmit - 1
  <2>1. idx - 1 >= maskOmit <=> idx > maskOmit
    BY SlidingNumbers
  <2> QED
    BY <2>1, RightEviction DEF Sliding, KeptAt
<1>e. EntersLeft <=> idx >= maskOmit
  BY SlidingNumbers DEF EntersLeft, InTheEye
<1>1. CASE idx < maskOmit
  <2>1. ~EntersLeft
    BY <1>1, <1>e, SlidingNumbers
  <2>2. S = T
    BY <1>1, SlidingNumbers DEF LeftHalf
  <2> QED
    BY <1>e, <1>k, <2>1, <2>2 DEF LeftEntered, EntersBeforeRight, EntersInFront
<1>2. CASE idx >= maskOmit
  <2>1. EntersLeft /\ leftLast < last
    BY <1>2, <1>e, <1>k, SlidingNumbers DEF RightHi
  <2>2. new \in Nat /\ new = LeftHi(idx) /\ LeftLo(idx) <= LeftHi(idx)
    BY <1>2, SlidingNumbers DEF LeftLo
  <2>3. new \notin S /\ S \cup {new} = T
    BY <2>2, SlidingNumbers DEF LeftHalf
  <2>4. last < size /\ last \in Int /\ RightFirstEvicted \in Int
    BY <1>k, SlidingNumbers DEF RightHi
  <2>5. CASE idx + maskOmit <= last
    <3>1. RightFirstEvicted = idx + maskOmit /\ RightFirstEvicted \in S
      BY <1>k, <2>4, <2>5, SlidingNumbers
    <3> HIDE DEF S, T, new
    <3>2. EntersBeforeRight
      BY <1>k, <2>1, <2>5, <3>1 DEF EntersBeforeRight, Found, Lists
    <3>3. LeftEntered = InsertBefore(BothEvicted, RightFirstEvicted, new)
      BY <3>2 DEF LeftEntered, new
    <3>4. Lists(LeftEntered, T)
      BY <1>k, <2>2, <2>3, <3>1, <3>3, ListInserted
    <3> QED
      BY <1>e, <1>k, <2>1, <2>5, <3>2, <3>4 DEF T
  <2>6. CASE ~(idx + maskOmit <= last)
    <3>1. RightFirstEvicted > last
      BY <1>k, <2>4, <2>6, SlidingNumbers
    <3>2. ~EntersBeforeRight /\ EntersInFront
      BY <2>1, <2>4, <3>1 DEF EntersBeforeRight, EntersInFront
    <3> HIDE DEF S, T, new
    <3>3. LeftEntered = PushFront(BothEvicted, new)
      BY <3>2 DEF LeftEntered, new
    <3>4. Lists(LeftEntered, T)
      BY <1>k, <2>2, <2>3, <3>3, ListPushed
    <3> QED
      BY <1>e, <1>k, <2>6, <3>2, <3>4 DEF T
  <2> QED
    BY <2>5, <2>6
<1> QED
  BY <1>1, <1>2, SlidingNumbers

(* A slide leaves the window of the next cell in the buffer.               *)
LEMMA SlideKeeps ==
    ASSUME Sliding, SlideWindow
    PROVE  KeptAt(idx)'
<1> DEFINE S == LeftHalf(idx) \cup (RightLo(idx) .. RightHi(idx - 1))
           T == LeftHalf(idx) \cup RightHalf(idx)
           new == idx + RightEndOffset
<1>1. Lists(selectBuffer', T) /\ last' = RightHi(idx)
  <2>k. Lists(LeftEntered, S) /\ last = RightHi(idx - 1)
    BY LeftEntry DEF Sliding, KeptAt
  <2>1. CASE new < size
    <3>1. ~InTheEye
      BY <2>1, SlidingNumbers DEF InTheEye
    <3>2. selectBuffer' = PushFront(LeftEntered, new) /\ last' = new
      BY <2>1, <3>1 DEF SlideWindow
    <3>3. /\ new \in Nat /\ new = RightHi(idx) /\ RightHi(idx) = RightHi(idx - 1) + 1
          /\ RightLo(idx) <= RightHi(idx) /\ LeftHi(idx) < RightHi(idx)
      BY <2>1, SlidingNumbers DEF RightHi
    <3>4. new \notin S /\ S \cup {new} = T
      BY <3>3, SlidingNumbers DEF LeftHalf, RightHalf
    <3> HIDE DEF S, T, new
    <3> QED
      BY <2>k, <3>2, <3>3, <3>4, ListPushed
  <2>2. CASE ~(new < size)
    <3>1. selectBuffer' = LeftEntered /\ last' = last
      BY <2>2 DEF SlideWindow
    <3>2. RightHi(idx) = RightHi(idx - 1)
      BY <2>2, SlidingNumbers DEF RightHi
    <3>3. S = T
      BY <3>2 DEF RightHalf
    <3> HIDE DEF S, T
    <3> QED
      BY <2>k, <3>1, <3>2, <3>3
  <2> QED
    BY <2>1, <2>2
<1>2. leftLast' = IF idx >= maskOmit THEN idx - maskOmit ELSE maskOmit - 1
  <2>1. leftLast = IF idx - 1 >= maskOmit THEN idx - 1 - maskOmit ELSE maskOmit - 1
    BY DEF Sliding, KeptAt
  <2>2. EntersBeforeRight \/ EntersInFront <=> idx >= maskOmit
    BY LeftEntry DEF EntersBeforeRight, EntersInFront
  <2>3. leftLast' = IF EntersBeforeRight \/ EntersInFront THEN idx + LeftEndOffset ELSE leftLast
    BY DEF SlideWindow
  <2> QED
    BY <2>1, <2>2, <2>3, SlidingNumbers
<1>3. /\ first' \in Nat
      /\ maskSelect > 1 /\ size > 2 * maskOmit =>
            first' = IF idx >= maskOmit THEN LeftLo(idx) ELSE maskOmit
  <2>1. first' = IF EntersBeforeRight /\ FirstEvicted > idx - maskOmit
                 THEN idx - maskOmit ELSE FirstEvicted
    BY SlidingNumbers DEF SlideWindow
  <2>2. EntersBeforeRight => idx >= maskOmit
    BY LeftEntry
  <2>3. first' \in Nat
    BY <2>1, <2>2, LeftEviction, SlidingNumbers
  <2>4. ASSUME maskSelect > 1, size > 2 * maskOmit
        PROVE  first' = IF idx >= maskOmit THEN LeftLo(idx) ELSE maskOmit
    <3>k. FirstEvicted = IF idx > maskOmit THEN LeftLo(idx) ELSE maskOmit
      BY <2>4, LeftEviction
    <3>1. CASE idx < maskOmit
      BY <2>1, <2>2, <3>k, <3>1, SlidingNumbers
    <3>2. CASE idx = maskOmit
      <4>1. EntersBeforeRight
        BY <2>4, <3>2, LeftEntry, SlidingNumbers DEF RightHi
      <4>2. LeftLo(idx) = 0
        BY <2>4, <3>2, SlidingNumbers DEF LeftLo
      <4> QED
        BY <2>1, <3>k, <3>2, <4>1, <4>2, SlidingNumbers
    <3>3. CASE idx > maskOmit
      <4>1. LeftLo(idx) <= idx - maskOmit
        BY <3>3, SlidingNumbers DEF LeftLo
      <4> QED
        BY <2>1, <3>k, <3>3, <4>1, SlidingNumbers
    <3> QED
      BY <3>1, <3>2, <3>3, SlidingNumbers
  <2> QED
    BY <2>3, <2>4
<1>4. rightFirst' = IF idx + maskOmit <= size THEN idx + maskOmit ELSE size
  BY RightEviction DEF SlideWindow
<1>5. UNCHANGED <<idx, size, maskOmit, maskSelect>>
  BY DEF SlideWindow, Slid, config, args
<1> QED
  BY <1>1, <1>2, <1>3, <1>4, <1>5
  DEF KeptAt, LeftHalf, RightHalf, LeftLo, LeftHi, RightLo, RightHi

(* The initial fill is the window of cell 0.                               *)
LEMMA FillKeeps ==
    ASSUME RunTypeOK, maskOmit < size, idx = 0, selectBuffer = <<>>, FillRight
    PROVE  KeptAt(0)'
<1>1. /\ maskSelect \in Nat \ {0} /\ maskOmit \in Nat \ {0} /\ size \in Nat
      /\ RightStartOffset = maskOmit
  BY FillNumbers
<1>2. /\ FillEnd = RightHi(0) /\ RightLo(0) = maskOmit /\ RightHi(0) \in Int
      /\ LeftHi(0) < 0 /\ LeftLo(0) \in Nat /\ LeftHi(0) \in Int
  BY FillNumbers
<1> DEFINE d == Descending(RightHi(0), maskOmit)
           S == maskOmit .. RightHi(0)
<1>3. Lists(d, S)
  BY <1>1, <1>2, ListsDescending
<1>4. S \cap {} = {} /\ S \cup {} = S /\ LeftHalf(0) \cup RightHalf(0) = S
  BY <1>2 DEF LeftHalf, RightHalf
<1>5. selectBuffer' = d \o <<>>
  BY <1>1, <1>2 DEF FillRight
<1> HIDE DEF d, S
<1>6. Lists(selectBuffer', S)
  BY <1>3, <1>4, <1>5, ListsNone, ListsJoined
<1>7. /\ last' = RightHi(0) /\ first' = maskOmit /\ rightFirst' = maskOmit
      /\ leftLast' = maskOmit - 1
      /\ UNCHANGED <<idx, size, maskOmit, maskSelect>>
  BY <1>1, <1>2 DEF FillRight, Slid, config, args
<1>8. (LeftHalf(0) \cup RightHalf(0))' = S
  BY <1>4, <1>7 DEF LeftHalf, RightHalf, LeftLo, LeftHi, RightLo, RightHi
<1>9. RightHi(0)' = RightHi(0)
  BY <1>7 DEF RightHi
<1>10. /\ rightFirst' = IF 0 + maskOmit' <= size' THEN 0 + maskOmit' ELSE size'
       /\ leftLast' = IF 0 >= maskOmit' THEN 0 - maskOmit' ELSE maskOmit' - 1
       /\ first' \in Nat
       /\ first' = IF 0 >= maskOmit' THEN LeftLo(0)' ELSE maskOmit'
  BY <1>1, <1>7
<1> QED
  BY <1>6, <1>7, <1>8, <1>9, <1>10 DEF KeptAt
-----------------------------------------------------------------------------
(* Every step is a step of the loop.                                       *)
LEMMA RunsTheLoop == [Next]_vars => RunStep(selectBuffer)
BY DEF Next, Step, Run, TooWide, Enter, FillRight, SlideWindow, Reduce, NothingSelected,
       Advance, RunStep, vars, runVars

(* The shapes this version supports.                                       *)
Supported == \A s \in Shapes : KeepsCount(s)

(* The inductive invariant: the call is for a supported shape; between two *)
(* slides the buffer and its bounds are one cell behind, after one they    *)
(* are at the current cell.                                                *)
BufferInv ==
    /\ pc # "idle" => KeepsCount(Shape)
    /\ LoopInv
    /\ selectBuffer \in Seq(Nat)
    /\ pc = "slide" /\ idx = 0 => selectBuffer = <<>>
    /\ pc = "slide" /\ idx > 0 => KeptAt(idx - 1)
    /\ pc \in {"reduce", "advance"} => KeptAt(idx)

LEMMA ShapeStep ==
    ASSUME Supported, pc # "idle" => KeepsCount(Shape), [Next]_vars
    PROVE  (pc # "idle" => KeepsCount(Shape))'
<1> USE DEF config, args
<1>1. CASE CallRun
  BY <1>1 DEF CallRun, KeepsCount, Shape, Supported
<1>2. CASE UNCHANGED <<config, args>> /\ pc # "idle"
  BY <1>2 DEF KeepsCount, Shape
<1>3. CASE UNCHANGED runVars
  BY <1>3 DEF KeepsCount, Shape, runVars
<1> QED
  BY <1>1, <1>2, <1>3, RunsTheLoop
  DEF RunStep, ReturnEarly, EnterLoop, Slid, WriteReduced, SkipReduce, AdvanceIdx

LEMMA BufferStep ==
    ASSUME Supported, RunTypeOK, BufferInv, [Next]_vars
    PROVE  BufferInv'
<1>t. /\ maskSelect \in Nat \ {0} /\ maskOmit \in Nat \ {0}
      /\ size \in Nat /\ idx \in Nat
  BY RunTypes
<1>s. /\ (pc # "idle" => KeepsCount(Shape))' /\ LoopInv'
  BY RunsTheLoop, LoopStep, ShapeStep DEF BufferInv
<1>u. ASSUME NEW i, KeptAt(i), UNCHANGED <<window, config, args>>
      PROVE  KeptAt(i)'
  BY <1>u
  DEF KeptAt, LeftHalf, RightHalf, LeftLo, LeftHi, RightLo, RightHi, window, bounds, config, args
<1>1. CASE Run
  BY <1>s, <1>1 DEF Run, CallRun, BufferInv, window
<1>2. CASE TooWide
  BY <1>s, <1>2 DEF TooWide, ReturnEarly, BufferInv, window
<1>3. CASE Enter
  BY <1>s, <1>3 DEF Enter, EnterLoop, BufferInv
<1>4. CASE FillRight
  <2>1. /\ maskOmit < size /\ idx = 0 /\ selectBuffer = <<>>
        /\ pc' = "reduce" /\ idx' = 0
    BY <1>4 DEF FillRight, Slid, BufferInv, LoopInv
  <2>2. KeptAt(0)'
    BY <1>4, <2>1, FillKeeps
  <2> QED
    BY <1>s, <2>1, <2>2 DEF BufferInv, KeptAt, Lists
<1>5. CASE SlideWindow
  <2>1. Sliding /\ pc' = "reduce"
    BY <1>5 DEF SlideWindow, Slid, BufferInv, LoopInv, Sliding
  <2>2. KeptAt(idx)'
    BY <1>5, <2>1, SlideKeeps
  <2> QED
    BY <1>s, <2>1, <2>2 DEF BufferInv, KeptAt, Lists
<1>6. CASE Reduce \/ NothingSelected
  <2>1. /\ pc = "reduce" /\ pc' = "advance" /\ idx' = idx
        /\ UNCHANGED <<window, config, args>>
    BY <1>6 DEF Reduce, NothingSelected, WriteReduced, SkipReduce
  <2>2. KeptAt(idx)'
    BY <1>u, <2>1 DEF BufferInv, KeptAt, LeftHalf, RightHalf, LeftLo, LeftHi, RightLo, RightHi
  <2> QED
    BY <1>s, <2>1, <2>2 DEF BufferInv, window
<1>7. CASE Advance
  <2>1. /\ pc = "advance" /\ pc' \in {"slide", "idle"} /\ idx' = idx + 1
        /\ UNCHANGED <<window, config, args>>
    BY <1>7 DEF Advance, AdvanceIdx
  <2>2. idx' - 1 = idx /\ idx' > 0
    BY <1>t, <2>1
  <2>3. KeptAt(idx - 1)'
    BY <2>1, <2>2
    DEF BufferInv, KeptAt, LeftHalf, RightHalf, LeftLo, LeftHi, RightLo, RightHi,
        window, bounds, config, args
  <2> QED
    BY <1>s, <1>t, <2>1, <2>2, <2>3 DEF BufferInv, window
<1>8. CASE UNCHANGED vars
  BY <1>s, <1>8
  DEF vars, BufferInv, KeptAt, LeftHalf, RightHalf, LeftLo, LeftHi, RightLo, RightHi
<1> QED
  BY <1>1, <1>2, <1>3, <1>4, <1>5, <1>6, <1>7, <1>8 DEF Next, Step

(* The buffer and its bounds are where the inductive invariant says.       *)
THEOREM BufferInvariant ==
    ASSUME Supported
    PROVE  Spec => [](RunTypeOK /\ BufferInv)
<1>1. Init => RunTypeOK /\ BufferInv
  BY RunInitInv DEF Init, RunInit, BufferInv
<1>2. RunTypeOK /\ BufferInv /\ [Next]_vars => RunTypeOK' /\ BufferInv'
  BY RunsTheLoop, RunTypeStep, BufferStep
<1> QED
  BY <1>1, <1>2, PTL DEF Spec

(* The bounds are numbers whenever a step reads them.                      *)
LEMMA BoundsAreSet ==
    ASSUME RunTypeOK, BufferInv,
           pc \in {"reduce", "advance"} \/ (pc = "slide" /\ idx > 0)
    PROVE  first \in Nat /\ leftLast \in Nat /\ rightFirst \in Nat /\ last \in Nat
<1>1. PICK i \in Nat : KeptAt(i)
  BY RunTypes DEF BufferInv
<1>2. size \in Nat /\ size > 0 /\ maskOmit \in Nat \ {0} /\ maskSelect \in Nat \ {0}
  BY RunTypes DEF BufferInv, LoopInv
<1> QED
  BY <1>1, <1>2 DEF KeptAt, RightHi

(* Every step keeps every variable in its type, and no step reads a bound  *)
(* before the first cell of a run has set it.                              *)
THEOREM TypeCorrect ==
    ASSUME Supported
    PROVE  Spec => []TypeOK
<1> DEFINE Typed == {first, leftLast, rightFirst, last} \subseteq Nat \cup {Unread}
           AreSet == pc \in {"reduce", "advance"} \/ (pc = "slide" /\ idx > 0) =>
                        {first, leftLast, rightFirst, last} \subseteq Nat
<1>1. RunTypeOK /\ BufferInv => AreSet
  BY BoundsAreSet
<1>2. Init => Typed
  BY DEF Init
<1>3. AreSet' /\ Typed /\ [Next]_vars => Typed'
  <2> SUFFICES ASSUME AreSet', Typed, [Next]_vars PROVE Typed'
    OBVIOUS
  <2>1. CASE UNCHANGED bounds
    BY <2>1 DEF bounds
  <2>2. CASE FillRight \/ SlideWindow
    BY <2>2 DEF FillRight, SlideWindow, Slid
  <2> QED
    BY <2>1, <2>2
    DEF Next, Step, Run, TooWide, Enter, Reduce, NothingSelected, Advance, window, bounds, vars
<1>4. RunTypeOK /\ BufferInv /\ AreSet /\ Typed => TypeOK
  BY UnreadAssumption DEF BufferInv, TypeOK
<1> QED
  BY <1>1, <1>2, <1>3, <1>4, BufferInvariant, PTL DEF Spec

(* What the invariant says of the window.                                  *)
LEMMA BufferIsWindow ==
    ASSUME RunTypeOK, BufferInv, pc = "reduce"
    PROVE  HoldsWindow(selectBuffer)
<1>1. Lists(selectBuffer, LeftHalf(idx) \cup RightHalf(idx))
  BY DEF BufferInv, KeptAt
<1>2. Window(maskSelect, maskOmit, size, idx) = LeftHalf(idx) \cup RightHalf(idx)
  BY RunTypes, Halves DEF BufferInv, LoopInv, LeftHalf, RightHalf
<1> QED
  BY <1>1, <1>2 DEF HoldsWindow

(* Every reduction sees the positions the mask selects around the current  *)
(* cell, each once, and no others.                                         *)
THEOREM WindowIsExact ==
    ASSUME Supported
    PROVE  Spec => []WindowExact
<1>1. RunTypeOK /\ BufferInv => WindowExact
  BY BufferIsWindow DEF WindowExact, WindowAt, HoldsWindow, Lists
<1> QED
  BY <1>1, BufferInvariant, PTL

(* None of the "Internal Error!" lines is ever reached.                    *)
THEOREM NoInternalErrors ==
    ASSUME Supported
    PROVE  Spec => []NoInternalError
<1>1. RunTypeOK /\ BufferInv => NoInternalError
  <2> SUFFICES ASSUME RunTypeOK, BufferInv, pc = "slide", idx > 0
               PROVE  NoInternalError
    BY DEF NoInternalError
  <2>1. Sliding
    BY DEF BufferInv, LoopInv, Sliding
  <2> QED
    BY <2>1, RightEviction, LeftEntry DEF NoInternalError
<1> QED
  BY <1>1, BufferInvariant, PTL

(* Nothing is written too early, and nothing is left out.                  *)
THEOREM OutputInvariant ==
    ASSUME Supported
    PROVE  Spec => []OutputInv
<1>1. Init => OutputInv
  BY RunInitInv DEF Init
<1>2. RunTypeOK /\ BufferInv /\ OutputInv /\ [Next]_vars => OutputInv'
  BY RunsTheLoop, BufferIsWindow, OutputStep
<1> QED
  BY <1>1, <1>2, BufferInvariant, PTL DEF Spec

(* run() keeps its contract: each step of the implementation is a step of  *)
(* Cfar or a stutter.                                                      *)
THEOREM Implementation ==
    ASSUME Supported
    PROVE  Spec => ImplementsCfar
<1>1. Init => Abs!Init
  BY RunInitInv DEF Init
<1>2. RunTypeOK /\ BufferInv /\ OutputInv /\ [Next]_vars => [Abs!Next]_(Abs!vars)
  BY RunsTheLoop, BufferIsWindow, ContractStep DEF BufferInv
<1> QED
  BY <1>1, <1>2, BufferInvariant, OutputInvariant, PTL
  DEF Spec, ImplementsCfar, Abs!Spec
=============================================================================

------------------------- MODULE CfarIndexMapProofs -------------------------
(***************************************************************************)
(* Theorems of CfarIndexMap for every mask, array size, percentile, set of *)
(* values and number of runs, and wherever the iterators lead: how many    *)
(* entries the deque has, which indices the map has and, for a deque with  *)
(* room enough, what the slots hold.                                       *)
(***************************************************************************)
EXTENDS CfarIndexMap, CfarRunProofs

Shaped(st) ==
    /\ st = [cells |-> st.cells, begin |-> st.begin, end |-> st.end, iter |-> st.iter]
    /\ st.begin \in Int /\ st.end \in Int
    /\ IsFiniteSet(DOMAIN st.iter) /\ DOMAIN st.iter \subseteq Nat

(* The map has an iterator for each member of S, and the deque as many     *)
(* entries as S has members.  The map may know other indices.              *)
Counts(st, S) ==
    Shaped(st) /\ S \subseteq DOMAIN st.iter /\ Size(st) = Cardinality(S)

LEMMA OneMoreIndex ==
    ASSUME NEW iter, NEW i, NEW new, DOMAIN new = {i}
    PROVE  DOMAIN WithIterators(iter, new) = DOMAIN iter \cup {i}
BY DEF WithIterators

(* One more entry, and its index in the map.                               *)
LEMMA CountsOneMore ==
    ASSUME NEW st, NEW S, Counts(st, S), NEW i \in Nat, i \notin S,
           NEW new, DOMAIN new = {i},
           NEW begin \in Int, NEW end \in Int, NEW cells,
           end - begin = Size(st) + 1
    PROVE  Counts([cells |-> cells, begin |-> begin, end |-> end,
                   iter |-> WithIterators(st.iter, new)], S \cup {i})
<1> DEFINE D == DOMAIN st.iter
           z == [cells |-> cells, begin |-> begin, end |-> end,
                 iter |-> WithIterators(st.iter, new)]
<1>1. z.iter = WithIterators(st.iter, new) /\ DOMAIN z.iter = D \cup {i}
  BY OneMoreIndex
<1>2. IsFiniteSet(D) /\ D \subseteq Nat /\ S \subseteq D /\ Size(st) = Cardinality(S)
  BY DEF Counts, Shaped
<1> HIDE DEF D
<1>3. IsFiniteSet(D \cup {i})
  BY <1>2, FS_AddElement
<1>4. IsFiniteSet(S)
  BY <1>2, FS_Subset
<1>5. Cardinality(S \cup {i}) = Cardinality(S) + 1
  BY <1>4, FS_AddElement
<1>6. Size(z) = Cardinality(S \cup {i})
  BY <1>2, <1>5 DEF Size
<1>7. Shaped(z)
  BY <1>1, <1>2, <1>3 DEF Shaped
<1> QED
  BY <1>1, <1>2, <1>6, <1>7 DEF Counts, D

LEMMA CountsEnteredInFront ==
    ASSUME NEW st, NEW S, Counts(st, S), NEW i \in Nat, i \notin S
    PROVE  /\ Counts(EnteredInFront(st, i), S \cup {i})
           /\ DOMAIN EnteredInFront(st, i).iter = DOMAIN st.iter \cup {i}
<1> DEFINE cells == [st.cells EXCEPT ![st.begin - 1] = Entry(i)]
           begin == st.begin - 1
           new == [j \in {i} |-> begin]
           z == EnteredInFront(st, i)
<1>1. z = [cells |-> cells, begin |-> begin, end |-> st.end,
           iter |-> WithIterators(st.iter, new)]
  BY DEF EnteredInFront
<1>2. begin \in Int /\ st.end \in Int /\ st.end - begin = Size(st) + 1
  BY DEF Counts, Shaped, Size
<1>3. DOMAIN new = {i}
  OBVIOUS
<1> HIDE DEF cells, begin, new, z
<1>4. Counts([cells |-> cells, begin |-> begin, end |-> st.end,
              iter |-> WithIterators(st.iter, new)], S \cup {i})
  BY <1>2, <1>3, CountsOneMore
<1>5. DOMAIN WithIterators(st.iter, new) = DOMAIN st.iter \cup {i}
  BY <1>3, OneMoreIndex
<1> QED
  BY <1>1, <1>4, <1>5 DEF z

LEMMA CountsEnteredBefore ==
    ASSUME NEW st, NEW S, Counts(st, S), NEW s, NEW i \in Nat, i \notin S
    PROVE  /\ Counts(EnteredBefore(st, s, i), S \cup {i})
           /\ DOMAIN EnteredBefore(st, s, i).iter = DOMAIN st.iter \cup {i}
<1> DEFINE begin == st.begin - 1
           end == st.end + 1
           z == EnteredBefore(st, s, i)
<1>n. /\ begin \in Int /\ st.begin \in Int /\ st.end \in Int /\ end \in Int
      /\ st.end - begin = Size(st) + 1
      /\ end - st.begin = Size(st) + 1
  BY DEF Counts, Shaped, Size
<1> SUFFICES Counts(z, S \cup {i}) /\ DOMAIN z.iter = DOMAIN st.iter \cup {i}
  OBVIOUS
<1>1. CASE s = st.begin
  BY <1>1, CountsEnteredInFront DEF EnteredBefore
<1>2. CASE s # st.begin /\ InFrontHalf(st, s)
  <2> DEFINE cells == [c \in Slots |->
                         IF c = s - 1 THEN Entry(i)
                         ELSE IF c \in st.begin - 1 .. s - 2 THEN st.cells[c + 1]
                         ELSE st.cells[c]]
             new == [j \in {i} |-> s - 1]
  <2>1. z = [cells |-> cells, begin |-> begin, end |-> st.end,
             iter |-> WithIterators(st.iter, new)]
    BY <1>2 DEF EnteredBefore
  <2>2. DOMAIN new = {i}
    OBVIOUS
  <2> HIDE DEF cells, new, begin, end, z
  <2>3. Counts([cells |-> cells, begin |-> begin, end |-> st.end,
                iter |-> WithIterators(st.iter, new)], S \cup {i})
    BY <1>n, <2>2, CountsOneMore
  <2>4. DOMAIN WithIterators(st.iter, new) = DOMAIN st.iter \cup {i}
    BY <2>2, OneMoreIndex
  <2> QED
    BY <2>1, <2>3, <2>4
<1>3. CASE s # st.begin /\ ~InFrontHalf(st, s)
  <2> DEFINE cells == [c \in Slots |->
                         IF c = s THEN Entry(i)
                         ELSE IF c \in s + 1 .. st.end \/ c = st.end THEN st.cells[c - 1]
                         ELSE st.cells[c]]
             new == [j \in {i} |-> s]
  <2>1. z = [cells |-> cells, begin |-> st.begin, end |-> end,
             iter |-> WithIterators(st.iter, new)]
    BY <1>3 DEF EnteredBefore
  <2>2. DOMAIN new = {i}
    OBVIOUS
  <2> HIDE DEF cells, new, begin, end, z
  <2>3. Counts([cells |-> cells, begin |-> st.begin, end |-> end,
                iter |-> WithIterators(st.iter, new)], S \cup {i})
    BY <1>n, <2>2, CountsOneMore
  <2>4. DOMAIN WithIterators(st.iter, new) = DOMAIN st.iter \cup {i}
    BY <2>2, OneMoreIndex
  <2> QED
    BY <2>1, <2>3, <2>4
<1> QED
  BY <1>1, <1>2, <1>3

(* What erasing through an iterator leaves, wherever that one leads.       *)
LEMMA ErasedShape ==
    ASSUME NEW st, Shaped(st), NEW i,
           NEW erased, erased = ErasedAt(st, st.iter[i])
    PROVE  /\ Evicted(st, i) = [cells |-> erased.cells, begin |-> erased.begin,
                                end |-> erased.end,
                                iter |-> [j \in DOMAIN st.iter \ {i} |-> st.iter[j]]]
           /\ erased.begin \in Int /\ erased.end \in Int
           /\ erased.end - erased.begin = Size(st) - 1
<1> DEFINE s == st.iter[i]
           left == [j \in DOMAIN st.iter \ {i} |-> st.iter[j]]
<1>1. /\ erased = [cells |-> erased.cells, begin |-> erased.begin,
                   end |-> erased.end, iter |-> st.iter]
      /\ erased.begin \in Int /\ erased.end \in Int
      /\ erased.end - erased.begin = Size(st) - 1
  BY DEF Shaped, ErasedAt, Size
<1>2. Evicted(st, i) = [erased EXCEPT !.iter = left]
  BY DEF Evicted
<1> HIDE DEF s, left
<1>3. Evicted(st, i) = [cells |-> erased.cells, begin |-> erased.begin,
                        end |-> erased.end, iter |-> left]
  BY <1>1, <1>2
<1> QED
  BY <1>1, <1>3 DEF left

LEMMA CountsEvicted ==
    ASSUME NEW st, NEW S, Counts(st, S), NEW i \in S
    PROVE  /\ Counts(Evicted(st, i), S \ {i})
           /\ DOMAIN Evicted(st, i).iter = DOMAIN st.iter \ {i}
<1> DEFINE erased == ErasedAt(st, st.iter[i])
           left == [j \in DOMAIN st.iter \ {i} |-> st.iter[j]]
           z == Evicted(st, i)
           D == DOMAIN st.iter
<1>1. /\ z = [cells |-> erased.cells, begin |-> erased.begin,
              end |-> erased.end, iter |-> left]
      /\ erased.begin \in Int /\ erased.end \in Int
      /\ erased.end - erased.begin = Size(st) - 1
  BY ErasedShape DEF Counts
<1>2. DOMAIN left = D \ {i}
  OBVIOUS
<1>3. IsFiniteSet(D) /\ D \subseteq Nat /\ S \subseteq D /\ Size(st) = Cardinality(S)
  BY DEF Counts, Shaped
<1> HIDE DEF erased, left, z, D
<1>4. IsFiniteSet(D \ {i})
  BY <1>3, FS_RemoveElement
<1>5. IsFiniteSet(S)
  BY <1>3, FS_Subset
<1>6. Cardinality(S \ {i}) = Cardinality(S) - 1
  BY <1>5, FS_RemoveElement
<1>7. Shaped(z) /\ DOMAIN z.iter = D \ {i}
  BY <1>1, <1>2, <1>3, <1>4 DEF Shaped
<1>8. Size(z) = Cardinality(S \ {i})
  BY <1>1, <1>3, <1>6 DEF Size
<1> QED
  BY <1>3, <1>7, <1>8 DEF Counts, z, D

(* The initial fill puts the whole right half into an empty deque.         *)
LEMMA CountsFilled ==
    ASSUME RunTypeOK, maskOmit < size, NEW st, Shaped(st), Size(st) = 0
    PROVE  /\ Counts(Filled(st), maskOmit .. RightHi(0))
           /\ DOMAIN Filled(st).iter = DOMAIN st.iter \cup (maskOmit .. RightHi(0))
<1> DEFINE S == maskOmit .. RightHi(0)
           begin == SlotFilled(st, FillEnd)
           cells == [c \in Slots |->
                      IF c \in SlotFilled(st, FillEnd) .. st.begin - 1
                      THEN Entry(RightStartOffset + (st.begin - 1 - c)) ELSE st.cells[c]]
           iter == WithIterators(st.iter, [i \in RightStartOffset .. FillEnd |-> SlotFilled(st, i)])
           z == Filled(st)
           D == DOMAIN st.iter
<1>1. z = [cells |-> cells, begin |-> begin, end |-> st.end, iter |-> iter]
  BY DEF Filled
<1>2. DOMAIN iter = D \cup S
  BY FillNumbers DEF WithIterators
<1>3. IsFiniteSet(S) /\ Cardinality(S) = RightHi(0) - maskOmit + 1 /\ S \subseteq Nat
  <2>1. maskOmit \in Nat /\ RightHi(0) \in Int /\ maskOmit <= RightHi(0)
    BY FillNumbers
  <2>2. S \subseteq Nat
    BY <2>1
  <2>3. IsFiniteSet(S) /\ Cardinality(S) = RightHi(0) - maskOmit + 1
    BY <2>1, FS_Interval
  <2> QED
    BY <2>2, <2>3
<1>4. st.end \in Int /\ st.begin \in Int /\ st.end - st.begin = 0
  BY DEF Shaped, Size
<1>5. begin \in Int /\ st.end - begin = RightHi(0) - maskOmit + 1
  BY <1>4, FillNumbers DEF SlotFilled
<1>6. IsFiniteSet(D) /\ D \subseteq Nat
  BY DEF Shaped
<1> HIDE DEF S, begin, cells, iter, z, D
<1>7. IsFiniteSet(D \cup S)
  BY <1>3, <1>6, FS_Union
<1>8. Shaped(z) /\ DOMAIN z.iter = D \cup S
  BY <1>1, <1>2, <1>3, <1>4, <1>5, <1>6, <1>7 DEF Shaped
<1>9. Size(z) = Cardinality(S)
  BY <1>1, <1>3, <1>5 DEF Size
<1> QED
  BY <1>8, <1>9 DEF Counts, S, z, D

-----------------------------------------------------------------------------
(* The indices between the bounds: those entered by the current run that   *)
(* are still in the window.                                                *)
Between(f, l, r, e) == (f .. l) \cup (r .. e)
Live == Between(first, leftLast, rightFirst, last)

(* After the slide at cell i the left half is what the mask selects, or    *)
(* its new entries are dropped: there is no entry to insert them before,   *)
(* in a block of one cell, or with the right half off the array unless an  *)
(* earlier, longer run left the first index after the array in the map.    *)
Entering(i) ==
    /\ maskSelect > 1
    /\ leftLast = IF i >= maskOmit THEN i - maskOmit ELSE maskOmit - 1
    /\ first = IF i >= maskOmit THEN LeftLo(i) ELSE maskOmit
    /\ i + maskOmit >= size => Known(store, size)

Dropping(i) ==
    \/ maskSelect = 1
    \/ i + maskOmit >= size /\ ~Known(store, size)

(* No index of an earlier run is in the map.                               *)
Fresh == runs = 1 \/ maskSelect = 1

RangesAt(i) ==
    /\ first \in Nat /\ leftLast \in Nat
    /\ last = RightHi(i)
    /\ rightFirst = IF i + maskOmit < size THEN i + maskOmit ELSE size
    /\ leftLast < rightFirst /\ leftLast < last
    /\ maskSelect = 1 => first > leftLast
    /\ Entering(i) \/ Dropping(i)
    /\ Counts(store, Live)
    /\ Fresh => DOMAIN store.iter = Live

(* A slide is about to move the window on to cell idx.                     *)
Sliding ==
    /\ RunTypeOK
    /\ 0 < idx /\ idx < size /\ maskOmit < size
    /\ RangesAt(idx - 1)

LEMMA SlidingNumbers ==
    ASSUME Sliding
    PROVE  /\ maskSelect \in Nat \ {0} /\ maskOmit \in Nat \ {0}
           /\ size \in Nat /\ idx \in Nat /\ 0 < idx /\ idx < size /\ maskOmit < size
           /\ LeftStartOffset = 1 - maskSelect - maskOmit
           /\ LeftEndOffset = 0 - maskOmit
           /\ RightStartOffset = maskOmit
           /\ RightEndOffset = maskOmit + maskSelect - 1
           /\ first \in Nat /\ leftLast \in Nat /\ rightFirst \in Nat /\ last \in Int
           /\ last = IF idx + maskOmit + maskSelect - 2 < size - 1
                     THEN idx + maskOmit + maskSelect - 2 ELSE size - 1
           /\ rightFirst = IF idx - 1 + maskOmit < size THEN idx - 1 + maskOmit ELSE size
           /\ leftLast < rightFirst /\ leftLast < last /\ last < size
<1>1. /\ maskSelect \in Nat \ {0} /\ maskOmit \in Nat \ {0}
      /\ size \in Nat /\ idx \in Nat /\ 0 < idx /\ idx < size /\ maskOmit < size
  BY DEF Sliding, RunTypeOK
<1>2. /\ first \in Nat /\ leftLast \in Nat
      /\ last = RightHi(idx - 1)
      /\ rightFirst = IF idx - 1 + maskOmit < size THEN idx - 1 + maskOmit ELSE size
      /\ leftLast < rightFirst /\ leftLast < last
  BY DEF Sliding, RangesAt
<1>3. last = IF idx + maskOmit + maskSelect - 2 < size - 1
             THEN idx + maskOmit + maskSelect - 2 ELSE size - 1
  BY <1>1, <1>2 DEF RightHi
<1> QED
  BY <1>1, <1>2, <1>3, SlideNumbers DEF Sliding

(* What a slide does to the map is told by its indices.                    *)
LEMMA LeftEviction ==
    ASSUME Sliding
    PROVE  /\ FirstEvicted \in Nat
           /\ Counts(LeftEvicted, Between(FirstEvicted, leftLast, rightFirst, last))
           /\ Known(LeftEvicted, size) <=> Known(store, size)
           /\ DOMAIN store.iter = Live =>
                 DOMAIN LeftEvicted.iter = Between(FirstEvicted, leftLast, rightFirst, last)
           /\ Entering(idx - 1) =>
                 FirstEvicted = IF idx > maskOmit THEN LeftLo(idx) ELSE maskOmit
           /\ first > leftLast => FirstEvicted = first
<1> DEFINE T == Between(FirstEvicted, leftLast, rightFirst, last)
<1>k. Counts(store, Live)
  BY DEF Sliding, RangesAt
<1>d. Entering(idx - 1) /\ ~(idx + LeftStartOffset > 0) =>
          /\ idx > maskOmit => first = 0 /\ LeftLo(idx) = 0
          /\ ~(idx > maskOmit) => first = maskOmit /\ leftLast = maskOmit - 1
  BY SlidingNumbers DEF Entering, LeftLo
<1>1. CASE first <= leftLast /\ idx + LeftStartOffset > 0
  <2>1. first \in Live /\ first # size
    BY <1>1, SlidingNumbers DEF Live, Between
  <2>2. EvictsLeft
    BY <1>1, <1>k, <2>1, SlidingNumbers DEF EvictsLeft, Known, Counts
  <2>3. LeftEvicted = Evicted(store, first) /\ FirstEvicted = first + 1
    BY <2>2 DEF LeftEvicted, FirstEvicted
  <2>4. T = Live \ {first}
    BY <1>1, <2>3, SlidingNumbers DEF Live, Between
  <2>5. /\ Counts(LeftEvicted, T)
        /\ DOMAIN LeftEvicted.iter = DOMAIN store.iter \ {first}
    <3> HIDE DEF T
    <3> QED
      BY <1>k, <2>1, <2>3, <2>4, CountsEvicted
  <2>6. Entering(idx - 1) => FirstEvicted = IF idx > maskOmit THEN LeftLo(idx) ELSE maskOmit
    <3> SUFFICES ASSUME Entering(idx - 1)
                 PROVE  FirstEvicted = IF idx > maskOmit THEN LeftLo(idx) ELSE maskOmit
      OBVIOUS
    <3>1. /\ leftLast = IF idx - 1 >= maskOmit THEN idx - 1 - maskOmit ELSE maskOmit - 1
          /\ first = IF idx - 1 >= maskOmit THEN LeftLo(idx - 1) ELSE maskOmit
      BY DEF Entering
    <3>2. idx > maskOmit
      BY <1>1, <3>1, SlidingNumbers
    <3>3. LeftLo(idx) = LeftLo(idx - 1) + 1
      BY <1>1, SlidingNumbers DEF LeftLo
    <3> QED
      BY <2>3, <3>1, <3>2, <3>3, SlidingNumbers
  <2>7. FirstEvicted \in Nat
    BY <2>3, SlidingNumbers
  <2> QED
    BY <1>1, <2>1, <2>4, <2>5, <2>6, <2>7, SlidingNumbers DEF Known
<1>2. CASE ~(first <= leftLast /\ idx + LeftStartOffset > 0)
  <2>1. ~EvictsLeft
    BY <1>2, SlidingNumbers DEF EvictsLeft
  <2>2. LeftEvicted = store /\ FirstEvicted = first
    BY <2>1 DEF LeftEvicted, FirstEvicted
  <2>3. T = Live
    BY <2>2 DEF Live
  <2>4. Entering(idx - 1) => FirstEvicted = IF idx > maskOmit THEN LeftLo(idx) ELSE maskOmit
    <3> SUFFICES ASSUME Entering(idx - 1)
                 PROVE  FirstEvicted = IF idx > maskOmit THEN LeftLo(idx) ELSE maskOmit
      OBVIOUS
    <3>1. /\ leftLast = IF idx - 1 >= maskOmit THEN idx - 1 - maskOmit ELSE maskOmit - 1
          /\ first = IF idx - 1 >= maskOmit THEN LeftLo(idx - 1) ELSE maskOmit
          /\ maskSelect > 1
      BY DEF Entering
    <3>2. CASE idx > maskOmit
      <4>1. first <= leftLast
        BY <3>1, <3>2, SlidingNumbers DEF LeftLo
      <4>2. ~(idx + LeftStartOffset > 0)
        BY <1>2, <4>1
      <4> QED
        BY <2>2, <3>1, <3>2, <4>2, SlidingNumbers DEF LeftLo
    <3>3. CASE ~(idx > maskOmit)
      BY <2>2, <3>1, <3>3, SlidingNumbers
    <3> QED
      BY <3>2, <3>3
  <2> HIDE DEF T
  <2> QED
    BY <1>k, <2>2, <2>3, <2>4, SlidingNumbers DEF T
<1> QED
  BY <1>1, <1>2

(* The oldest index of the right half goes as long as there is one.        *)
LEMMA RightEviction ==
    ASSUME Sliding
    PROVE  /\ RightFirstEvicted = IF idx + maskOmit < size THEN idx + maskOmit ELSE size
           /\ Counts(BothEvicted, Between(FirstEvicted, leftLast, RightFirstEvicted, last))
           /\ Known(BothEvicted, size) <=> Known(store, size)
           /\ DOMAIN store.iter = Live =>
                 DOMAIN BothEvicted.iter =
                     Between(FirstEvicted, leftLast, RightFirstEvicted, last)
<1> DEFINE S == Between(FirstEvicted, leftLast, rightFirst, last)
           T == Between(FirstEvicted, leftLast, RightFirstEvicted, last)
<1>k. /\ FirstEvicted \in Nat /\ Counts(LeftEvicted, S)
      /\ Known(LeftEvicted, size) <=> Known(store, size)
      /\ DOMAIN store.iter = Live => DOMAIN LeftEvicted.iter = S
  BY LeftEviction
<1>1. CASE idx - 1 + maskOmit < size
  <2>1. rightFirst <= last /\ rightFirst # size
    BY <1>1, SlidingNumbers
  <2>2. rightFirst \in S
    BY <2>1, SlidingNumbers DEF Between
  <2>3. EvictsRight
    <3> HIDE DEF S
    <3> QED
      BY <1>k, <2>1, <2>2 DEF EvictsRight, Known, Counts
  <2>4. BothEvicted = Evicted(LeftEvicted, rightFirst) /\ RightFirstEvicted = rightFirst + 1
    BY <2>3 DEF BothEvicted, RightFirstEvicted
  <2>5. T = S \ {rightFirst}
    BY <1>k, <2>1, <2>4, SlidingNumbers DEF Between
  <2>6. /\ Counts(BothEvicted, T)
        /\ DOMAIN BothEvicted.iter = DOMAIN LeftEvicted.iter \ {rightFirst}
    <3> HIDE DEF S, T
    <3> QED
      BY <1>k, <2>2, <2>4, <2>5, CountsEvicted
  <2>7. RightFirstEvicted = IF idx + maskOmit < size THEN idx + maskOmit ELSE size
    BY <1>1, <2>4, SlidingNumbers
  <2> HIDE DEF S, T
  <2>8. Known(BothEvicted, size) <=> Known(store, size)
    BY <1>k, <2>1, <2>6 DEF Known
  <2> QED
    BY <1>k, <2>5, <2>6, <2>7, <2>8 DEF T
<1>2. CASE ~(idx - 1 + maskOmit < size)
  <2>1. ~EvictsRight
    BY <1>2, SlidingNumbers DEF EvictsRight
  <2>2. BothEvicted = LeftEvicted /\ RightFirstEvicted = rightFirst
    BY <2>1 DEF BothEvicted, RightFirstEvicted
  <2>3. RightFirstEvicted = IF idx + maskOmit < size THEN idx + maskOmit ELSE size
    BY <1>2, <2>2, SlidingNumbers
  <2> QED
    BY <1>k, <2>2, <2>3
<1> QED
  BY <1>1, <1>2

(* The next index of the left half is entered before the right half, or    *)
(* dropped.                                                                *)
LEMMA LeftEntry ==
    ASSUME Sliding, SlideWindow
    PROVE  /\ Counts(LeftEntered, Between(first', leftLast', RightFirstEvicted, last))
           /\ Known(LeftEntered, size) <=> Known(store, size)
           /\ DOMAIN store.iter = Live =>
                 DOMAIN LeftEntered.iter = Between(first', leftLast', RightFirstEvicted, last)
           /\ first' \in Nat /\ leftLast' \in Nat
           /\ leftLast' < RightFirstEvicted /\ leftLast' < last
           /\ maskSelect = 1 => first' > leftLast'
           /\ \/ /\ maskSelect > 1
                 /\ leftLast' = IF idx >= maskOmit THEN idx - maskOmit ELSE maskOmit - 1
                 /\ first' = IF idx >= maskOmit THEN LeftLo(idx) ELSE maskOmit
                 /\ idx + maskOmit >= size => Known(store, size)
              \/ maskSelect = 1
              \/ idx + maskOmit >= size /\ ~Known(store, size)
<1> DEFINE S == Between(FirstEvicted, leftLast, RightFirstEvicted, last)
           T == Between(first', leftLast', RightFirstEvicted, last)
           new == idx + LeftEndOffset
<1>k. /\ Counts(BothEvicted, S)
      /\ Known(BothEvicted, size) <=> Known(store, size)
      /\ DOMAIN store.iter = Live => DOMAIN BothEvicted.iter = S
  BY RightEviction
<1>n. /\ new = idx - maskOmit /\ LeftEndOffset = 0 - maskOmit
      /\ RightFirstEvicted = IF idx + maskOmit < size THEN idx + maskOmit ELSE size
      /\ FirstEvicted \in Nat
      /\ Entering(idx - 1) => FirstEvicted = IF idx > maskOmit THEN LeftLo(idx) ELSE maskOmit
      /\ first > leftLast => FirstEvicted = first
      /\ RightFirstEvicted >= rightFirst /\ RightFirstEvicted \in Nat
  <2>1. new = idx - maskOmit /\ LeftEndOffset = 0 - maskOmit
    BY SlidingNumbers
  <2>2. RightFirstEvicted = IF idx + maskOmit < size THEN idx + maskOmit ELSE size
    BY RightEviction
  <2>3. RightFirstEvicted >= rightFirst /\ RightFirstEvicted \in Nat
    BY <2>2, SlidingNumbers
  <2> QED
    BY <2>1, <2>2, <2>3, LeftEviction
<1>f. ~EntersInFront
  BY SlidingNumbers DEF EntersInFront
<1>c. Entering(idx - 1) \/ Dropping(idx - 1)
  BY DEF Sliding, RangesAt
<1>1. ASSUME EntersBeforeRight, Entering(idx - 1)
      PROVE  /\ Counts(LeftEntered, T)
             /\ Known(LeftEntered, size) <=> Known(store, size)
             /\ DOMAIN store.iter = Live => DOMAIN LeftEntered.iter = T
             /\ first' \in Nat /\ leftLast' \in Nat
             /\ leftLast' < RightFirstEvicted /\ leftLast' < last
             /\ idx >= maskOmit /\ leftLast' = idx - maskOmit /\ first' = LeftLo(idx)
  <2>1. idx >= maskOmit
    BY <1>1, <1>n, SlidingNumbers DEF EntersBeforeRight, EntersLeft
  <2>2. /\ leftLast = IF idx - 1 >= maskOmit THEN idx - 1 - maskOmit ELSE maskOmit - 1
        /\ maskSelect > 1
    BY <1>1 DEF Entering
  <2>3. leftLast' = new /\ first' = IF FirstEvicted > new THEN new ELSE FirstEvicted
    BY <1>1 DEF SlideWindow
  <2>4. /\ LeftLo(idx) \in Nat /\ LeftLo(idx) <= idx - maskOmit
        /\ idx = maskOmit => LeftLo(idx) = 0
    BY <2>1, SlidingNumbers DEF LeftLo
  <2>5. first' = LeftLo(idx) /\ leftLast' = idx - maskOmit
    BY <1>1, <1>n, <2>1, <2>3, <2>4, SlidingNumbers
  <2>6. leftLast' \in Nat /\ leftLast' < RightFirstEvicted /\ leftLast' < last
    BY <1>n, <2>1, <2>2, <2>5, SlidingNumbers
  <2>7. S = Between(first', leftLast, RightFirstEvicted, last)
        \/ (FirstEvicted > leftLast /\ first' = new)
    BY <1>1, <1>n, <2>1, <2>2, <2>4, <2>5, SlidingNumbers DEF Between
  <2>8. new \notin S
    BY <1>1, <1>n, <2>1, <2>2, <2>4, <2>5, <2>6, SlidingNumbers DEF Between
  <2>9. S \cup {new} = T
    <3>1. CASE idx = maskOmit
      <4>1. FirstEvicted .. leftLast = {} /\ first' .. leftLast' = {new}
        BY <1>1, <1>n, <2>2, <2>4, <2>5, <3>1, SlidingNumbers
      <4> QED
        BY <4>1 DEF Between
    <3>2. CASE idx > maskOmit
      <4>1. FirstEvicted = first' /\ leftLast = new - 1 /\ leftLast' = new
        BY <1>1, <1>n, <2>2, <2>5, <3>2, SlidingNumbers
      <4>2. first' .. new = (first' .. new - 1) \cup {new}
        <5>1. first' \in Int /\ new \in Int /\ first' <= new
          BY <1>n, <2>1, <2>4, <2>5, SlidingNumbers
        <5> HIDE DEF new
        <5> QED
          BY <5>1
      <4> HIDE DEF new
      <4> QED
        BY <4>1, <4>2 DEF Between
    <3> QED
      BY <2>1, <3>1, <3>2, SlidingNumbers
  <2>10. new \in Nat /\ new # size
    BY <1>n, <2>1, SlidingNumbers
  <2>11. LeftEntered = EnteredBefore(BothEvicted, BothEvicted.iter[RightFirstEvicted], new)
    BY <1>1 DEF LeftEntered
  <2> HIDE DEF S, T, new
  <2>12. Counts(LeftEntered, T) /\ DOMAIN LeftEntered.iter = DOMAIN BothEvicted.iter \cup {new}
    BY <1>k, <2>8, <2>9, <2>10, <2>11, CountsEnteredBefore
  <2>13. Known(LeftEntered, size) <=> Known(store, size)
    BY <1>k, <2>10, <2>12 DEF Known
  <2>14. DOMAIN store.iter = Live => DOMAIN LeftEntered.iter = T
    BY <1>k, <2>9, <2>12
  <2> QED
    BY <2>1, <2>4, <2>5, <2>6, <2>12, <2>13, <2>14
<1>2. ASSUME ~EntersBeforeRight
      PROVE  /\ Counts(LeftEntered, T)
             /\ Known(LeftEntered, size) <=> Known(store, size)
             /\ DOMAIN store.iter = Live => DOMAIN LeftEntered.iter = T
             /\ leftLast' = leftLast /\ first' = FirstEvicted
             /\ first' \in Nat /\ leftLast' \in Nat
             /\ leftLast' < RightFirstEvicted /\ leftLast' < last
  <2>1. LeftEntered = BothEvicted
    BY <1>2, <1>f DEF LeftEntered
  <2>2. leftLast' = leftLast /\ first' = FirstEvicted
    BY <1>2, <1>f DEF SlideWindow
  <2>3. T = S
    BY <2>2 DEF Between
  <2>4. leftLast < RightFirstEvicted
    BY <1>n, SlidingNumbers
  <2> HIDE DEF S, T, new
  <2> QED
    BY <1>k, <1>n, <2>1, <2>2, <2>3, <2>4, SlidingNumbers
<1>3. CASE Entering(idx - 1)
  <2>1. maskSelect > 1
    BY <1>3 DEF Entering
  <2>2. CASE EntersBeforeRight
    <3>1. idx + maskOmit >= size => Known(store, size)
      BY <1>k, <1>n, <2>2, SlidingNumbers DEF EntersBeforeRight
    <3> QED
      BY <1>1, <1>3, <2>1, <2>2, <3>1
  <2>3. CASE ~EntersBeforeRight /\ idx >= maskOmit
    <3>1. EntersLeft /\ leftLast < last
      BY <1>n, <2>3, SlidingNumbers DEF EntersLeft, InTheEye
    <3>2. ~Known(BothEvicted, RightFirstEvicted)
      BY <2>3, <3>1 DEF EntersBeforeRight
    <3>3. idx + maskOmit < size => RightFirstEvicted \in S
      BY <1>n, <2>1, SlidingNumbers DEF Between
    <3> HIDE DEF S
    <3>4. idx + maskOmit >= size
      BY <1>k, <3>2, <3>3, SlidingNumbers DEF Known, Counts
    <3>5. ~Known(store, size)
      BY <1>k, <1>n, <3>2, <3>4, SlidingNumbers
    <3> QED
      BY <1>2, <2>1, <2>3, <3>4, <3>5
  <2>4. CASE ~EntersBeforeRight /\ ~(idx >= maskOmit)
    <3>1. first' = maskOmit /\ leftLast' = maskOmit - 1
      BY <1>2, <1>3, <1>n, <2>4, SlidingNumbers DEF Entering
    <3> QED
      BY <1>2, <2>1, <2>4, <3>1
  <2> QED
    BY <2>2, <2>3, <2>4
<1>4. CASE maskSelect = 1
  <2>1. DOMAIN store.iter = Live
    BY <1>4 DEF Sliding, RangesAt, Fresh
  <2>0. first > leftLast
    BY <1>4 DEF Sliding, RangesAt
  <2>2. RightFirstEvicted \notin S
    BY <1>4, <1>n, <2>0, SlidingNumbers DEF Between
  <2>3. ~EntersBeforeRight
    <3> HIDE DEF S
    <3> QED
      BY <1>k, <2>1, <2>2 DEF EntersBeforeRight, Known
  <2> QED
    BY <1>2, <1>4, <1>n, <2>0, <2>3
<1>5. CASE maskSelect # 1 /\ idx - 1 + maskOmit >= size /\ ~Known(store, size)
  <2>1. idx + maskOmit >= size /\ RightFirstEvicted = size
    BY <1>5, <1>n, SlidingNumbers
  <2>2. ~EntersBeforeRight
    BY <1>5, <1>k, <2>1 DEF EntersBeforeRight
  <2> QED
    BY <1>2, <1>5, <2>1, <2>2
<1> QED
  BY <1>3, <1>4, <1>5, <1>c DEF Dropping

(* A slide leaves the ranges of the next cell.                             *)
LEMMA SlideKeeps ==
    ASSUME Sliding, SlideWindow
    PROVE  RangesAt(idx)'
<1> DEFINE S == Between(first', leftLast', RightFirstEvicted, last)
           T == Between(first', leftLast', RightFirstEvicted, last')
           new == idx + RightEndOffset
<1>k. /\ Counts(LeftEntered, S)
      /\ Known(LeftEntered, size) <=> Known(store, size)
      /\ DOMAIN store.iter = Live => DOMAIN LeftEntered.iter = S
      /\ first' \in Nat /\ leftLast' \in Nat
      /\ leftLast' < RightFirstEvicted /\ leftLast' < last
      /\ maskSelect = 1 => first' > leftLast'
  BY LeftEntry
<1>u. UNCHANGED <<idx, size, maskOmit, maskSelect, runs>> /\ rightFirst' = RightFirstEvicted
  BY DEF SlideWindow, Slid, config, args
<1>r. RightFirstEvicted = IF idx + maskOmit < size THEN idx + maskOmit ELSE size
  BY RightEviction
<1>1. /\ Counts(store', T)
      /\ Known(store', size) <=> Known(store, size)
      /\ DOMAIN store.iter = Live => DOMAIN store'.iter = T
      /\ last' = RightHi(idx) /\ leftLast' < last'
  <2>1. CASE new < size
    <3>1. ~InTheEye
      BY <2>1, SlidingNumbers DEF InTheEye
    <3>2. store' = EnteredInFront(LeftEntered, new) /\ last' = new
      BY <2>1, <3>1 DEF SlideWindow, EntersRight
    <3>3. /\ new = RightHi(idx) /\ new = last + 1 /\ new \in Nat /\ new # size
          /\ RightFirstEvicted <= new /\ RightFirstEvicted \in Nat
      BY <1>r, <2>1, SlidingNumbers DEF RightHi
    <3>4. new \notin S /\ S \cup {new} = T
      <4>1. RightFirstEvicted .. new = (RightFirstEvicted .. last) \cup {new}
        BY <3>3, SlidingNumbers
      <4>2. new \notin S
        BY <1>k, <3>3, SlidingNumbers DEF Between
      <4> HIDE DEF new
      <4> QED
        BY <3>2, <4>1, <4>2 DEF Between
    <3>5. leftLast' < last'
      BY <1>k, <3>2, <3>3, SlidingNumbers
    <3> HIDE DEF S, T, new
    <3>6. Counts(store', T) /\ DOMAIN store'.iter = DOMAIN LeftEntered.iter \cup {new}
      BY <1>k, <3>2, <3>3, <3>4, CountsEnteredInFront
    <3> QED
      BY <1>k, <3>2, <3>3, <3>4, <3>5, <3>6 DEF Known
  <2>2. CASE ~(new < size)
    <3>1. store' = LeftEntered /\ last' = last
      BY <2>2 DEF SlideWindow, EntersRight
    <3>2. last = RightHi(idx)
      BY <2>2, SlidingNumbers DEF RightHi
    <3>3. S = T
      BY <3>1
    <3> HIDE DEF S, T
    <3> QED
      BY <1>k, <3>1, <3>2, <3>3
  <2> QED
    BY <2>1, <2>2
<1>2. RightHi(idx)' = RightHi(idx) /\ LeftLo(idx)' = LeftLo(idx) /\ Live' = T
      /\ Fresh' = Fresh
  BY <1>u DEF RightHi, LeftLo, Live, Between, Fresh
<1>3. Entering(idx)' \/ Dropping(idx)'
  <2>1. Known(store, size)' <=> Known(store, size)
    BY <1>1, <1>u DEF Known
  <2>2. \/ /\ maskSelect > 1
           /\ leftLast' = IF idx >= maskOmit THEN idx - maskOmit ELSE maskOmit - 1
           /\ first' = IF idx >= maskOmit THEN LeftLo(idx) ELSE maskOmit
           /\ idx + maskOmit >= size => Known(store, size)
        \/ maskSelect = 1
        \/ idx + maskOmit >= size /\ ~Known(store, size)
    BY LeftEntry
  <2> QED
    BY <1>2, <1>u, <2>1, <2>2 DEF Entering, Dropping
<1>4. Fresh => DOMAIN store.iter = Live
  BY DEF Sliding, RangesAt
<1> HIDE DEF S, T
<1>5. Counts(store, Live)'
  BY <1>1, <1>2 DEF Counts, Size, Shaped
<1>6. (Fresh => DOMAIN store.iter = Live)'
  BY <1>1, <1>2, <1>4
<1> QED
  BY <1>1, <1>2, <1>3, <1>5, <1>6, <1>k, <1>r, <1>u DEF RangesAt

(* The initial fill is the window of cell 0.                               *)
LEMMA FillKeeps ==
    ASSUME RunTypeOK, maskOmit < size, idx = 0, Shaped(store), Size(store) = 0,
           Fresh => DOMAIN store.iter = {}, FillRight
    PROVE  RangesAt(0)'
<1> DEFINE S == maskOmit .. RightHi(0)
<1>1. Counts(store', S) /\ DOMAIN store'.iter = DOMAIN store.iter \cup S
  BY CountsFilled DEF FillRight
<1>2. /\ last' = RightHi(0) /\ first' = maskOmit /\ rightFirst' = maskOmit
      /\ leftLast' = maskOmit - 1
      /\ UNCHANGED <<idx, size, maskOmit, maskSelect, runs>>
  BY FillNumbers DEF FillRight, Slid, config, args
<1>t. maskSelect \in Nat \ {0} /\ maskOmit \in Nat \ {0} /\ size \in Nat
  BY DEF RunTypeOK
<1>3. Live' = S
  BY <1>2, <1>t DEF Live, Between
<1>4. RightHi(0)' = RightHi(0) /\ RightHi(0) >= maskOmit /\ RightHi(0) \in Nat
  BY <1>2, <1>t DEF RightHi
<1>5. Entering(0)' \/ Dropping(0)'
  BY <1>2, <1>t DEF Entering, Dropping
<1> HIDE DEF S
<1>6. Counts(store, Live)'
  BY <1>1, <1>3 DEF Counts, Size, Shaped
<1>7. (Fresh => DOMAIN store.iter = Live)'
  BY <1>1, <1>2, <1>3 DEF Fresh
<1> QED
  BY <1>2, <1>4, <1>5, <1>6, <1>7, <1>t DEF RangesAt

-----------------------------------------------------------------------------
(* Every step but a reduction is a step of the loop the versions share; a  *)
(* reduction here may write any value an unwritten slot holds.             *)
LEMMA RunsTheLoop == [Next]_vars => RunStep(Scratch) \/ Reduce
BY DEF Next, Step, Run, TooWide, Enter, FillRight, SlideWindow, NothingSelected,
       Advance, RunStep, vars, runVars

(* A reduction permutes the entries; the map and the counts stay.          *)
LEMMA ReduceKeeps ==
    ASSUME RunTypeOK, Shaped(store), Reduce
    PROVE  /\ RunTypeOK' /\ pc = "reduce" /\ pc' = "advance"
           /\ \E cells : store' = [cells |-> cells, begin |-> store.begin,
                                   end |-> store.end, iter |-> store.iter]
           /\ UNCHANGED <<maskSelect, maskOmit, size, idx, bounds, runs>>
<1> DEFINE nth == store.begin + NthIndex(percentile, Size(store))
<1>1. store' \in Rearranged(store, nth)
  BY DEF Reduce
<1> HIDE DEF nth
<1>2. PICK cells : store' = [store EXCEPT !.cells = cells]
  BY <1>1 DEF Rearranged
<1>3. store' = [cells |-> cells, begin |-> store.begin, end |-> store.end,
                iter |-> store.iter]
  BY <1>2 DEF Shaped
<1>4. RunTypeOK'
  BY DEF RunTypeOK, Reduce, config, args, Positions
<1> QED
  BY <1>3, <1>4 DEF Reduce, config, args

(* Where run() is before the initial fill.                                 *)
AtEntry == pc \in {"idle", "enter"} \/ (pc = "slide" /\ idx = 0)

(* The inductive invariant: before the first fill of a first run, or of    *)
(* any run when the mask selects one cell on either side, no index is in   *)
(* the map; between two slides the map and its bounds are one cell behind, *)
(* after one they are at the current cell.                                 *)
RangeInv ==
    /\ LoopInv
    /\ runs \in Nat
    /\ runs = 0 => pc = "idle"
    /\ Shaped(store) /\ store.begin <= store.end
    /\ first \in Nat \cup {Unread} /\ leftLast \in Nat \cup {Unread}
    /\ rightFirst \in Nat \cup {Unread} /\ last \in Nat \cup {Unread}
    /\ AtEntry /\ (maskSelect = 1 \/ runs = 0 \/ (runs = 1 /\ pc # "idle")) =>
          DOMAIN store.iter = {}
    /\ pc = "slide" /\ idx = 0 => Size(store) = 0
    /\ pc = "slide" /\ idx > 0 => RangesAt(idx - 1)
    /\ pc \in {"reduce", "advance"} => RangesAt(idx)

LEMMA RangeInit == Init => RunTypeOK /\ RangeInv
<1> SUFFICES ASSUME Init PROVE RunTypeOK /\ RangeInv
  OBVIOUS
<1>1. Shaped(store) /\ DOMAIN store.iter = {} /\ store.begin <= store.end
  BY FS_EmptySet DEF Init, Shaped
<1> QED
  BY <1>1, RunInitInv DEF Init, RunInit, RangeInv

LEMMA CountsEnds ==
    ASSUME NEW st, NEW S, Counts(st, S)
    PROVE  /\ Shaped(st) /\ st.begin <= st.end
           /\ Size(st) <= Cardinality(DOMAIN st.iter)
<1>1. Shaped(st) /\ S \subseteq DOMAIN st.iter /\ Size(st) = Cardinality(S)
  BY DEF Counts
<1>2. IsFiniteSet(DOMAIN st.iter)
  BY <1>1 DEF Shaped
<1>3. IsFiniteSet(S) /\ Cardinality(S) <= Cardinality(DOMAIN st.iter)
  BY <1>1, <1>2, FS_Subset
<1>4. Cardinality(S) \in Nat
  BY <1>3, FS_CardinalityType
<1>5. Size(st) \in Nat
  BY <1>1, <1>4
<1>6. st.begin <= st.end
  BY <1>1, <1>5 DEF Shaped, Size
<1> QED
  BY <1>1, <1>3, <1>6

LEMMA RangesNow ==
    ASSUME RunTypeOK', RangesAt(idx)'
    PROVE  /\ Shaped(store') /\ store'.begin <= store'.end
           /\ first' \in Nat /\ leftLast' \in Nat /\ rightFirst' \in Nat /\ last' \in Nat
<1>1. /\ maskSelect' \in Nat /\ maskOmit' \in Nat /\ size' \in Nat /\ idx' \in Nat
  BY DEF RunTypeOK
<1>2. last' \in Int
  <2>1. last' = RightHi(idx)'
    BY DEF RangesAt
  <2>2. RightHi(idx)' \in Int
    <3>1. \A i, o, k, n \in Nat :
              (IF i + o + k - 1 < n - 1 THEN i + o + k - 1 ELSE n - 1) \in Int
      OBVIOUS
    <3> QED
      BY <1>1, <3>1, Zenon DEF RightHi
  <2> QED
    BY <2>1, <2>2, Zenon
<1>3. Counts(store', Live')
  BY DEF RangesAt, Counts, Shaped, Size
<1>4. Shaped(store') /\ store'.begin <= store'.end
  BY <1>3, CountsEnds
<1> QED
  <2>1. /\ first' \in Nat /\ leftLast' \in Nat /\ leftLast' < last'
        /\ rightFirst' = IF idx' + maskOmit' < size' THEN idx' + maskOmit' ELSE size'
    BY DEF RangesAt
  <2>2. rightFirst' \in Nat
    <3>1. \A i, o, n \in Nat : (IF i + o < n THEN i + o ELSE n) \in Nat
      OBVIOUS
    <3> QED
      BY <1>1, <2>1, <3>1, Zenon
  <2>3. last' \in Nat
    <3>1. \A l \in Nat, k \in Int : l < k => k \in Nat
      OBVIOUS
    <3> QED
      BY <1>2, <2>1, <3>1, Zenon
  <2> QED
    BY <1>4, <2>1, <2>2, <2>3, Zenon

(* What RangesAt is about stays, but for the entries and the cell.         *)
LEMMA RangesStay ==
    ASSUME UNCHANGED <<maskSelect, maskOmit, size, runs, bounds>>,
           Shaped(store'), store'.iter = store.iter,
           store'.begin = store.begin, store'.end = store.end
    PROVE  /\ RangesAt(idx) /\ idx' = idx => RangesAt(idx)'
           /\ RangesAt(idx) /\ idx' - 1 = idx => RangesAt(idx - 1)'
           /\ RangesAt(idx - 1) /\ idx' = idx => RangesAt(idx - 1)'
<1>1. first' = first /\ leftLast' = leftLast /\ rightFirst' = rightFirst /\ last' = last
  BY DEF bounds
<1>2. Live' = Live /\ Fresh' = Fresh
  BY <1>1 DEF Live, Fresh
<1>3. Counts(store, Live) => Counts(store, Live)'
  BY <1>2 DEF Counts, Size
<1>4. (Fresh => DOMAIN store.iter = Live) => (Fresh => DOMAIN store.iter = Live)'
  BY <1>2
<1> QED
  BY <1>1, <1>3, <1>4 DEF RangesAt, Entering, Dropping, Known, RightHi, LeftLo

LEMMA RangeStep ==
    ASSUME RunTypeOK, RangeInv, [Next]_vars
    PROVE  RunTypeOK' /\ RangeInv'
<1>t. /\ maskSelect \in Nat \ {0} /\ maskOmit \in Nat \ {0}
      /\ size \in Nat /\ idx \in Nat /\ runs \in Nat
  BY RunTypes DEF RangeInv
<1>s. RunTypeOK' /\ LoopInv'
  <2>1. CASE RunStep(Scratch)
    BY <2>1, RunTypeStep, LoopStep DEF RangeInv
  <2>2. CASE Reduce
    BY <2>2, ReduceKeeps DEF RangeInv, LoopInv
  <2> QED
    BY <2>1, <2>2, RunsTheLoop
<1> USE DEF config, args
<1>1. CASE Run
  <2>1. /\ pc = "idle" /\ pc' = "enter" /\ runs' = runs + 1
        /\ UNCHANGED <<store, bounds, maskSelect>>
    BY <1>1 DEF Run, CallRun
  <2>2. AtEntry
    BY <2>1 DEF AtEntry
  <2>3. maskSelect' = 1 \/ runs' = 1 => DOMAIN store'.iter = {}
    BY <1>t, <2>1, <2>2 DEF RangeInv
  <2>4. UNCHANGED <<first, leftLast, rightFirst, last>>
    BY <2>1 DEF bounds
  <2> QED
    BY <1>s, <1>t, <2>1, <2>3, <2>4 DEF RangeInv, Shaped
<1>2. CASE TooWide
  <2>1. pc = "enter" /\ pc' = "idle" /\ UNCHANGED <<store, bounds, runs, maskSelect>>
    BY <1>2 DEF TooWide, ReturnEarly
  <2>2. runs # 0 /\ AtEntry
    BY <2>1 DEF RangeInv, AtEntry
  <2>3. UNCHANGED <<first, leftLast, rightFirst, last>>
    BY <2>1 DEF bounds
  <2> QED
    BY <1>s, <1>t, <2>1, <2>2, <2>3 DEF RangeInv, Shaped
<1>3. CASE Enter
  <2>1. /\ pc = "enter" /\ pc' = "slide" /\ idx' = 0
        /\ UNCHANGED <<bounds, runs, maskSelect>>
        /\ store' = [store EXCEPT !.end = store.begin]
    BY <1>3 DEF Enter, EnterLoop
  <2>2. Shaped(store)
    BY DEF RangeInv
  <2>3. store' = [cells |-> store.cells, begin |-> store.begin, end |-> store.begin,
                  iter |-> store.iter]
    BY <2>1, <2>2 DEF Shaped
  <2>4. /\ Shaped(store') /\ Size(store') = 0 /\ store'.begin <= store'.end
        /\ store'.iter = store.iter
    BY <2>2, <2>3 DEF Shaped, Size
  <2>5. runs # 0 /\ AtEntry
    BY <2>1 DEF RangeInv, AtEntry
  <2>6. UNCHANGED <<first, leftLast, rightFirst, last>>
    BY <2>1 DEF bounds
  <2> QED
    BY <1>s, <1>t, <2>1, <2>4, <2>5, <2>6 DEF RangeInv, Size
<1>4. CASE FillRight
  <2>1. /\ pc = "slide" /\ pc' = "reduce" /\ idx = 0 /\ maskOmit < size
        /\ UNCHANGED <<idx, runs>>
    BY <1>4 DEF FillRight, Slid, RangeInv, LoopInv
  <2>2. Fresh => DOMAIN store.iter = {}
    BY <2>1 DEF RangeInv, AtEntry, Fresh
  <2>3. RangesAt(0)'
    BY <1>4, <2>1, <2>2, FillKeeps DEF RangeInv
  <2>4. RangesAt(idx)'
    BY <2>1, <2>3
  <2> QED
    BY <1>s, <1>t, <2>1, <2>4, RangesNow DEF RangeInv, AtEntry
<1>5. CASE SlideWindow
  <2>1. /\ pc = "slide" /\ pc' = "reduce" /\ 0 < idx /\ maskOmit < size /\ idx < size
        /\ UNCHANGED <<idx, runs>>
    BY <1>5 DEF SlideWindow, Slid, RangeInv, LoopInv
  <2>2. RangesAt(idx)'
    BY <1>5, <2>1, SlideKeeps DEF Sliding, RangeInv
  <2> QED
    BY <1>s, <1>t, <2>1, <2>2, RangesNow DEF RangeInv, AtEntry
<1>6. CASE Reduce \/ NothingSelected
  <2>1. /\ pc = "reduce" /\ pc' = "advance"
        /\ UNCHANGED <<maskSelect, maskOmit, size, idx, bounds, runs>>
    BY <1>6, ReduceKeeps DEF NothingSelected, SkipReduce, RangeInv
  <2>2. /\ Shaped(store') /\ store'.iter = store.iter
        /\ store'.begin = store.begin /\ store'.end = store.end
    <3>1. CASE Reduce
      <4>1. PICK cells : store' = [cells |-> cells, begin |-> store.begin,
                                   end |-> store.end, iter |-> store.iter]
        BY <3>1, ReduceKeeps DEF RangeInv
      <4> QED
        BY <4>1 DEF RangeInv, Shaped
    <3>2. CASE NothingSelected
      BY <3>2 DEF NothingSelected, RangeInv, Shaped
    <3> QED
      BY <1>6, <3>1, <3>2
  <2>3. RangesAt(idx)'
    BY <2>1, <2>2, RangesStay DEF RangeInv
  <2> QED
    BY <1>s, <1>t, <2>1, <2>3, RangesNow DEF RangeInv, AtEntry
<1>7. CASE Advance
  <2>1. /\ pc = "advance" /\ pc' \in {"slide", "idle"} /\ idx' = idx + 1
        /\ UNCHANGED <<maskSelect, maskOmit, size, store, bounds, runs>>
    BY <1>7 DEF Advance, AdvanceIdx
  <2>2. idx' - 1 = idx /\ idx' > 0 /\ RangesAt(idx) /\ runs # 0 /\ Shaped(store')
    BY <1>t, <2>1 DEF RangeInv, Shaped
  <2>3. RangesAt(idx - 1)'
    BY <2>1, <2>2, RangesStay
  <2>4. UNCHANGED <<first, leftLast, rightFirst, last>>
    BY <2>1 DEF bounds
  <2>5. pc' = "idle" /\ maskSelect = 1 => DOMAIN store.iter = {}
    <3> SUFFICES ASSUME pc' = "idle", maskSelect = 1 PROVE DOMAIN store.iter = {}
      OBVIOUS
    <3>1. idx = size - 1
      BY <1>7, <1>t, <2>1 DEF Advance, AdvanceIdx, RangeInv, LoopInv
    <3>2. /\ first > leftLast /\ first \in Nat /\ leftLast \in Nat
          /\ rightFirst = size /\ last = size - 1
          /\ DOMAIN store.iter = Live
      BY <1>t, <2>2, <3>1 DEF RangesAt, RightHi, Fresh
    <3> QED
      BY <1>t, <3>2 DEF Live, Between
  <2> QED
    BY <1>s, <1>t, <2>1, <2>2, <2>3, <2>4, <2>5 DEF RangeInv, AtEntry
<1>8. CASE UNCHANGED vars
  <2>1. UNCHANGED <<maskSelect, maskOmit, size, pc, idx, store, bounds, runs>>
    BY <1>8 DEF vars, bounds
  <2>2. Shaped(store')
    BY <2>1 DEF RangeInv, Shaped
  <2>3. /\ RangesAt(idx) => RangesAt(idx)'
        /\ RangesAt(idx - 1) => RangesAt(idx - 1)'
    BY <2>1, <2>2, RangesStay
  <2>4. UNCHANGED <<first, leftLast, rightFirst, last>>
    BY <2>1 DEF bounds
  <2> QED
    BY <1>s, <2>1, <2>2, <2>3, <2>4 DEF RangeInv, AtEntry, Size
<1> QED
  BY <1>1, <1>2, <1>3, <1>4, <1>5, <1>6, <1>7, <1>8 DEF Next, Step

LEMMA RangeInvariant == Spec => [](RunTypeOK /\ RangeInv)
<1>1. RunTypeOK /\ RangeInv /\ [Next]_vars => RunTypeOK' /\ RangeInv'
  BY RangeStep
<1> QED
  BY <1>1, RangeInit, PTL DEF Spec

(* Until the right block of ones leaves the array the indices between the  *)
(* bounds are the positions the mask selects.                              *)
LEMMA LiveIsWindow ==
    ASSUME RunTypeOK, RangeInv, pc = "reduce", maskSelect > 1, idx + maskOmit < size
    PROVE  Live = WindowAt(idx)
<1>t. /\ maskSelect \in Nat \ {0} /\ maskOmit \in Nat \ {0} /\ size \in Nat /\ idx \in Nat
      /\ maskSelect > 1 /\ idx + maskOmit < size
  BY RunTypes
<1>1. /\ Entering(idx) /\ last = RightHi(idx) /\ rightFirst = idx + maskOmit
  BY <1>t DEF RangeInv, RangesAt, Dropping
<1>2. first .. leftLast = LeftLo(idx) .. LeftHi(idx)
  BY <1>t, <1>1 DEF Entering, LeftLo, LeftHi
<1>3. rightFirst .. last = RightLo(idx) .. RightHi(idx)
  BY <1>t, <1>1 DEF RightLo
<1>4. WindowAt(idx) = (LeftLo(idx) .. LeftHi(idx)) \cup (RightLo(idx) .. RightHi(idx))
  BY <1>t, Halves DEF WindowAt
<1> QED
  BY <1>2, <1>3, <1>4 DEF Live, Between

(* In a first run, while the right block of ones is on the array and wider *)
(* than one cell, the map has an iterator for each position the mask       *)
(* selects and for no other.                                               *)
THEOREM FirstRunKeysAreExact == Spec => []FirstRunKeys
<1>1. RunTypeOK /\ RangeInv => FirstRunKeys
  BY LiveIsWindow DEF FirstRunKeys, RightBlockKnown, RangeInv, RangesAt, Fresh
<1> QED
  BY <1>1, RangeInvariant, PTL

(* In every run, while that lasts, the deque has as many entries as the    *)
(* mask selects positions, so reduceSelectBuffer computes its rank from    *)
(* the right number, whichever entries the iterators led the erasures to.  *)
RightCount ==
    pc = "reduce" /\ maskSelect > 1 /\ idx + maskOmit < size =>
        Size(store) = Cardinality(WindowAt(idx))

THEOREM RankIsComputedFromTheWindow == Spec => []RightCount
<1>1. RunTypeOK /\ RangeInv => RightCount
  BY LiveIsWindow DEF RightCount, RangeInv, RangesAt, Counts
<1> QED
  BY <1>1, RangeInvariant, PTL

(* In every run the deque has at most one entry for an index in the map,   *)
(* and in a first run exactly one.                                         *)
EntriesPerIndex ==
    pc = "reduce" =>
        /\ Size(store) <= Cardinality(DOMAIN store.iter)
        /\ runs = 1 => Size(store) = Cardinality(DOMAIN store.iter)

LEMMA EntriesPerIndexHolds == RunTypeOK /\ RangeInv => EntriesPerIndex
<1> SUFFICES ASSUME RunTypeOK, RangeInv, pc = "reduce"
             PROVE  /\ Size(store) <= Cardinality(DOMAIN store.iter)
                    /\ runs = 1 => Size(store) = Cardinality(DOMAIN store.iter)
  BY DEF EntriesPerIndex
<1>1. Counts(store, Live) /\ (runs = 1 => DOMAIN store.iter = Live)
  BY DEF RangeInv, RangesAt, Fresh
<1>2. Size(store) <= Cardinality(DOMAIN store.iter)
  BY <1>1, CountsEnds
<1> QED
  BY <1>1, <1>2 DEF Counts

THEOREM EntriesAreCountedByTheMap == Spec => []EntriesPerIndex
BY EntriesPerIndexHolds, RangeInvariant, PTL

(* In every run the map has each index between the bounds: each index      *)
(* slideSelectWindow evicts, after an eviction the one to be evicted next, *)
(* and after a slide all that its debug output lists.  Four of the six     *)
(* lines that print "Internal Error!" are never reached (64, 81, 140 and   *)
(* 153), nor is the branch that pushes a left entry to the front (106).    *)
BoundedAreKnown ==
    /\ pc = "slide" /\ idx > 0 =>
          /\ idx + LeftStartOffset > 0 /\ first <= leftLast /\ leftLast <= last =>
                Known(store, first)
          /\ EvictsLeft /\ leftLast > FirstEvicted => Known(LeftEvicted, FirstEvicted)
          /\ rightFirst <= last => Known(LeftEvicted, rightFirst)
          /\ ~EntersInFront
    /\ pc = "reduce" =>
          \A i \in (first .. leftLast) \cup (rightFirst .. last) : Known(store, i)

THEOREM MapHasEveryBoundedIndex == Spec => []BoundedAreKnown
<1>1. ASSUME RunTypeOK, RangeInv PROVE BoundedAreKnown
  <2> SUFFICES ASSUME pc = "slide", idx > 0
               PROVE  /\ first <= leftLast => Known(store, first)
                      /\ leftLast > FirstEvicted => Known(LeftEvicted, FirstEvicted)
                      /\ rightFirst <= last => Known(LeftEvicted, rightFirst)
                      /\ ~EntersInFront
    <3>1. pc = "reduce" =>
              \A i \in (first .. leftLast) \cup (rightFirst .. last) : Known(store, i)
      BY <1>1 DEF RangeInv, RangesAt, Counts, Live, Between, Known
    <3> QED
      BY <3>1 DEF BoundedAreKnown
  <2>1. Sliding
    BY <1>1 DEF Sliding, RangeInv, LoopInv
  <2>2. /\ first \in Nat /\ leftLast \in Nat /\ rightFirst \in Nat /\ last \in Int
        /\ FirstEvicted \in Nat /\ leftLast < last
    BY <2>1, SlidingNumbers, LeftEviction
  <2>3. first <= leftLast => Known(store, first)
    <3>1. first <= leftLast => first \in Live
      BY <2>2 DEF Live, Between
    <3> QED
      BY <2>1, <3>1 DEF Sliding, RangesAt, Counts, Known
  <2>4. /\ leftLast > FirstEvicted => Known(LeftEvicted, FirstEvicted)
        /\ rightFirst <= last => Known(LeftEvicted, rightFirst)
    <3> DEFINE S == Between(FirstEvicted, leftLast, rightFirst, last)
    <3>1. /\ leftLast > FirstEvicted => FirstEvicted \in S
          /\ rightFirst <= last => rightFirst \in S
      BY <2>2 DEF Between
    <3>2. S \subseteq DOMAIN LeftEvicted.iter
      BY <2>1, LeftEviction DEF Counts
    <3> HIDE DEF S
    <3> QED
      BY <3>1, <3>2 DEF Known
  <2>5. ~EntersInFront
    BY <2>2 DEF EntersInFront
  <2> QED
    BY <2>3, <2>4, <2>5
<1> QED
  BY <1>1, RangeInvariant, PTL

-----------------------------------------------------------------------------
(* A deque with room enough: what the slots hold, and where iterators lead.*)
EntryType == [val : Values, pos : Nat]

Fits(st) ==
    /\ st.cells \in [Int -> {Unread} \cup EntryType]
    /\ \A i \in DOMAIN st.iter : st.iter[i] \in Int

(* The slots from low to the end were written, and no iterator leads to a  *)
(* slot before them.                                                       *)
WrittenFrom(st, low) ==
    /\ low <= st.begin
    /\ \A c \in low .. st.end - 1 : st.cells[c] # Unread
    /\ \A i \in DOMAIN st.iter : st.iter[i] >= low

Written(st) == \E low \in Int : WrittenFrom(st, low)

LEMMA EntryTyped ==
    ASSUME RunTypeOK, NEW i \in Nat, i < size
    PROVE  Entry(i) \in EntryType /\ Entry(i) # Unread
<1>1. i \in Positions /\ input[i] \in Values
  BY DEF RunTypeOK, Positions
<1> QED
  BY <1>1, UnreadAssumption DEF Entry, EntryType

LEMMA IteratorsLead ==
    ASSUME NEW iter, NEW new, NEW S,
           \A i \in DOMAIN iter : iter[i] \in S,
           \A i \in DOMAIN new : new[i] \in S
    PROVE  \A i \in DOMAIN WithIterators(iter, new) : WithIterators(iter, new)[i] \in S
BY DEF WithIterators

LEMMA LaidInFront ==
    ASSUME NEW st, Shaped(st), Fits(st),
           NEW i, Entry(i) \in EntryType, Entry(i) # Unread
    PROVE  /\ Fits(EnteredInFront(st, i))
           /\ Written(st) => Written(EnteredInFront(st, i))
<1> DEFINE b == st.begin - 1
           new == [j \in {i} |-> b]
           z == EnteredInFront(st, i)
<1>1. /\ st.begin \in Int /\ st.end \in Int /\ b \in Int
      /\ st.cells \in [Int -> {Unread} \cup EntryType]
      /\ \A j \in DOMAIN st.iter : st.iter[j] \in Int
  BY DEF Shaped, Fits
<1>2. /\ z.cells = [st.cells EXCEPT ![b] = Entry(i)] /\ z.begin = b /\ z.end = st.end
      /\ z.iter = WithIterators(st.iter, new)
  BY DEF EnteredInFront
<1>3. \A j \in DOMAIN new : new[j] = b
  OBVIOUS
<1> HIDE DEF new, z
<1>4. Fits(z)
  <2>1. z.cells \in [Int -> {Unread} \cup EntryType]
    BY <1>1, <1>2
  <2>2. \A j \in DOMAIN z.iter : z.iter[j] \in Int
    BY <1>1, <1>2, <1>3, IteratorsLead
  <2> QED
    BY <2>1, <2>2 DEF Fits
<1>5. ASSUME NEW low \in Int, WrittenFrom(st, low) PROVE Written(z)
  <2>1. PICK l \in Int : l <= low /\ l <= b /\ (l = low \/ (l = b /\ low = st.begin))
    <3>1. CASE low <= b
      BY <3>1
    <3>2. CASE low > b
      <4>1. low = st.begin
        BY <1>1, <1>5, <3>2 DEF WrittenFrom
      <4> QED
        BY <1>1, <4>1
    <3> QED
      BY <1>1, <3>1, <3>2
  <2>2. ASSUME NEW c \in l .. z.end - 1 PROVE z.cells[c] # Unread
    <3>1. CASE c = b
      BY <1>1, <1>2, <3>1
    <3>2. CASE c # b
      <4>1. c \in low .. st.end - 1
        BY <1>1, <1>2, <2>1, <3>2
      <4>2. z.cells[c] = st.cells[c]
        BY <1>1, <1>2, <3>2
      <4> QED
        BY <1>5, <4>1, <4>2 DEF WrittenFrom
    <3> QED
      BY <3>1, <3>2
  <2>3. \A j \in DOMAIN z.iter : z.iter[j] >= l
    <3> DEFINE S == {c \in Int : c >= l}
    <3>1. ASSUME NEW j \in DOMAIN st.iter PROVE st.iter[j] \in S
      BY <1>1, <1>5, <2>1 DEF WrittenFrom
    <3>2. ASSUME NEW j \in DOMAIN new PROVE new[j] \in S
      BY <1>1, <1>3, <2>1
    <3> HIDE DEF S
    <3>3. \A j \in DOMAIN z.iter : z.iter[j] \in S
      BY <1>2, <3>1, <3>2, IteratorsLead
    <3> QED
      BY <3>3 DEF S
  <2>4. l <= z.begin
    BY <1>2, <2>1
  <2> QED
    BY <2>2, <2>3, <2>4 DEF Written, WrittenFrom
<1> QED
  BY <1>4, <1>5 DEF Written, z

LEMMA LaidBefore ==
    ASSUME Slots = Int, NEW st, Shaped(st), Fits(st), NEW k \in DOMAIN st.iter,
           NEW i, Entry(i) \in EntryType, Entry(i) # Unread
    PROVE  /\ Fits(EnteredBefore(st, st.iter[k], i))
           /\ Written(st) /\ Size(st) >= 1 => Written(EnteredBefore(st, st.iter[k], i))
<1> DEFINE s == st.iter[k]
           z == EnteredBefore(st, s, i)
<1>1. /\ st.begin \in Int /\ st.end \in Int /\ s \in Int
      /\ st.cells \in [Int -> {Unread} \cup EntryType]
      /\ \A j \in DOMAIN st.iter : st.iter[j] \in Int
  BY DEF Shaped, Fits
<1>2. CASE s = st.begin
  BY <1>2, LaidInFront DEF EnteredBefore
<1>3. CASE s # st.begin /\ InFrontHalf(st, s)
  <2> DEFINE new == [j \in {i} |-> s - 1]
  <2>1. /\ z.cells = [c \in Int |-> IF c = s - 1 THEN Entry(i)
                                   ELSE IF c \in st.begin - 1 .. s - 2 THEN st.cells[c + 1]
                                   ELSE st.cells[c]]
        /\ z.begin = st.begin - 1 /\ z.end = st.end
        /\ z.iter = WithIterators(st.iter, new)
    BY <1>3 DEF EnteredBefore
  <2>2. \A j \in DOMAIN new : new[j] = s - 1
    OBVIOUS
  <2>3. st.begin < s /\ s < st.end
    BY <1>1, <1>3 DEF InFrontHalf, Size
  <2> HIDE DEF new, z, s
  <2>4. Fits(z)
    <3>1. z.cells \in [Int -> {Unread} \cup EntryType]
      BY <1>1, <2>1
    <3>2. \A j \in DOMAIN z.iter : z.iter[j] \in Int
      <4>1. \A j \in DOMAIN new : new[j] \in Int
        BY <1>1, <2>2
      <4> QED
        BY <1>1, <2>1, <4>1, IteratorsLead
    <3> QED
      BY <3>1, <3>2 DEF Fits
  <2>5. ASSUME NEW low \in Int, WrittenFrom(st, low) PROVE Written(z)
    <3>1. PICK l \in Int : /\ l <= low /\ l <= st.begin - 1
                           /\ l = low \/ (l = st.begin - 1 /\ low = st.begin)
      <4>1. CASE low <= st.begin - 1
        BY <4>1
      <4>2. CASE low > st.begin - 1
        <5>1. low = st.begin
          BY <1>1, <2>5, <4>2 DEF WrittenFrom
        <5> QED
          BY <1>1, <5>1
      <4> QED
        BY <1>1, <4>1, <4>2
    <3>2. ASSUME NEW c \in l .. z.end - 1 PROVE z.cells[c] # Unread
      <4>1. CASE c = s - 1
        BY <1>1, <2>1, <4>1
      <4>2. CASE c # s - 1 /\ c \in st.begin - 1 .. s - 2
        <5>1. c + 1 \in low .. st.end - 1
          BY <1>1, <2>3, <2>5, <4>2 DEF WrittenFrom
        <5>2. z.cells[c] = st.cells[c + 1]
          BY <1>1, <2>1, <4>2
        <5> QED
          BY <2>5, <5>1, <5>2 DEF WrittenFrom
      <4>3. CASE c # s - 1 /\ ~(c \in st.begin - 1 .. s - 2)
        <5>1. c \in low .. st.end - 1
          BY <1>1, <2>1, <2>3, <3>1, <4>3
        <5>2. z.cells[c] = st.cells[c]
          BY <1>1, <2>1, <4>3
        <5> QED
          BY <2>5, <5>1, <5>2 DEF WrittenFrom
      <4> QED
        BY <4>1, <4>2, <4>3
    <3>3. \A j \in DOMAIN z.iter : z.iter[j] >= l
      <4> DEFINE S == {c \in Int : c >= l}
      <4>1. ASSUME NEW j \in DOMAIN st.iter PROVE st.iter[j] \in S
        BY <1>1, <2>5, <3>1 DEF WrittenFrom
      <4>2. ASSUME NEW j \in DOMAIN new PROVE new[j] \in S
        BY <1>1, <2>2, <2>3, <3>1
      <4> HIDE DEF S
      <4>3. \A j \in DOMAIN z.iter : z.iter[j] \in S
        BY <2>1, <4>1, <4>2, IteratorsLead
      <4> QED
        BY <4>3 DEF S
    <3>4. l <= z.begin
      BY <2>1, <3>1
    <3> QED
      BY <3>2, <3>3, <3>4 DEF Written, WrittenFrom
  <2> QED
    BY <2>4, <2>5 DEF Written, z, s
<1>4. CASE s # st.begin /\ ~InFrontHalf(st, s)
  <2> DEFINE new == [j \in {i} |-> s]
  <2>1. /\ z.cells = [c \in Int |-> IF c = s THEN Entry(i)
                                   ELSE IF c \in s + 1 .. st.end \/ c = st.end
                                   THEN st.cells[c - 1]
                                   ELSE st.cells[c]]
        /\ z.begin = st.begin /\ z.end = st.end + 1
        /\ z.iter = WithIterators(st.iter, new)
    BY <1>4 DEF EnteredBefore
  <2>2. \A j \in DOMAIN new : new[j] = s
    OBVIOUS
  <2>3. ASSUME NEW low, WrittenFrom(st, low) PROVE s >= low
    BY <2>3 DEF WrittenFrom
  <2> HIDE DEF new, z, s
  <2>4. Fits(z)
    <3>1. z.cells \in [Int -> {Unread} \cup EntryType]
      BY <1>1, <2>1
    <3>2. \A j \in DOMAIN z.iter : z.iter[j] \in Int
      <4>1. \A j \in DOMAIN new : new[j] \in Int
        BY <1>1, <2>2
      <4> QED
        BY <1>1, <2>1, <4>1, IteratorsLead
    <3> QED
      BY <3>1, <3>2 DEF Fits
  <2>5. ASSUME NEW low \in Int, WrittenFrom(st, low), Size(st) >= 1 PROVE Written(z)
    <3>1. low <= st.begin /\ s >= low /\ low <= st.end - 1
      BY <1>1, <2>3, <2>5 DEF WrittenFrom, Size
    <3>2. ASSUME NEW c \in low .. z.end - 1 PROVE z.cells[c] # Unread
      <4>1. CASE c = s
        BY <1>1, <2>1, <4>1
      <4>2. CASE c # s /\ (c \in s + 1 .. st.end \/ c = st.end)
        <5>1. c - 1 \in low .. st.end - 1
          BY <1>1, <3>1, <4>2
        <5>2. z.cells[c] = st.cells[c - 1]
          BY <1>1, <2>1, <4>2
        <5> QED
          BY <2>5, <5>1, <5>2 DEF WrittenFrom
      <4>3. CASE c # s /\ ~(c \in s + 1 .. st.end \/ c = st.end)
        <5>1. c \in low .. st.end - 1
          BY <1>1, <2>1, <4>3
        <5>2. z.cells[c] = st.cells[c]
          BY <1>1, <2>1, <4>3
        <5> QED
          BY <2>5, <5>1, <5>2 DEF WrittenFrom
      <4> QED
        BY <4>1, <4>2, <4>3
    <3>3. \A j \in DOMAIN z.iter : z.iter[j] >= low
      <4> DEFINE S == {c \in Int : c >= low}
      <4>1. ASSUME NEW j \in DOMAIN st.iter PROVE st.iter[j] \in S
        BY <1>1, <2>5 DEF WrittenFrom
      <4>2. ASSUME NEW j \in DOMAIN new PROVE new[j] \in S
        BY <1>1, <2>2, <3>1
      <4> HIDE DEF S
      <4>3. \A j \in DOMAIN z.iter : z.iter[j] \in S
        BY <2>1, <4>1, <4>2, IteratorsLead
      <4> QED
        BY <4>3 DEF S
    <3> QED
      BY <2>1, <3>1, <3>2, <3>3 DEF Written, WrittenFrom
  <2> QED
    BY <2>4, <2>5 DEF Written, z, s
<1> QED
  BY <1>2, <1>3, <1>4

LEMMA LaidEvicted ==
    ASSUME Slots = Int, NEW st, Shaped(st), Fits(st), NEW i \in DOMAIN st.iter
    PROVE  /\ Fits(Evicted(st, i))
           /\ Written(st) => Written(Evicted(st, i))
<1> DEFINE s == st.iter[i]
           erased == ErasedAt(st, s)
           left == [j \in DOMAIN st.iter \ {i} |-> st.iter[j]]
           z == Evicted(st, i)
<1>1. /\ st.begin \in Int /\ st.end \in Int /\ s \in Int
      /\ st.cells \in [Int -> {Unread} \cup EntryType]
      /\ \A j \in DOMAIN st.iter : st.iter[j] \in Int
  BY DEF Shaped, Fits
<1>2. z = [cells |-> erased.cells, begin |-> erased.begin, end |-> erased.end,
           iter |-> left]
  BY ErasedShape
<1>3. \A j \in DOMAIN left : j \in DOMAIN st.iter /\ left[j] = st.iter[j]
  OBVIOUS
<1>4. CASE InFrontHalf(st, s)
  <2>1. /\ erased.cells = [c \in Int |-> IF c \in st.begin + 1 .. s
                                        THEN st.cells[c - 1] ELSE st.cells[c]]
        /\ erased.begin = st.begin + 1 /\ erased.end = st.end
    BY <1>4 DEF ErasedAt
  <2>2. s < st.end
    BY <1>1, <1>4 DEF InFrontHalf, Size
  <2> HIDE DEF left, z, s, erased
  <2>3. Fits(z)
    BY <1>1, <1>2, <1>3, <2>1 DEF Fits
  <2>4. ASSUME NEW low \in Int, WrittenFrom(st, low) PROVE WrittenFrom(z, low)
    <3>1. low <= z.begin
      BY <1>1, <1>2, <2>1, <2>4 DEF WrittenFrom
    <3>2. ASSUME NEW c \in low .. z.end - 1 PROVE z.cells[c] # Unread
      <4>1. CASE c \in st.begin + 1 .. s
        <5>1. c - 1 \in low .. st.end - 1 /\ z.cells[c] = st.cells[c - 1]
          BY <1>1, <1>2, <2>1, <2>2, <2>4, <4>1 DEF WrittenFrom
        <5> QED
          BY <2>4, <5>1 DEF WrittenFrom
      <4>2. CASE ~(c \in st.begin + 1 .. s)
        <5>1. c \in low .. st.end - 1 /\ z.cells[c] = st.cells[c]
          BY <1>1, <1>2, <2>1, <4>2
        <5> QED
          BY <2>4, <5>1 DEF WrittenFrom
      <4> QED
        BY <4>1, <4>2
    <3>3. \A j \in DOMAIN z.iter : z.iter[j] >= low
      BY <1>2, <1>3, <2>4 DEF WrittenFrom
    <3> QED
      BY <3>1, <3>2, <3>3 DEF WrittenFrom
  <2> QED
    BY <2>3, <2>4 DEF Written, z
<1>5. CASE ~InFrontHalf(st, s)
  <2>1. /\ erased.cells = [c \in Int |-> IF c \in s .. st.end - 2
                                        THEN st.cells[c + 1] ELSE st.cells[c]]
        /\ erased.begin = st.begin /\ erased.end = st.end - 1
    BY <1>5 DEF ErasedAt
  <2> HIDE DEF left, z, s, erased
  <2>3. Fits(z)
    BY <1>1, <1>2, <1>3, <2>1 DEF Fits
  <2>4. ASSUME NEW low \in Int, WrittenFrom(st, low) PROVE WrittenFrom(z, low)
    <3>1. low <= z.begin
      BY <1>1, <1>2, <2>1, <2>4 DEF WrittenFrom
    <3>2. ASSUME NEW c \in low .. z.end - 1 PROVE z.cells[c] # Unread
      <4>1. CASE c \in s .. st.end - 2
        <5>1. c + 1 \in low .. st.end - 1 /\ z.cells[c] = st.cells[c + 1]
          BY <1>1, <1>2, <2>1, <4>1
        <5> QED
          BY <2>4, <5>1 DEF WrittenFrom
      <4>2. CASE ~(c \in s .. st.end - 2)
        <5>1. c \in low .. st.end - 1 /\ z.cells[c] = st.cells[c]
          BY <1>1, <1>2, <2>1, <4>2
        <5> QED
          BY <2>4, <5>1 DEF WrittenFrom
      <4> QED
        BY <4>1, <4>2
    <3>3. \A j \in DOMAIN z.iter : z.iter[j] >= low
      BY <1>2, <1>3, <2>4 DEF WrittenFrom
    <3> QED
      BY <3>1, <3>2, <3>3 DEF WrittenFrom
  <2> QED
    BY <2>3, <2>4 DEF Written, z
<1> QED
  BY <1>4, <1>5

LEMMA LaidFilled ==
    ASSUME Slots = Int, RunTypeOK, maskOmit < size,
           NEW st, Shaped(st), Fits(st), Size(st) = 0
    PROVE  /\ Fits(Filled(st))
           /\ Written(st) /\ DOMAIN st.iter = {} => Written(Filled(st))
<1> DEFINE f == st.begin - 1 - (RightHi(0) - maskOmit)
           new == [i \in maskOmit .. RightHi(0) |-> st.begin - 1 - (i - maskOmit)]
           z == Filled(st)
<1>1. /\ st.begin \in Int /\ st.end \in Int /\ st.end = st.begin
      /\ st.cells \in [Int -> {Unread} \cup EntryType]
      /\ \A j \in DOMAIN st.iter : st.iter[j] \in Int
  BY DEF Shaped, Fits, Size
<1>2. /\ maskOmit \in Nat /\ RightHi(0) \in Nat /\ maskOmit <= RightHi(0)
      /\ size \in Nat /\ RightHi(0) < size
      /\ RightStartOffset = maskOmit /\ FillEnd = RightHi(0)
  BY FillNumbers DEF RightHi
<1>3. f \in Int /\ SlotFilled(st, FillEnd) = f
  BY <1>1, <1>2 DEF SlotFilled
<1>4. /\ z.cells = [c \in Int |-> IF c \in f .. st.begin - 1
                                 THEN Entry(maskOmit + (st.begin - 1 - c)) ELSE st.cells[c]]
      /\ z.begin = f /\ z.end = st.end
      /\ z.iter = WithIterators(st.iter, new)
  BY <1>2, <1>3 DEF Filled, SlotFilled
<1>5. \A i \in DOMAIN new : new[i] \in Int /\ new[i] >= f
  BY <1>1, <1>2
<1>6. ASSUME NEW c \in f .. st.begin - 1
      PROVE  z.cells[c] \in EntryType /\ z.cells[c] # Unread
  <2> DEFINE i == maskOmit + (st.begin - 1 - c)
  <2>1. i \in Nat /\ i < size
    BY <1>1, <1>2
  <2>2. z.cells[c] = Entry(i)
    BY <1>1, <1>3, <1>4
  <2> HIDE DEF i
  <2> QED
    BY <2>1, <2>2, EntryTyped
<1>7. ASSUME NEW c \in Int, ~(c \in f .. st.begin - 1) PROVE z.cells[c] = st.cells[c]
  BY <1>4, <1>7
<1> HIDE DEF f, new, z
<1>8. Fits(z)
  <2>1. z.cells \in [Int -> {Unread} \cup EntryType]
    <3>1. z.cells = [c \in Int |-> z.cells[c]]
      BY <1>4
    <3>2. \A c \in Int : z.cells[c] \in {Unread} \cup EntryType
      BY <1>1, <1>6, <1>7
    <3> QED
      BY <3>1, <3>2
  <2>2. \A j \in DOMAIN z.iter : z.iter[j] \in Int
    BY <1>1, <1>4, <1>5, IteratorsLead
  <2> QED
    BY <2>1, <2>2 DEF Fits
<1>9. ASSUME DOMAIN st.iter = {} PROVE WrittenFrom(z, f)
  <2>1. \A j \in DOMAIN z.iter : z.iter[j] >= f
    <3> DEFINE S == {c \in Int : c >= f}
    <3>1. \A i \in DOMAIN new : new[i] \in S
      BY <1>5
    <3>2. \A i \in DOMAIN st.iter : st.iter[i] \in S
      BY <1>9
    <3> HIDE DEF S
    <3>3. \A j \in DOMAIN z.iter : z.iter[j] \in S
      BY <1>4, <3>1, <3>2, IteratorsLead
    <3> QED
      BY <3>3 DEF S
  <2> QED
    BY <1>1, <1>3, <1>4, <1>6, <2>1 DEF WrittenFrom
<1> QED
  BY <1>3, <1>8, <1>9 DEF Written, z

(* What a slide leaves in the slots.  In a first run, and in a block of    *)
(* one cell, the entry inserted before is one of the deque's own.          *)
LEMMA LaidSlide ==
    ASSUME Slots = Int, Sliding, SlideWindow, Fits(store)
    PROVE  /\ Fits(store')
           /\ Fresh /\ Written(store) => Written(store')
<1>1. /\ Shaped(store)
      /\ Counts(LeftEvicted, Between(FirstEvicted, leftLast, rightFirst, last))
      /\ Shaped(LeftEvicted)
  BY LeftEviction DEF Sliding, RangesAt, Counts
<1>2. /\ Counts(BothEvicted, Between(FirstEvicted, leftLast, RightFirstEvicted, last))
      /\ Shaped(BothEvicted)
  BY RightEviction DEF Counts
<1>3. Shaped(LeftEntered)
  BY LeftEntry DEF Counts
<1>4. Fits(LeftEvicted) /\ (Written(store) => Written(LeftEvicted))
  BY <1>1, LaidEvicted DEF LeftEvicted, EvictsLeft, Known
<1>5. Fits(BothEvicted) /\ (Written(store) => Written(BothEvicted))
  BY <1>1, <1>4, LaidEvicted DEF BothEvicted, EvictsRight, Known
<1>6. Fits(LeftEntered) /\ (Fresh /\ Written(store) => Written(LeftEntered))
  <2> DEFINE new == idx + LeftEndOffset
  <2>1. CASE EntersBeforeRight
    <3>1. new \in Nat /\ new < size
      BY <2>1, SlidingNumbers DEF EntersBeforeRight, EntersLeft
    <3>2. /\ LeftEntered = EnteredBefore(BothEvicted, BothEvicted.iter[RightFirstEvicted], new)
          /\ RightFirstEvicted \in DOMAIN BothEvicted.iter
      BY <2>1 DEF LeftEntered, EntersBeforeRight, Known
    <3> HIDE DEF new
    <3>3. Entry(new) \in EntryType /\ Entry(new) # Unread
      BY <3>1, EntryTyped DEF Sliding
    <3>4. Fresh => Size(BothEvicted) >= 1
      <4> SUFFICES ASSUME Fresh PROVE Size(BothEvicted) >= 1
        OBVIOUS
      <4> DEFINE S == Between(FirstEvicted, leftLast, RightFirstEvicted, last)
      <4>1. DOMAIN BothEvicted.iter = S
        BY RightEviction DEF Sliding, RangesAt
      <4> HIDE DEF S
      <4>2. S # {} /\ IsFiniteSet(S) /\ Size(BothEvicted) = Cardinality(S)
        BY <1>2, <3>2, <4>1 DEF Counts, Shaped, S
      <4>3. Cardinality(S) \in Nat /\ Cardinality(S) # 0
        BY <4>2, FS_CardinalityType, FS_EmptySet
      <4> QED
        BY <4>2, <4>3
    <3> QED
      BY <1>2, <1>5, <3>2, <3>3, <3>4, LaidBefore
  <2>2. CASE ~EntersBeforeRight
    <3>1. LeftEntered = BothEvicted
      BY <2>2, SlidingNumbers DEF LeftEntered, EntersInFront
    <3> QED
      BY <1>5, <3>1
  <2> QED
    BY <2>1, <2>2
<1>7. CASE EntersRight
  <2> DEFINE new == idx + RightEndOffset
  <2>1. new \in Nat /\ new < size
    BY <1>7, SlidingNumbers DEF EntersRight
  <2>2. store' = EnteredInFront(LeftEntered, new)
    BY <1>7 DEF SlideWindow
  <2> HIDE DEF new
  <2>3. Entry(new) \in EntryType /\ Entry(new) # Unread
    BY <2>1, EntryTyped DEF Sliding
  <2> QED
    BY <1>3, <1>6, <2>2, <2>3, LaidInFront
<1>8. CASE ~EntersRight
  BY <1>6, <1>8 DEF SlideWindow
<1> QED
  BY <1>7, <1>8

(* Whatever order nth_element leaves, the entries are those of before.     *)
LEMMA LaidRearranged ==
    ASSUME Slots = Int, NEW st, Shaped(st), Fits(st), NEW nth,
           NEW z \in Rearranged(st, nth)
    PROVE  /\ Fits(z) /\ (Written(st) => Written(z))
<1>1. PICK p \in Bijection(Buffer(st), Buffer(st)) :
          z = [st EXCEPT !.cells = [c \in Slots |->
                  IF c \in Buffer(st) THEN @[p[c]] ELSE @[c]]]
  BY DEF Rearranged
<1>2. p \in [Buffer(st) -> Buffer(st)]
  BY DEF Bijection, Injection
<1>3. /\ z.cells = [c \in Int |-> IF c \in Buffer(st) THEN st.cells[p[c]] ELSE st.cells[c]]
      /\ z.begin = st.begin /\ z.end = st.end /\ z.iter = st.iter
  BY <1>1 DEF Shaped
<1>4. /\ st.begin \in Int /\ st.end \in Int
      /\ st.cells \in [Int -> {Unread} \cup EntryType]
      /\ Buffer(st) = st.begin .. st.end - 1
  BY DEF Shaped, Fits, Buffer
<1>5. Fits(z)
  BY <1>2, <1>3, <1>4 DEF Fits
<1>6. ASSUME NEW low \in Int, WrittenFrom(st, low) PROVE WrittenFrom(z, low)
  <2>1. ASSUME NEW c \in low .. z.end - 1 PROVE z.cells[c] # Unread
    <3>1. CASE c \in Buffer(st)
      <4>1. p[c] \in Buffer(st) /\ z.cells[c] = st.cells[p[c]]
        BY <1>2, <1>3, <1>4, <3>1
      <4>2. p[c] \in low .. st.end - 1
        BY <1>4, <1>6, <4>1 DEF WrittenFrom
      <4> QED
        BY <1>6, <4>1, <4>2 DEF WrittenFrom
    <3>2. CASE c \notin Buffer(st)
      BY <1>3, <1>6, <3>2 DEF WrittenFrom
    <3> QED
      BY <3>1, <3>2
  <2> QED
    BY <1>3, <1>6, <2>1 DEF WrittenFrom
<1> QED
  BY <1>5, <1>6 DEF Written

(* In a deque with room enough every slot holds an entry or was never      *)
(* written, and in a first run those of the deque were.                    *)
CellInv == Fits(store) /\ (runs <= 1 => Written(store))

LEMMA CellInit == ASSUME Slots = Int, Init PROVE CellInv
<1>1. Fits(store)
  BY DEF Init, Fits
<1>2. WrittenFrom(store, 0)
  BY DEF Init, WrittenFrom
<1> QED
  BY <1>1, <1>2 DEF CellInv, Written

LEMMA CellStep ==
    ASSUME Slots = Int, RunTypeOK, RangeInv, CellInv, [Next]_vars
    PROVE  CellInv'
<1>1. CASE store' = store /\ (runs' = runs \/ runs' = runs + 1)
  BY <1>1 DEF CellInv, RangeInv, Fits, Written, WrittenFrom
<1>2. CASE Enter
  <2>1. runs' = runs /\ store' = [store EXCEPT !.end = store.begin]
    BY <1>2 DEF Enter
  <2>2. /\ store'.cells = store.cells /\ store'.begin = store.begin
        /\ store'.end = store.begin /\ store'.iter = store.iter
    BY <2>1 DEF RangeInv, Shaped
  <2>3. Fits(store')
    BY <2>2 DEF CellInv, Fits
  <2>4. ASSUME NEW low \in Int, WrittenFrom(store, low) PROVE WrittenFrom(store', low)
    <3>1. \A c \in low .. store.begin - 1 : c \in low .. store.end - 1
      BY DEF RangeInv, Shaped
    <3> QED
      BY <2>2, <2>4, <3>1 DEF WrittenFrom
  <2> QED
    BY <2>1, <2>3, <2>4 DEF CellInv, Written, Fits, WrittenFrom
<1>3. CASE FillRight
  <2>1. /\ pc = "slide" /\ idx = 0 /\ maskOmit < size /\ runs' = runs
        /\ store' = Filled(store)
    BY <1>3 DEF FillRight, Slid, RangeInv, LoopInv
  <2>2. Shaped(store) /\ Size(store) = 0 /\ (runs = 1 => DOMAIN store.iter = {}) /\ runs # 0
        /\ runs \in Nat
    BY <2>1 DEF RangeInv, AtEntry
  <2>3. Fits(Filled(store)) /\ (Written(store) /\ DOMAIN store.iter = {} => Written(Filled(store)))
    BY <2>1, <2>2, LaidFilled DEF CellInv
  <2>4. Fits(store') /\ (runs' <= 1 => Written(store'))
    BY <2>1, <2>2, <2>3 DEF CellInv
  <2> QED
    BY <2>4 DEF CellInv, Fits, Written, WrittenFrom
<1>4. CASE SlideWindow
  <2>1. /\ pc = "slide" /\ 0 < idx /\ idx < size /\ maskOmit < size /\ runs' = runs
    BY <1>4 DEF SlideWindow, Slid, RangeInv, LoopInv
  <2>2. Sliding
    BY <2>1 DEF Sliding, RangeInv
  <2>3. runs <= 1 => Fresh
    BY <2>1 DEF RangeInv, Fresh
  <2>4. Fits(store') /\ (runs' <= 1 => Written(store'))
    BY <1>4, <2>1, <2>2, <2>3, LaidSlide DEF CellInv
  <2> QED
    BY <2>4 DEF CellInv, Fits, Written, WrittenFrom
<1>5. CASE Reduce
  <2> DEFINE nth == store.begin + NthIndex(percentile, Size(store))
  <2>1. store' \in Rearranged(store, nth) /\ runs' = runs
    BY <1>5 DEF Reduce
  <2> HIDE DEF nth
  <2>2. Fits(store') /\ (Written(store) => Written(store'))
    BY <2>1, LaidRearranged DEF CellInv, RangeInv
  <2> QED
    BY <2>1, <2>2 DEF CellInv, Fits, Written, WrittenFrom
<1>6. Run \/ TooWide \/ NothingSelected \/ Advance \/ UNCHANGED vars =>
          store' = store /\ (runs' = runs \/ runs' = runs + 1)
  BY DEF Run, TooWide, NothingSelected, Advance, vars
<1> QED
  BY <1>1, <1>2, <1>3, <1>4, <1>5, <1>6 DEF Next, Step

LEMMA CellInvariant ==
    ASSUME Slots = Int
    PROVE  Spec => [](RunTypeOK /\ RangeInv /\ CellInv)
<1>1. RunTypeOK /\ RangeInv /\ CellInv /\ [Next]_vars => RunTypeOK' /\ RangeInv' /\ CellInv'
  BY RangeStep, CellStep
<1>2. Init => RunTypeOK /\ RangeInv /\ CellInv
  BY RangeInit, CellInit
<1> QED
  BY <1>1, <1>2, PTL DEF Spec

(* In a deque with room enough, and in every run: the variables hold       *)
(* values of their types, the bounds are written before they are read, and *)
(* no erasure takes an entry from an empty deque, whichever slots the      *)
(* iterators of m_idxToIter have come to name.                             *)
THEOREM TypeCorrect ==
    ASSUME Slots = Int
    PROVE  Spec => []TypeOK
<1>1. ASSUME RunTypeOK, RangeInv, CellInv PROVE TypeOK
  <2>1. /\ store.cells \in [Slots -> {Unread} \cup [val : Values, pos : Nat]]
        /\ store.begin \in Slots /\ store.end \in Int /\ store.begin <= store.end
        /\ \A i \in DOMAIN store.iter : i \in Nat /\ store.iter[i] \in Slots
    BY <1>1 DEF CellInv, Fits, EntryType, RangeInv, Shaped
  <2>2. ASSUME pc \in {"reduce", "advance"} \/ (pc = "slide" /\ idx > 0)
        PROVE  Unread \notin {first, leftLast, rightFirst, last}
    <3>1. /\ first \in Nat /\ leftLast \in Nat /\ last \in Int /\ rightFirst \in Nat
          /\ leftLast < last
      BY <1>1, <2>2, RunTypes DEF RangeInv, RangesAt, RightHi
    <3>2. last \in Nat
      BY <3>1
    <3> QED
      BY <3>1, <3>2, UnreadAssumption
  <2>3. \A b \in {first, leftLast, rightFirst, last} : b \in Nat \cup {Unread}
    BY <1>1 DEF RangeInv
  <2> QED
    BY <1>1, <2>1, <2>2, <2>3 DEF TypeOK
<1> QED
  BY <1>1, CellInvariant, PTL

(* In a deque with room enough a first run reduces one entry for each      *)
(* index in the map and none that was never written, and a later run never *)
(* more entries than the map has indices.                                  *)
THEOREM FirstRunReadsWhatWasWritten ==
    ASSUME Slots = Int
    PROVE  Spec => []OneEntryPerIndex
<1>1. ASSUME RunTypeOK, RangeInv, CellInv PROVE OneEntryPerIndex
  <2> SUFFICES ASSUME pc = "reduce", runs = 1, Unread \in ToSet(Scratch) PROVE FALSE
    BY <1>1, EntriesPerIndexHolds DEF OneEntryPerIndex, EntriesPerIndex
  <2>1. store.begin \in Int /\ store.end \in Int
    BY <1>1 DEF RangeInv, Shaped
  <2>2. PICK low \in Int : WrittenFrom(store, low)
    BY <1>1 DEF CellInv, Written
  <2>3. PICK j \in 1 .. Size(store) : store.cells[store.begin + j - 1] = Unread
    BY DEF ToSet, Scratch
  <2>4. store.begin + j - 1 \in low .. store.end - 1
    BY <2>1, <2>2 DEF WrittenFrom, Size
  <2> QED
    BY <2>2, <2>3, <2>4 DEF WrittenFrom
<1> QED
  BY <1>1, CellInvariant, PTL
=============================================================================

---------------------------- MODULE CfarIndexMap ----------------------------
(***************************************************************************)
(* OrderedStatCfarImpl of candidateTestTryBetterSpaceComplexity: the deque *)
(* of (value, index) pairs is searched through m_idxToIter, a map from an  *)
(* index to the iterator push_front or insert returned for it.             *)
(*                                                                         *)
(* The map is never told that an insertion or an erasure moved entries,    *)
(* that nth_element permuted them, or that clear() emptied the deque.      *)
(* Using such an iterator is undefined; what follows is what the deque of  *)
(* libstdc++ does while its entries fit one node.  The deque is a range of *)
(* slots begin .. end - 1 of cells, an iterator is a slot, and the shorter *)
(* side of the range moves when an entry enters or leaves in the middle.   *)
(***************************************************************************)
EXTENDS CfarRun

CONSTANTS
    Slots,   (* a bound: slots of the node; the first entry is put at -1   *)
    MaxRuns, (* a bound: how often run() is called                         *)
    Unread   (* what a slot or a bound holds that was never written        *)

ASSUME SlotsAssumption == Slots \subseteq Int
ASSUME MaxRunsAssumption == MaxRuns \in Nat
ASSUME UnreadAssumption == Unread \notin Nat /\ Unread \notin [val : Values, pos : Nat]

VARIABLES
    store,   (* m_selectBuffer [cells, begin, end] and m_idxToIter [iter]  *)
    first, leftLast, rightFirst, last,
    runs

bounds == <<first, leftLast, rightFirst, last>>
vars == <<maskSelect, maskOmit, percentile, size, input, output, pc, idx,
          store, first, leftLast, rightFirst, last, runs>>

Entry(i) == [val |-> input[i], pos |-> i]

Size(st) == st.end - st.begin
Buffer(st) == st.begin .. st.end - 1

(* The offset of slot s is compared as an unsigned number: a slot before   *)
(* the range counts as one far behind it.                                  *)
InFrontHalf(st, s) == st.begin <= s /\ s - st.begin < Size(st) \div 2

(* m_idxToIter.find, and insert: an index that is there keeps its iterator.*)
Known(st, i) == i \in DOMAIN st.iter

WithIterators(iter, new) ==
    [i \in DOMAIN iter \cup DOMAIN new |-> IF i \in DOMAIN iter THEN iter[i] ELSE new[i]]

EnteredInFront(st, i) ==
    [cells |-> [st.cells EXCEPT ![st.begin - 1] = Entry(i)],
     begin |-> st.begin - 1, end |-> st.end,
     iter |-> WithIterators(st.iter, [j \in {i} |-> st.begin - 1])]

(* The initial fill, one position after the other pushed to the front.     *)
SlotFilled(st, i) == st.begin - 1 - (i - RightStartOffset)

Filled(st) ==
    [cells |-> [c \in Slots |->
                  IF c \in SlotFilled(st, FillEnd) .. st.begin - 1
                  THEN Entry(RightStartOffset + (st.begin - 1 - c)) ELSE st.cells[c]],
     begin |-> SlotFilled(st, FillEnd), end |-> st.end,
     iter |-> WithIterators(st.iter,
                            [i \in RightStartOffset .. FillEnd |-> SlotFilled(st, i)])]

(* The entry before slot s, pushing the shorter side one slot outwards.    *)
EnteredBefore(st, s, i) ==
    IF s = st.begin THEN EnteredInFront(st, i)
    ELSE IF InFrontHalf(st, s)
    THEN [cells |-> [c \in Slots |-> IF c = s - 1 THEN Entry(i)
                                    ELSE IF c \in st.begin - 1 .. s - 2 THEN st.cells[c + 1]
                                    ELSE st.cells[c]],
          begin |-> st.begin - 1, end |-> st.end,
          iter |-> WithIterators(st.iter, [j \in {i} |-> s - 1])]
    ELSE [cells |-> [c \in Slots |-> IF c = s THEN Entry(i)
                                    ELSE IF c \in s + 1 .. st.end \/ c = st.end
                                    THEN st.cells[c - 1]
                                    ELSE st.cells[c]],
          begin |-> st.begin, end |-> st.end + 1,
          iter |-> WithIterators(st.iter, [j \in {i} |-> s])]

(* The shorter side of the range closes the gap at slot s.                 *)
ErasedAt(st, s) ==
    IF InFrontHalf(st, s)
    THEN [cells |-> [c \in Slots |-> IF c \in st.begin + 1 .. s
                                    THEN st.cells[c - 1] ELSE st.cells[c]],
          begin |-> st.begin + 1, end |-> st.end, iter |-> st.iter]
    ELSE [cells |-> [c \in Slots |-> IF c \in s .. st.end - 2
                                    THEN st.cells[c + 1] ELSE st.cells[c]],
          begin |-> st.begin, end |-> st.end - 1, iter |-> st.iter]

(* Mutant: the index stays in the map.                                     *)
EvictedKeepsIndex(st, i) == ErasedAt(st, st.iter[i])

(* Mutant: the index leaves the map and the entry stays in the deque.      *)
EvictedKeepsEntry(st, i) ==
    [st EXCEPT !.iter = [j \in DOMAIN st.iter \ {i} |-> st.iter[j]]]

Evicted(st, i) ==
    LET erased == ErasedAt(st, st.iter[i])
    IN  [erased EXCEPT !.iter = [j \in DOMAIN st.iter \ {i} |-> st.iter[j]]]

-----------------------------------------------------------------------------
Init ==
    /\ RunInit
    /\ store = [cells |-> [c \in Slots |-> Unread], begin |-> 0, end |-> 0,
                iter |-> <<>>]
    /\ first = Unread /\ leftLast = Unread /\ rightFirst = Unread /\ last = Unread
    /\ runs = 0

Run ==
    /\ runs < MaxRuns
    /\ CallRun
    /\ runs' = runs + 1
    /\ UNCHANGED <<store, bounds>>

TooWide == ReturnEarly /\ UNCHANGED <<store, bounds, runs>>

(* clear() empties the deque, and not the map.                             *)
Enter ==
    /\ EnterLoop
    /\ store' = [store EXCEPT !.end = store.begin]
    /\ UNCHANGED <<bounds, runs>>

(* Mutant: the initial fill forgets one of the bounds.                     *)
FillRightUnbounded ==
    /\ Slid
    /\ idx = 0
    /\ store' = Filled(store)
    /\ first' = RightStartOffset
    /\ rightFirst' = RightStartOffset
    /\ leftLast' = RightStartOffset - 1
    /\ UNCHANGED <<last, runs>>

FillRight ==
    /\ Slid
    /\ idx = 0
    /\ store' = Filled(store)
    /\ first' = RightStartOffset
    /\ rightFirst' = RightStartOffset
    /\ leftLast' = RightStartOffset - 1
    /\ last' = FillEnd
    /\ UNCHANGED runs

EvictsLeft ==
    /\ idx + LeftStartOffset > 0
    /\ leftLast >= first /\ leftLast <= last
    /\ Known(store, first)

LeftEvicted == IF EvictsLeft THEN Evicted(store, first) ELSE store
FirstEvicted == IF EvictsLeft THEN first + 1 ELSE first

EvictsRight == rightFirst <= last /\ Known(LeftEvicted, rightFirst)

BothEvicted == IF EvictsRight THEN Evicted(LeftEvicted, rightFirst) ELSE LeftEvicted
RightFirstEvicted == IF EvictsRight THEN rightFirst + 1 ELSE rightFirst

EntersLeft == ~InTheEye /\ idx + LeftEndOffset >= 0

(* Without an entry to insert before, the new one is dropped.              *)
EntersBeforeRight ==
    EntersLeft /\ leftLast < last /\ Known(BothEvicted, RightFirstEvicted)

EntersInFront == EntersLeft /\ leftLast = last

LeftEntered ==
    LET new == idx + LeftEndOffset
    IN  IF EntersBeforeRight
        THEN EnteredBefore(BothEvicted, BothEvicted.iter[RightFirstEvicted], new)
        ELSE IF EntersInFront THEN EnteredInFront(BothEvicted, new)
        ELSE BothEvicted

EntersRight == ~InTheEye /\ idx + RightEndOffset < size

SlideWindow ==
    /\ Slid
    /\ idx > 0
    /\ leftLast' = IF EntersBeforeRight \/ EntersInFront
                   THEN idx + LeftEndOffset ELSE leftLast
    /\ first' = IF EntersBeforeRight /\ FirstEvicted > idx + LeftEndOffset
                THEN idx + LeftEndOffset ELSE FirstEvicted
    /\ rightFirst' = RightFirstEvicted
    /\ last' = IF EntersRight THEN idx + RightEndOffset ELSE last
    /\ store' = IF EntersRight
                THEN EnteredInFront(LeftEntered, idx + RightEndOffset)
                ELSE LeftEntered
    /\ UNCHANGED runs

(* The orders in which nth_element may leave the entries of the deque.     *)
NoMore(a, b) == a = Unread \/ b = Unread \/ a.val <= b.val

Rearranged(st, nth) ==
    {[st EXCEPT !.cells = [c \in Slots |->
                    IF c \in Buffer(st) THEN @[f[c]] ELSE @[c]]] :
        f \in {p \in Bijection(Buffer(st), Buffer(st)) : \A c \in Buffer(st) :
                  /\ c < nth => NoMore(st.cells[p[c]], st.cells[p[nth]])
                  /\ c > nth => NoMore(st.cells[p[nth]], st.cells[p[c]])}}

(* A slot that was never written may hold any number.                      *)
Reduce ==
    /\ pc = "reduce"
    /\ store.begin # store.end
    /\ LET nth == store.begin + NthIndex(percentile, Size(store))
       IN  /\ store' \in Rearranged(store, nth)
           /\ \E v \in Values :
                 /\ store'.cells[nth] # Unread => v = store'.cells[nth].val
                 /\ output' = [output EXCEPT ![idx] = v]
    /\ pc' = "advance"
    /\ UNCHANGED <<config, args, idx, bounds, runs>>

Scratch == [j \in 1 .. Size(store) |-> store.cells[store.begin + j - 1]]

NothingSelected == SkipReduce(Scratch) /\ UNCHANGED <<store, bounds, runs>>

Advance == AdvanceIdx /\ UNCHANGED <<store, bounds, runs>>

Step == \/ TooWide \/ Enter \/ FillRight \/ SlideWindow
        \/ Reduce \/ NothingSelected \/ Advance

Next == Run \/ Step

Spec == Init /\ [][Next]_vars

-----------------------------------------------------------------------------
(* Every variable holds a value of its type, the bounds are read only      *)
(* after the first cell of a run set them, and no erasure takes an entry   *)
(* from an empty deque, in later runs either.                              *)
TypeOK ==
    /\ RunTypeOK
    /\ store.cells \in [Slots -> {Unread} \cup [val : Values, pos : Nat]]
    /\ store.begin \in Slots /\ store.end \in Int
    /\ store.begin <= store.end
    /\ \A i \in DOMAIN store.iter : i \in Nat /\ store.iter[i] \in Slots
    /\ \A b \in {first, leftLast, rightFirst, last} : b \in Nat \cup {Unread}
    /\ pc \in {"reduce", "advance"} \/ (pc = "slide" /\ idx > 0) =>
          Unread \notin {first, leftLast, rightFirst, last}

WindowAt(i) == Window(maskSelect, maskOmit, size, i)

(* A first run, while the right block of ones is on the array and more     *)
(* than one cell wide.  Later, and in a block of one cell, a new entry of  *)
(* the left half finds no entry to be inserted before and is dropped.      *)
RightBlockKnown ==
    pc = "reduce" /\ runs = 1 /\ maskSelect > 1 /\ idx + maskOmit < size

(* While that lasts the map has an iterator for each position the mask     *)
(* selects and for no other.  The entries those iterators lead to are      *)
(* seldom the ones of their positions.                                     *)
FirstRunKeys == RightBlockKnown => DOMAIN store.iter = WindowAt(idx)

(* Whatever slot an iterator names, erasing through it takes one entry     *)
(* away.  A first run reduces one entry per index in the map, and none     *)
(* that was never written, though iterators come to name slots outside of  *)
(* the deque: the rank is computed from the right number.  In a later run  *)
(* the deque never has more entries than the map.                          *)
OneEntryPerIndex ==
    pc = "reduce" =>
        /\ Size(store) <= Cardinality(DOMAIN store.iter)
        /\ runs = 1 => /\ Size(store) = Cardinality(DOMAIN store.iter)
                       /\ Unread \notin ToSet(Scratch)
=============================================================================

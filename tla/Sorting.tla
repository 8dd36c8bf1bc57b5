------------------------------ MODULE Sorting -------------------------------
(***************************************************************************)
(* heap.cpp and merge_sort.cpp as operators.  A vector is a function of    *)
(* 0 .. n - 1.  What calls itself is a recursive function: its body is an  *)
(* operator of its own, whose first argument is that function.             *)
(***************************************************************************)
EXTENDS Integers, FiniteSets, Sequences, SequencesExt

Size(v) == Cardinality(DOMAIN v)

Left(i) == 2 * i + 1
Right(i) == 2 * i + 2
Parent(i) == IF i = 0 THEN 0 ELSE (i - 1) \div 2

(* Entries i and j exchanged if the one at j is greater.                   *)
Raised(v, i, j) ==
    IF v[j] > v[i] THEN [v EXCEPT ![i] = v[j], ![j] = v[i]] ELSE v

(* Mutant: only the subtree on the right is repaired.                      *)
HeapifiedRight(h, v, top) ==
    IF Left(top) >= Size(v) THEN v
    ELSE IF Right(top) >= Size(v) THEN Raised(v, top, Left(top))
    ELSE h[<<Raised(Raised(v, top, Left(top)), top, Right(top)), Right(top)>>]

(* Both children are raised and both subtrees repaired, moved or not.      *)
Heapified(h, v, top) ==
    IF Left(top) >= Size(v) THEN v
    ELSE IF Right(top) >= Size(v) THEN Raised(v, top, Left(top))
    ELSE LET w == Raised(Raised(v, top, Left(top)), top, Right(top))
         IN  h[<<h[<<w, Left(top)>>], Right(top)>>]

Heapify(v, top) ==
    LET h[p \in [DOMAIN v -> Int] \X Nat] == Heapified(h, p[1], p[2])
    IN  h[<<v, top>>]

(* The loop of main: i from n / 2 down to 0.                               *)
MakeHeap(v) ==
    LET from == Size(v) \div 2
        built[k \in 0 .. from + 1] ==
            IF k = 0 THEN v ELSE Heapify(built[k - 1], from - (k - 1))
    IN  built[from + 1]

-----------------------------------------------------------------------------
(* Mutant: the first piece is copied before the second.                    *)
FirstPieceFirst(a, i, m, j, e) == i < m

(* Whether the next entry of b is the head of a[i .. m) and not the one of *)
(* a[j .. e).                                                              *)
FirstPiece(a, i, m, j, e) == i < m /\ (j >= e \/ a[i] > a[j])

(* The loop over k as a function of k: i and j before that round.          *)
Advanced(a, h, m, e) ==
    IF FirstPiece(a, h[1], m, h[2], e) THEN <<h[1] + 1, h[2]>>
    ELSE <<h[1], h[2] + 1>>

Heads(a, start, middle, end) ==
    LET heads[k \in 0 .. end - start] ==
            IF k = 0 THEN <<start, middle>>
            ELSE Advanced(a, heads[k - 1], middle, end)
    IN  heads

Chosen(a, h, m, e) == IF FirstPiece(a, h[1], m, h[2], e) THEN h[1] ELSE h[2]

(* merge_two_pieces_internal: b, then a, hold the merged pieces.           *)
MergePieces(p, start, middle, end) ==
    LET heads == Heads(p.a, start, middle, end)
        Put(v) == [l \in DOMAIN v |->
                      IF start <= l /\ l < end
                      THEN p.a[Chosen(p.a, heads[l - start], middle, end)]
                      ELSE v[l]]
    IN  [a |-> Put(p.a), b |-> Put(p.b)]

(* merge_sort_internal.                                                    *)
RangeSorted(s, p, start, end) ==
    LET middle == (start + end) \div 2
    IN  IF end - start < 2 THEN p
        ELSE MergePieces(s[<<s[<<p, start, middle>>], middle, end>>],
                         start, middle, end)

MergeSortRange(p, start, end) ==
    LET V == [DOMAIN p.a -> Int]
        s[q \in [a : V, b : V] \X (0 .. Size(p.a)) \X (0 .. Size(p.a))] ==
            RangeSorted(s, q[1], q[2], q[3])
    IN  s[<<p, start, end>>]

(* main prints b, which starts as zeros.                                   *)
MergeSort(v) ==
    MergeSortRange([a |-> v, b |-> [l \in DOMAIN v |-> 0]], 0, Size(v))
=============================================================================

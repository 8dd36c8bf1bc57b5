--------------------------- MODULE CfarRunProofs ----------------------------
(***************************************************************************)
(* What the proofs about the versions of OrderedStatCfarImpl share.  First *)
(* why asking nth_element for entry floor(p * n) - 1 (or 0) of the window  *)
(* returns what the contract asks for, for windows and values of any size; *)
(* then, for any buffer that holds the window whenever it is reduced, that *)
(* the loop of run() does what the contract promises.                      *)
(***************************************************************************)
EXTENDS CfarRun, FiniteSetTheorems, SequenceTheorems, TLAPS

LEMMA ImageCardinality ==
    ASSUME NEW f, NEW A, IsFiniteSet(A), NEW B, B = {f[x] : x \in A},
           \A x, y \in A : f[x] = f[y] => x = y
    PROVE  IsFiniteSet(B) /\ Cardinality(B) = Cardinality(A)
<1> DEFINE g == [x \in A |-> f[x]]
<1>1. g \in Bijection(A, B)
  BY DEF Bijection, Injection, Surjection, IsInjective
<1>2. ExistsBijection(A, B)
  BY <1>1 DEF ExistsBijection
<1> QED
  BY <1>2, FS_Bijection

(* A finite set has a subset of every size up to its own.                  *)
LEMMA SubsetOfSize ==
    ASSUME NEW U, IsFiniteSet(U), NEW n \in Nat, n <= Cardinality(U)
    PROVE  \E W \in SUBSET U : Cardinality(W) = n
<1>1. Cardinality(U) \in Nat /\ ExistsBijection(1 .. Cardinality(U), U)
  BY FS_CardinalityType
<1>2. PICK f : f \in Bijection(1 .. Cardinality(U), U)
  BY <1>1 DEF ExistsBijection
<1>3. /\ f \in [1 .. Cardinality(U) -> U]
      /\ \A x, y \in 1 .. Cardinality(U) : f[x] = f[y] => x = y
  BY <1>2 DEF Bijection, Injection, IsInjective
<1> DEFINE W == {f[x] : x \in 1 .. n}
<1>4. 1 .. n \subseteq 1 .. Cardinality(U)
  BY <1>1
<1>5. IsFiniteSet(1 .. n) /\ Cardinality(1 .. n) = n
  BY FS_Interval
<1>6. \A x, y \in 1 .. n : f[x] = f[y] => x = y
  BY <1>3, <1>4
<1>7. W \in SUBSET U /\ W = {f[x] : x \in 1 .. n}
  BY <1>3, <1>4
<1>8. Cardinality(W) = n
  <2> HIDE DEF W
  <2>1. Cardinality(W) = Cardinality(1 .. n)
    BY <1>5, <1>6, <1>7, ImageCardinality, ZenonT(30)
  <2> QED
    BY <1>5, <2>1
<1> QED
  BY <1>7, <1>8

(* Between a subset and a superset there is a set of every size between.   *)
LEMMA SetBetween ==
    ASSUME NEW V, IsFiniteSet(V), NEW L \in SUBSET V, NEW n \in Nat,
           Cardinality(L) <= n, n <= Cardinality(V)
    PROVE  \E T : L \subseteq T /\ T \subseteq V /\ Cardinality(T) = n
<1>1. /\ IsFiniteSet(L) /\ IsFiniteSet(V \ L)
      /\ Cardinality(L) \in Nat /\ Cardinality(V) \in Nat
      /\ Cardinality(V \ L) \in Nat
  BY FS_Subset, FS_CardinalityType
<1>2. Cardinality(V) = Cardinality(L) + Cardinality(V \ L)
  <2>1. V = L \cup (V \ L) /\ L \cap (V \ L) = {}
    OBVIOUS
  <2> QED
    BY <1>1, <2>1, FS_Union, FS_EmptySet
<1>3. n - Cardinality(L) \in Nat /\ n - Cardinality(L) <= Cardinality(V \ L)
  BY <1>1, <1>2
<1>4. PICK W \in SUBSET (V \ L) : Cardinality(W) = n - Cardinality(L)
  BY <1>1, <1>3, SubsetOfSize
<1>5. IsFiniteSet(W) /\ L \cap W = {}
  BY <1>1, <1>4, FS_Subset
<1>6. Cardinality(L \cup W) = Cardinality(L) + Cardinality(W) - Cardinality(L \cap W)
  BY <1>1, <1>5, FS_Union
<1>7. Cardinality(L \cup W) = n
  BY <1>1, <1>4, <1>5, <1>6, FS_EmptySet
<1> QED
  BY <1>4, <1>7

(* nth_element's postcondition at the index the code asks for gives the    *)
(* partition the contract asks for.                                        *)
THEOREM NthElementIsSelected ==
    ASSUME NEW S, IsFiniteSet(S), NEW a, \A q \in S : a[q] \in Int,
           NEW m \in Nat, NEW v,
           IsNthElement(a, S, IF m > 0 THEN m - 1 ELSE 0, v)
    PROVE  IsSelected(a, S, m, v)
<1> DEFINE Lo == {d \in S : a[d] < v}
           Le == {d \in S : a[d] <= v}
           n == IF m > 0 THEN m - 1 ELSE 0
<1>1. v \in Int /\ \E q \in S : a[q] = v
  BY DEF IsNthElement
<1>2. Lo \in SUBSET Le /\ Le \in SUBSET S
  BY <1>1
<1>3. /\ IsFiniteSet(Lo) /\ IsFiniteSet(Le)
      /\ Cardinality(Lo) \in Nat /\ Cardinality(Le) \in Nat
  BY <1>2, FS_Subset, FS_CardinalityType
<1>4. Cardinality(Lo) <= n /\ n < Cardinality(Le)
  BY DEF IsNthElement
<1>5. Cardinality(Lo) <= m /\ m <= Cardinality(Le)
  BY <1>3, <1>4
<1>6. PICK T : Lo \subseteq T /\ T \subseteq Le /\ Cardinality(T) = m
  <2> HIDE DEF Lo, Le
  <2> QED
    BY <1>2, <1>3, <1>5, SetBetween
<1>7. /\ T \in SUBSET S
      /\ \A q \in T : a[q] <= v
      /\ \A q \in S \ T : a[q] >= v
  BY <1>1, <1>2, <1>6
<1> QED
  BY <1>1, <1>6, <1>7 DEF IsSelected

(* The postcondition does not depend on how the range's slots are named.   *)
THEOREM NthElementRenamed ==
    ASSUME NEW f, NEW D, IsFiniteSet(D), \A x, y \in D : f[x] = f[y] => x = y,
           NEW a, NEW n, NEW v,
           IsNthElement([d \in D |-> a[f[d]]], D, n, v)
    PROVE  IsNthElement(a, {f[d] : d \in D}, n, v)
<1> DEFINE S == {f[d] : d \in D}
           DLo == {d \in D : a[f[d]] < v}
           DLe == {d \in D : a[f[d]] <= v}
<1>1. /\ {q \in S : a[q] < v} = {f[d] : d \in DLo}
      /\ {q \in S : a[q] <= v} = {f[d] : d \in DLe}
  OBVIOUS
<1>2. IsFiniteSet(DLo) /\ IsFiniteSet(DLe)
  BY FS_Subset
<1>3. /\ Cardinality({f[d] : d \in DLo}) = Cardinality(DLo)
      /\ Cardinality({f[d] : d \in DLe}) = Cardinality(DLe)
  <2>1. /\ \A x, y \in DLo : f[x] = f[y] => x = y
        /\ \A x, y \in DLe : f[x] = f[y] => x = y
    OBVIOUS
  <2> HIDE DEF DLo, DLe
  <2> QED
    BY <1>2, <2>1, ImageCardinality
<1>4. /\ {d \in D : [e \in D |-> a[f[e]]][d] < v} = DLo
      /\ {d \in D : [e \in D |-> a[f[e]]][d] <= v} = DLe
  OBVIOUS
<1>5. /\ \E d \in D : a[f[d]] = v
      /\ Cardinality(DLo) <= n /\ n < Cardinality(DLe)
  BY <1>4 DEF IsNthElement
<1> QED
  BY <1>1, <1>3, <1>5 DEF IsNthElement

(* The product of a percentile and a size, rounded down, is a natural.     *)
LEMMA FloorIsNat ==
    ASSUME NEW p \in [num : Nat, den : Nat \ {0}], NEW n \in Nat
    PROVE  FloorOf(p, n) \in Nat
<1>1. \A x \in Nat, d \in Nat \ {0} : x \div d \in Nat
  OBVIOUS
<1>2. p.num * n \in Nat
  OBVIOUS
<1> QED
  BY <1>1, <1>2 DEF FloorOf
-----------------------------------------------------------------------------
(* The oldest and the newest position of the two halves around cell i.     *)
LeftLo(i) == IF i - maskOmit - maskSelect + 1 > 0
             THEN i - maskOmit - maskSelect + 1 ELSE 0
LeftHi(i) == i - maskOmit
RightLo(i) == i + maskOmit
RightHi(i) == IF i + maskOmit + maskSelect - 1 < size - 1
              THEN i + maskOmit + maskSelect - 1 ELSE size - 1

(* The offsets without the division.                                       *)
LEMMA Offsets ==
    ASSUME maskOmit \in Nat \ {0}, maskSelect \in Nat \ {0}
    PROVE  /\ LeftStartOffset = 1 - maskSelect - maskOmit
           /\ LeftEndOffset = 0 - maskOmit
           /\ RightStartOffset = maskOmit
           /\ RightEndOffset = maskOmit + maskSelect - 1
<1>1. (2 * maskOmit - 1) \div 2 = maskOmit - 1
  OBVIOUS
<1> QED
  BY <1>1 DEF LeftStartOffset, LeftEndOffset, RightStartOffset, RightEndOffset

(* The window is two intervals.                                            *)
LEMMA Halves ==
    ASSUME maskSelect \in Nat \ {0}, maskOmit \in Nat \ {0}, size \in Nat,
           NEW i \in Nat, i < size
    PROVE  /\ LeftWindow(maskSelect, maskOmit, size, i) = LeftLo(i) .. LeftHi(i)
           /\ RightWindow(maskSelect, maskOmit, size, i) = RightLo(i) .. RightHi(i)
           /\ Window(maskSelect, maskOmit, size, i)
                = (LeftLo(i) .. LeftHi(i)) \cup (RightLo(i) .. RightHi(i))
<1>1. LeftWindow(maskSelect, maskOmit, size, i) = LeftLo(i) .. LeftHi(i)
  BY DEF LeftWindow, LeftHi, LeftLo
<1>2. RightWindow(maskSelect, maskOmit, size, i) = RightLo(i) .. RightHi(i)
  BY DEF RightWindow, RightHi, RightLo
<1> QED
  BY <1>1, <1>2 DEF Window

LeftHalf(i) == LeftLo(i) .. LeftHi(i)
RightHalf(i) == RightLo(i) .. RightHi(i)

(* The numbers a slide from cell idx - 1 to cell idx computes with.        *)
LEMMA SlideNumbers ==
    ASSUME RunTypeOK, maskOmit < size, 0 < idx, idx < size
    PROVE  /\ maskSelect \in Nat \ {0} /\ maskOmit \in Nat \ {0}
           /\ size \in Nat /\ idx \in Nat /\ maskOmit < size /\ 0 < idx /\ idx < size
           /\ LeftStartOffset = 1 - maskSelect - maskOmit
           /\ LeftEndOffset = 0 - maskOmit
           /\ RightStartOffset = maskOmit
           /\ RightEndOffset = maskOmit + maskSelect - 1
           /\ LeftHi(idx) = idx - maskOmit /\ LeftHi(idx - 1) = idx - maskOmit - 1
           /\ RightLo(idx) = idx + maskOmit /\ RightLo(idx - 1) = idx + maskOmit - 1
           /\ LeftLo(idx) \in Nat /\ LeftLo(idx - 1) \in Nat
           /\ RightHi(idx) \in Int /\ RightHi(idx - 1) \in Int
<1>1. /\ maskSelect \in Nat \ {0} /\ maskOmit \in Nat \ {0}
      /\ size \in Nat /\ idx \in Nat /\ maskOmit < size /\ 0 < idx /\ idx < size
  BY DEF RunTypeOK
<1>2. /\ LeftHi(idx) = idx - maskOmit /\ LeftHi(idx - 1) = idx - maskOmit - 1
      /\ RightLo(idx) = idx + maskOmit /\ RightLo(idx - 1) = idx + maskOmit - 1
      /\ LeftLo(idx) \in Nat /\ LeftLo(idx - 1) \in Nat
      /\ RightHi(idx) \in Int /\ RightHi(idx - 1) \in Int
  BY <1>1 DEF LeftHi, LeftLo, RightHi, RightLo
<1> QED
  BY <1>1, <1>2, Offsets

(* The initial fill is the right half of the window of cell 0.             *)
LEMMA FillNumbers ==
    ASSUME RunTypeOK, maskOmit < size
    PROVE  /\ maskSelect \in Nat \ {0} /\ maskOmit \in Nat \ {0} /\ size \in Nat
           /\ RightStartOffset = maskOmit /\ FillEnd = RightHi(0)
           /\ RightLo(0) = maskOmit /\ RightHi(0) \in Nat /\ RightHi(0) >= maskOmit
           /\ LeftHi(0) < 0 /\ LeftLo(0) \in Nat /\ LeftHi(0) \in Int
           /\ LeftHalf(0) \cup RightHalf(0) = maskOmit .. RightHi(0)
<1>1. /\ maskSelect \in Nat \ {0} /\ maskOmit \in Nat \ {0} /\ size \in Nat
      /\ RightStartOffset = maskOmit /\ RightEndOffset = maskOmit + maskSelect - 1
  BY Offsets DEF RunTypeOK
<1>2. /\ FillEnd = RightHi(0) /\ RightLo(0) = maskOmit /\ RightHi(0) \in Nat
      /\ RightHi(0) >= maskOmit
      /\ LeftHi(0) < 0 /\ LeftLo(0) \in Nat /\ LeftHi(0) \in Int
  BY <1>1 DEF FillEnd, RightHi, RightLo, LeftHi, LeftLo
<1> QED
  BY <1>1, <1>2 DEF LeftHalf, RightHalf

-----------------------------------------------------------------------------
(* A sequence that holds each member of S once, in whatever order.         *)
Lists(d, S) == d \in Seq(Nat) /\ ToSet(d) = S /\ IsInjective(d)

LEMMA ListsMeans ==
    ASSUME NEW d \in Seq(Nat), NEW S
    PROVE  Lists(d, S) <=> /\ \A j \in 1 .. Len(d) : d[j] \in S
                           /\ \A x \in S : \E j \in 1 .. Len(d) : d[j] = x
                           /\ \A j, k \in 1 .. Len(d) : d[j] = d[k] => j = k
<1>1. DOMAIN d = 1 .. Len(d)
  OBVIOUS
<1>2. ToSet(d) = {d[j] : j \in 1 .. Len(d)}
  BY <1>1 DEF ToSet
<1>3. IsInjective(d) <=> \A j, k \in 1 .. Len(d) : d[j] = d[k] => j = k
  BY <1>1 DEF IsInjective
<1>4. ToSet(d) = S <=> /\ \A j \in 1 .. Len(d) : d[j] \in S
                       /\ \A x \in S : \E j \in 1 .. Len(d) : d[j] = x
  BY <1>2
<1> QED
  BY <1>3, <1>4 DEF Lists

LEMMA MakesLists ==
    ASSUME NEW d \in Seq(Nat), NEW S, NEW n, n = Len(d),
           \A j \in 1 .. n : d[j] \in S,
           \A x \in S : \E j \in 1 .. n : d[j] = x,
           \A j, k \in 1 .. n : d[j] = d[k] => j = k
    PROVE  Lists(d, S)
BY ListsMeans

LEMMA ListsJoined ==
    ASSUME NEW f, NEW g, NEW A, NEW B, Lists(f, A), Lists(g, B), A \cap B = {}
    PROVE  Lists(f \o g, A \cup B)
<1> DEFINE e == f \o g
           m == Len(f)
           n == Len(g)
<1>1. f \in Seq(Nat) /\ g \in Seq(Nat)
  BY DEF Lists
<1>2. /\ e \in Seq(Nat) /\ m \in Nat /\ n \in Nat /\ Len(e) = m + n
      /\ \A j \in 1 .. m : e[j] = f[j]
      /\ \A j \in 1 .. n : e[m + j] = g[j]
  BY <1>1, ConcatProperties
<1>3. /\ \A j \in 1 .. m : f[j] \in A
      /\ \A x \in A : \E j \in 1 .. m : f[j] = x
      /\ \A j, k \in 1 .. m : f[j] = f[k] => j = k
      /\ \A j \in 1 .. n : g[j] \in B
      /\ \A x \in B : \E j \in 1 .. n : g[j] = x
      /\ \A j, k \in 1 .. n : g[j] = g[k] => j = k
  BY <1>1, ListsMeans
<1> HIDE DEF e, m, n
<1>4. ASSUME NEW j \in 1 .. m + n
      PROVE  \/ j \in 1 .. m /\ e[j] = f[j]
             \/ j - m \in 1 .. n /\ e[j] = g[j - m]
  <2>1. CASE j <= m
    BY <1>2, <2>1
  <2>2. CASE j > m
    <3>1. j - m \in 1 .. n /\ m + (j - m) = j
      BY <1>2, <2>2
    <3> QED
      BY <1>2, <3>1
  <2> QED
    BY <1>2, <2>1, <2>2
<1>5. \A j \in 1 .. m + n : e[j] \in A \cup B
  BY <1>3, <1>4
<1>6. ASSUME NEW x \in A \cup B PROVE \E j \in 1 .. m + n : e[j] = x
  <2>1. CASE x \in A
    <3>1. PICK j \in 1 .. m : f[j] = x
      BY <1>3, <2>1
    <3>2. j \in 1 .. m + n /\ e[j] = x
      BY <1>2, <3>1
    <3> QED
      BY <3>2
  <2>2. CASE x \in B
    <3>1. PICK j \in 1 .. n : g[j] = x
      BY <1>3, <2>2
    <3>2. m + j \in 1 .. m + n /\ e[m + j] = x
      BY <1>2, <3>1
    <3> QED
      BY <3>2
  <2> QED
    BY <2>1, <2>2
<1>7. ASSUME NEW j \in 1 .. m + n, NEW k \in 1 .. m + n, e[j] = e[k] PROVE j = k
  <2>1. CASE j \in 1 .. m /\ e[j] = f[j] /\ k \in 1 .. m /\ e[k] = f[k]
    BY <1>3, <1>7, <2>1
  <2>2. CASE j - m \in 1 .. n /\ e[j] = g[j - m] /\ k - m \in 1 .. n /\ e[k] = g[k - m]
    <3>1. j - m = k - m
      BY <1>3, <1>7, <2>2
    <3> QED
      BY <1>2, <3>1
  <2>3. CASE e[j] \in A /\ e[k] \in B
    BY <1>7, <2>3
  <2>4. CASE e[j] \in B /\ e[k] \in A
    BY <1>7, <2>4
  <2> QED
    BY <1>3, <1>4, <2>1, <2>2, <2>3, <2>4
<1> QED
  <2>1. e \in Seq(Nat) /\ Len(e) = m + n
    BY <1>2
  <2>2. Lists(e, A \cup B)
    BY <1>5, <1>6, <1>7, <2>1, ListsMeans
  <2> QED
    BY <2>2 DEF e

LEMMA ListsSplit ==
    ASSUME NEW d, NEW S, Lists(d, S), NEW n \in 0 .. Len(d)
    PROVE  \E A \in SUBSET S : /\ Lists(SubSeq(d, 1, n), A)
                               /\ Lists(SubSeq(d, n + 1, Len(d)), S \ A)
<1> DEFINE f == SubSeq(d, 1, n)
           g == SubSeq(d, n + 1, Len(d))
<1>1. d \in Seq(Nat) /\ Len(d) \in Nat
  BY DEF Lists
<1>2. /\ \A j \in 1 .. Len(d) : d[j] \in S
      /\ \A x \in S : \E j \in 1 .. Len(d) : d[j] = x
      /\ \A j, k \in 1 .. Len(d) : d[j] = d[k] => j = k
  BY <1>1, ListsMeans
<1>3. \A j \in 1 .. Len(d) : d[j] \in Nat
  BY <1>1
<1>4. f \in Seq(Nat) /\ Len(f) = n /\ \A j \in 1 .. n : f[j] = d[j]
  BY <1>1, <1>3
<1>5. /\ g \in Seq(Nat) /\ Len(g) = Len(d) - n
      /\ \A j \in 1 .. Len(d) - n : g[j] = d[n + j]
  BY <1>1, <1>3
<1> DEFINE A == {d[j] : j \in 1 .. n}
           B == S \ A
<1> HIDE DEF f, g
<1>6. Lists(f, A)
  <2>1. \A j \in 1 .. n : j \in 1 .. Len(d) /\ f[j] = d[j]
    BY <1>1, <1>4
  <2> DEFINE r == Len(f)
  <2>2. /\ \A j \in 1 .. r : f[j] \in A
        /\ \A x \in A : \E j \in 1 .. r : f[j] = x
        /\ \A j, k \in 1 .. r : f[j] = f[k] => j = k
        /\ f \in Seq(Nat) /\ r = Len(f)
    BY <1>2, <1>4, <2>1
  <2> HIDE DEF A, r
  <2> QED
    BY <2>2, MakesLists
<1>7. \A j \in 1 .. Len(d) - n : n + j \in 1 .. Len(d) /\ n + j \notin 1 .. n /\ j \in Int
  BY <1>1
<1>8. \A j \in 1 .. Len(d) - n : g[j] \in S \ A
  <2>1. SUFFICES ASSUME NEW j \in 1 .. Len(d) - n, NEW k \in 1 .. n, d[k] = d[n + j]
                 PROVE  FALSE
    BY <1>2, <1>5, <1>7
  <2>2. k \in 1 .. Len(d)
    BY <1>1
  <2> QED
    BY <1>2, <1>7, <2>1, <2>2
<1>9. ASSUME NEW x \in S \ A PROVE \E j \in 1 .. Len(d) - n : g[j] = x
  <2>1. PICK j \in 1 .. Len(d) : d[j] = x
    BY <1>2
  <2>2. j \notin 1 .. n
    BY <2>1
  <2>3. j - n \in 1 .. Len(d) - n /\ n + (j - n) = j
    BY <1>1, <2>2
  <2> QED
    BY <1>5, <2>1, <2>3
<1>10. ASSUME NEW j \in 1 .. Len(d) - n, NEW k \in 1 .. Len(d) - n, g[j] = g[k]
       PROVE  j = k
  <2>1. d[n + j] = d[n + k]
    BY <1>5, <1>10
  <2>2. n + j = n + k
    BY <1>2, <1>7, <2>1
  <2> QED
    BY <1>7, <2>2
<1>11. Lists(g, S \ A)
  <2> DEFINE r == Len(d) - n
  <2>1. /\ \A j \in 1 .. r : g[j] \in B
        /\ \A x \in B : \E j \in 1 .. r : g[j] = x
        /\ \A j, k \in 1 .. r : g[j] = g[k] => j = k
        /\ g \in Seq(Nat) /\ r = Len(g)
    BY <1>5, <1>8, <1>9, <1>10
  <2> HIDE DEF B, r
  <2>2. Lists(g, B)
    BY <2>1, MakesLists
  <2> QED
    BY <2>2 DEF B
<1>12. A \in SUBSET S
  BY <1>1, <1>2
<1> QED
  BY <1>6, <1>11, <1>12 DEF f, g

LEMMA ListsOne == ASSUME NEW x \in Nat PROVE Lists(<<x>>, {x})
<1>1. <<x>> \in Seq(Nat) /\ DOMAIN <<x>> = {1} /\ <<x>>[1] = x
  OBVIOUS
<1>2. ToSet(<<x>>) = {x}
  BY <1>1 DEF ToSet
<1> QED
  BY <1>1, <1>2 DEF Lists, IsInjective

LEMMA ListsNone == Lists(<<>>, {})
<1>1. <<>> \in Seq(Nat) /\ DOMAIN <<>> = {}
  OBVIOUS
<1>2. ToSet(<<>>) = {}
  BY <1>1 DEF ToSet
<1> QED
  BY <1>1, <1>2 DEF Lists, IsInjective

(* The positions that filling a deque from one end puts there.             *)
LEMMA ListsDescending ==
    ASSUME NEW hi \in Int, NEW lo \in Nat
    PROVE  Lists(Descending(hi, lo), lo .. hi)
<1> DEFINE d == Descending(hi, lo)
           n == IF lo <= hi THEN hi - lo + 1 ELSE 0
<1>1. d = [j \in 1 .. n |-> hi + 1 - j]
  BY DEF Descending
<1>2. \A j \in 1 .. n : hi + 1 - j \in lo .. hi /\ j \in Int
  OBVIOUS
<1>3. d \in [1 .. n -> Nat] /\ n \in Nat
  BY <1>1, <1>2
<1>4. d \in Seq(Nat) /\ Len(d) = n /\ \A j \in 1 .. n : d[j] = hi + 1 - j
  BY <1>1, <1>3
<1>5. ASSUME NEW x \in lo .. hi PROVE \E j \in 1 .. n : d[j] = x
  <2>1. hi + 1 - x \in 1 .. n /\ hi + 1 - (hi + 1 - x) = x
    OBVIOUS
  <2> QED
    BY <1>4, <2>1
<1>6. \A j, k \in 1 .. n : d[j] = d[k] => j = k
  <2> HIDE DEF d, n
  <2> QED
    BY <1>2, <1>4
<1> DEFINE S == lo .. hi
<1>7. /\ \A j \in 1 .. n : d[j] \in S
      /\ \A x \in S : \E j \in 1 .. n : d[j] = x
  BY <1>2, <1>4, <1>5
<1> HIDE DEF d, n, S
<1>8. Lists(d, S)
  BY <1>4, <1>6, <1>7, MakesLists
<1> QED
  BY <1>8 DEF d, S

-----------------------------------------------------------------------------
(* The contract as the abstract specification names it is the contract.    *)
LEMMA SameContract ==
    /\ \A k, l, n, i : Abs!Window(k, l, n, i) = Window(k, l, n, i)
    /\ \A p, n : Abs!FloorOf(p, n) = FloorOf(p, n)
    /\ \A S : Abs!Cardinality(S) = Cardinality(S)
    /\ \A a, S, m, v : Abs!IsSelected(a, S, m, v) <=> IsSelected(a, S, m, v)
<1>1. \A k, l, n, i : Abs!Window(k, l, n, i) = Window(k, l, n, i)
  BY DEF Abs!Window, Abs!LeftWindow, Abs!RightWindow, Window, LeftWindow, RightWindow
<1>2. \A p, n : Abs!FloorOf(p, n) = FloorOf(p, n)
  BY DEF Abs!FloorOf, FloorOf
<1>3. \A S : Abs!Cardinality(S) = Cardinality(S)
  BY DEF Abs!Cardinality, Cardinality
<1>4. \A a, S, m, v : Abs!IsSelected(a, S, m, v) <=> IsSelected(a, S, m, v)
  BY <1>3 DEF Abs!IsSelected, IsSelected
<1> QED
  BY <1>1, <1>2, <1>3, <1>4

(* A buffer holds the window of the current cell, each position once.      *)
HoldsWindow(scratch) == Lists(scratch, Window(maskSelect, maskOmit, size, idx))

(* The value reduceSelectBuffer returns is one the contract permits.       *)
LEMMA ReducedIsPermitted ==
    ASSUME RunTypeOK, NEW scratch, HoldsWindow(scratch), NEW v, Reduced(scratch, v)
    PROVE  Abs!Permitted(idx, v)
<1> DEFINE S == Window(maskSelect, maskOmit, size, idx)
           m == FloorOf(percentile, Cardinality(S))
<1>1. /\ scratch \in Seq(Nat) /\ DOMAIN scratch = 1 .. Len(scratch)
      /\ S = {scratch[d] : d \in DOMAIN scratch}
      /\ \A x, y \in DOMAIN scratch : scratch[x] = scratch[y] => x = y
  BY DEF HoldsWindow, Lists, ToSet, IsInjective
<1>2. IsFiniteSet(DOMAIN scratch) /\ Cardinality(DOMAIN scratch) = Len(scratch)
  BY <1>1, FS_Interval
<1>3. IsFiniteSet(S) /\ Cardinality(S) = Len(scratch)
  <2> HIDE DEF S
  <2> QED
    BY <1>1, <1>2, ImageCardinality
<1>4. m \in Nat /\ NthIndex(percentile, Len(scratch)) = IF m > 0 THEN m - 1 ELSE 0
  <2>1. percentile \in [num : Nat, den : Nat \ {0}]
    BY PercentilesAssumption DEF RunTypeOK
  <2>2. Cardinality(S) \in Nat
    BY <1>1, <1>3
  <2>3. m \in Nat
    BY <2>1, <2>2, FloorIsNat
  <2> QED
    BY <1>3, <2>3 DEF NthIndex
<1>5. IsNthElement([d \in DOMAIN scratch |-> input[scratch[d]]], DOMAIN scratch,
                   NthIndex(percentile, Len(scratch)), v)
  BY DEF Reduced
<1>6. IsNthElement(input, S, IF m > 0 THEN m - 1 ELSE 0, v)
  <2> DEFINE D == DOMAIN scratch
             n == NthIndex(percentile, Len(scratch))
  <2> HIDE DEF S, m
  <2>1. IsFiniteSet(D) /\ \A x, y \in D : scratch[x] = scratch[y] => x = y
    BY <1>1, <1>2
  <2>2. IsNthElement([d \in D |-> input[scratch[d]]], D, n, v)
    BY <1>5
  <2>3. IsNthElement(input, {scratch[d] : d \in D}, n, v)
    <3> HIDE DEF D, n
    <3> QED
      BY <2>1, <2>2, NthElementRenamed
  <2> QED
    BY <1>1, <1>4, <2>3
<1>7. \A q \in S : input[q] \in Int
  <2>1. S \subseteq Positions
    BY DEF Window, LeftWindow, RightWindow, Positions
  <2> QED
    BY <2>1, ValuesAssumption DEF RunTypeOK
<1>8. IsSelected(input, S, m, v)
  <2> HIDE DEF S, m
  <2> QED
    BY <1>3, <1>4, <1>6, <1>7, NthElementIsSelected
<1> QED
  BY <1>8, SameContract DEF Abs!Permitted, Abs!WindowAt

(* The window of a cell is empty when the middle covers the whole array.   *)
LEMMA TooWideSelectsNothing ==
    ASSUME RunTypeOK, maskOmit >= size, NEW i \in Positions
    PROVE  Abs!WindowAt(i) = {}
<1>1. maskSelect \in Nat /\ maskOmit \in Nat /\ size \in Nat
  BY DEF RunTypeOK
<1>2. Window(maskSelect, maskOmit, size, i) = {}
  BY <1>1 DEF Window, LeftWindow, RightWindow, Positions
<1> QED
  BY <1>2, SameContract DEF Abs!WindowAt

(* Nothing is in the buffer only if nothing is in the window.              *)
LEMMA NothingToReduce ==
    ASSUME HoldsWindow(<<>>)
    PROVE  Abs!WindowAt(idx) = {}
<1>1. ToSet(<<>>) = {}
  BY DEF ToSet
<1> QED
  BY <1>1, SameContract DEF HoldsWindow, Lists, Abs!WindowAt
-----------------------------------------------------------------------------
(* What a step does to the variables all versions have, if scratch is what *)
(* it reduces.                                                             *)
RunStep(scratch) ==
    \/ CallRun \/ ReturnEarly \/ EnterLoop \/ Slid
    \/ WriteReduced(scratch) \/ SkipReduce(scratch) \/ AdvanceIdx
    \/ UNCHANGED runVars

(* The loop stays in the array.                                            *)
LoopInv == pc \in {"slide", "reduce", "advance"} => maskOmit < size /\ idx < size

(* What the output holds as the loop goes on: nothing yet from the current *)
(* cell on, and something in every earlier cell whose window is not empty. *)
OutputInv ==
    /\ pc = "enter" => \A i \in Positions : output[i] = Unset
    /\ pc \in {"slide", "reduce", "advance"} =>
          \A i \in Positions :
             /\ i > idx \/ (i = idx /\ pc # "advance") => output[i] = Unset
             /\ (i < idx \/ (i = idx /\ pc = "advance")) /\ Abs!WindowAt(i) # {} =>
                   output[i] # Unset

LEMMA RunTypes ==
    RunTypeOK => /\ size \in Nat /\ idx \in Nat /\ maskOmit \in Nat \ {0}
                 /\ maskSelect \in Nat \ {0} /\ Positions = 0 .. size - 1
                 /\ output \in [Positions -> Values \cup {Unset}]
BY DEF RunTypeOK, Positions

LEMMA RunInitInv == RunInit => RunTypeOK /\ LoopInv /\ OutputInv /\ Abs!Init
<1> SUFFICES ASSUME RunInit PROVE RunTypeOK /\ LoopInv /\ OutputInv /\ Abs!Init
  OBVIOUS
<1>1. input \in [Positions -> Values] /\ output \in [Positions -> Values \cup {Unset}]
  BY DEF RunInit, Positions
<1>2. RunTypeOK
  BY <1>1, ShapesAssumption DEF RunInit, RunTypeOK
<1> QED
  BY <1>2 DEF RunInit, LoopInv, OutputInv, Abs!Init

LEMMA RunTypeStep ==
    ASSUME RunTypeOK, NEW scratch, RunStep(scratch)
    PROVE  RunTypeOK'
<1> USE DEF RunTypeOK, config, args, Positions
<1>1. CASE CallRun
  BY <1>1, ShapesAssumption DEF CallRun
<1>2. CASE ReturnEarly
  BY <1>2 DEF ReturnEarly
<1>3. CASE EnterLoop
  BY <1>3 DEF EnterLoop
<1>4. CASE Slid
  BY <1>4 DEF Slid
<1>5. CASE WriteReduced(scratch)
  BY <1>5 DEF WriteReduced
<1>6. CASE SkipReduce(scratch)
  BY <1>6 DEF SkipReduce
<1>7. CASE AdvanceIdx
  BY <1>7 DEF AdvanceIdx
<1>8. CASE UNCHANGED runVars
  BY <1>8 DEF runVars
<1> QED
  BY <1>1, <1>2, <1>3, <1>4, <1>5, <1>6, <1>7, <1>8 DEF RunStep

LEMMA LoopStep ==
    ASSUME RunTypeOK, LoopInv, NEW scratch, RunStep(scratch)
    PROVE  LoopInv'
<1>t. /\ size \in Nat /\ idx \in Nat
      /\ maskOmit \in Nat \ {0} /\ maskSelect \in Nat \ {0}
  BY RunTypes
<1> USE DEF LoopInv, config, args
<1>1. CASE CallRun
  BY <1>1 DEF CallRun
<1>2. CASE ReturnEarly
  BY <1>2 DEF ReturnEarly
<1>3. CASE EnterLoop
  <2>1. maskOmit < size
    BY <1>3, <1>t, Offsets DEF EnterLoop
  <2> QED
    BY <1>3, <1>t, <2>1 DEF EnterLoop
<1>4. CASE Slid
  BY <1>4 DEF Slid
<1>5. CASE WriteReduced(scratch)
  BY <1>5 DEF WriteReduced
<1>6. CASE SkipReduce(scratch)
  BY <1>6 DEF SkipReduce
<1>7. CASE AdvanceIdx
  BY <1>7 DEF AdvanceIdx
<1>8. CASE UNCHANGED runVars
  BY <1>8 DEF runVars
<1> QED
  BY <1>1, <1>2, <1>3, <1>4, <1>5, <1>6, <1>7, <1>8 DEF RunStep

LEMMA OutputStep ==
    ASSUME RunTypeOK, OutputInv, NEW scratch, pc = "reduce" => HoldsWindow(scratch),
           RunStep(scratch)
    PROVE  OutputInv'
<1>t. /\ size \in Nat /\ idx \in Nat
      /\ output \in [Positions -> Values \cup {Unset}]
      /\ Positions = 0 .. size - 1
  BY RunTypes
<1> USE DEF config, args
<1>1. CASE CallRun
  <2>1. pc' = "enter" /\ \A i \in Positions' : output'[i] = Unset
    BY <1>1 DEF CallRun, Positions
  <2> QED
    BY <2>1 DEF OutputInv
<1>2. CASE ReturnEarly
  BY <1>2 DEF ReturnEarly, OutputInv
<1>3. CASE EnterLoop
  <2>1. /\ pc' = "slide" /\ idx' = 0 /\ Positions' = Positions
        /\ \A i \in Positions : output'[i] = Unset
    BY <1>3 DEF EnterLoop, OutputInv, Positions
  <2> QED
    BY <1>t, <2>1 DEF OutputInv
<1>4. CASE Slid
  <2>1. /\ pc = "slide" /\ pc' = "reduce" /\ UNCHANGED <<idx, output, Positions>>
        /\ \A i : Abs!WindowAt(i)' = Abs!WindowAt(i)
    BY <1>4 DEF Slid, Positions, Abs!WindowAt
  <2> QED
    BY <2>1 DEF OutputInv
<1>5. CASE WriteReduced(scratch)
  <2>1. /\ pc = "reduce" /\ pc' = "advance" /\ UNCHANGED <<idx, Positions>>
        /\ \A i : Abs!WindowAt(i)' = Abs!WindowAt(i)
    BY <1>5 DEF WriteReduced, Positions, Abs!WindowAt
  <2>2. PICK v \in Values : output' = [output EXCEPT ![idx] = v]
    BY <1>5 DEF WriteReduced
  <2>3. \A i \in Positions : output'[i] = IF i = idx THEN v ELSE output[i]
    BY <1>t, <2>2
  <2>4. v # Unset
    BY <2>2, ValuesAssumption
  <2> QED
    BY <1>t, <2>1, <2>3, <2>4 DEF OutputInv
<1>6. CASE SkipReduce(scratch)
  <2>1. /\ pc = "reduce" /\ pc' = "advance" /\ UNCHANGED <<idx, output, Positions>>
        /\ \A i : Abs!WindowAt(i)' = Abs!WindowAt(i)
        /\ Abs!WindowAt(idx) = {}
    BY <1>6, NothingToReduce DEF SkipReduce, Positions, Abs!WindowAt
  <2> QED
    BY <1>t, <2>1 DEF OutputInv
<1>7. CASE AdvanceIdx
  <2>1. /\ pc = "advance" /\ pc' \in {"slide", "idle"} /\ idx' = idx + 1
        /\ UNCHANGED <<output, Positions>>
        /\ \A i : Abs!WindowAt(i)' = Abs!WindowAt(i)
    BY <1>7 DEF AdvanceIdx, Positions, Abs!WindowAt
  <2>2. \A i \in Positions : (i >= idx + 1 <=> i > idx) /\ (i < idx + 1 <=> i <= idx)
    BY <1>t
  <2> QED
    BY <1>t, <2>1, <2>2 DEF OutputInv
<1>8. CASE UNCHANGED runVars
  BY <1>8 DEF runVars, OutputInv, Positions, Abs!WindowAt
<1> QED
  BY <1>1, <1>2, <1>3, <1>4, <1>5, <1>6, <1>7, <1>8 DEF RunStep

(* Each step of the loop is a step of the contract or a stutter.           *)
LEMMA ContractStep ==
    ASSUME RunTypeOK, LoopInv, OutputInv, NEW scratch, RunStep(scratch),
           pc = "reduce" => HoldsWindow(scratch)
    PROVE  [Abs!Next]_(Abs!vars)
<1> SUFFICES Abs!Next \/ UNCHANGED Abs!vars
  OBVIOUS
<1>t. /\ size \in Nat /\ idx \in Nat /\ maskOmit \in Nat \ {0}
      /\ maskSelect \in Nat \ {0} /\ Positions = 0 .. size - 1
  BY RunTypes
<1> USE DEF config, args
<1>1. CASE CallRun
  <2>1. Abs!Call
    BY <1>1 DEF CallRun, Abs!Call, Abs!config
  <2> QED
    BY <2>1 DEF Abs!Next
<1>2. CASE ReturnEarly
  <2>1. maskOmit >= size
    BY <1>2, <1>t, Offsets DEF ReturnEarly
  <2>2. \A i \in 0 .. size - 1 : Abs!WindowAt(i) = {}
    BY <1>t, <2>1, TooWideSelectsNothing
  <2>3. Abs!Return
    BY <1>2, <2>2 DEF ReturnEarly, Abs!Return, Abs!config
  <2> QED
    BY <2>3 DEF Abs!Next
<1>3. CASE EnterLoop \/ Slid \/ SkipReduce(scratch)
  BY <1>3 DEF EnterLoop, Slid, SkipReduce, Abs!vars
<1>4. CASE WriteReduced(scratch)
  <2>1. PICK v \in Values : Reduced(scratch, v) /\ output' = [output EXCEPT ![idx] = v]
    BY <1>4 DEF WriteReduced
  <2>2. pc = "reduce" /\ pc' = "advance" /\ UNCHANGED <<config, args>>
    BY <1>4 DEF WriteReduced
  <2>3. Abs!Permitted(idx, v)
    BY <2>1, <2>2, ReducedIsPermitted
  <2>4. idx \in 0 .. size - 1 /\ output[idx] = Unset
    BY <1>t, <2>2 DEF LoopInv, OutputInv
  <2>5. Abs!Write(idx)
    BY <2>1, <2>2, <2>3, <2>4 DEF Abs!Write, Abs!config
  <2> QED
    BY <2>4, <2>5 DEF Abs!Next
<1>5. CASE AdvanceIdx
  <2>1. pc = "advance" /\ UNCHANGED <<config, args, output>>
    BY <1>5 DEF AdvanceIdx
  <2>2. CASE pc' = "slide"
    BY <2>1, <2>2 DEF Abs!vars
  <2>3. CASE pc' = "idle"
    <3>1. idx + 1 >= size /\ idx < size
      BY <1>5, <1>t, <2>1, <2>3 DEF AdvanceIdx, LoopInv
    <3>2. \A i \in 0 .. size - 1 : i < idx \/ i = idx
      BY <1>t, <3>1
    <3>3. \A i \in 0 .. size - 1 : Abs!WindowAt(i) # {} => output[i] # Unset
      BY <1>t, <2>1, <3>2 DEF OutputInv
    <3>4. Abs!Return
      BY <2>1, <2>3, <3>3 DEF Abs!Return, Abs!config
    <3> QED
      BY <3>4 DEF Abs!Next
  <2> QED
    BY <1>5, <2>2, <2>3 DEF AdvanceIdx
<1>6. CASE UNCHANGED runVars
  BY <1>6 DEF runVars, Abs!vars
<1> QED
  BY <1>1, <1>2, <1>3, <1>4, <1>5, <1>6 DEF RunStep
=============================================================================

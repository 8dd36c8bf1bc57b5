----------------------------- MODULE Unsigned128 -----------------------------
(***************************************************************************)
(* The integers fraction_bigint.cpp makes of four elements: element i      *)
(* counts for Base^i.  A program holds two of them, x and y, and applies   *)
(* the operators that change their left operand to x; the others apply     *)
(* these to a copy.  No sum of products below exceeds what BUF_t holds.    *)
(***************************************************************************)
EXTENDS Integers

CONSTANTS
    Base,     (* 2^w for the w bits of a PRIM_t                            *)
    Undefined (* what is left of x after a read outside of its array       *)

ASSUME BaseAssumption == Base \in Nat /\ Base > 1

Digits == 0 .. Base - 1
Numbers == [0 .. 3 -> Digits]
Make(d0, d1, d2, d3) == [i \in 0 .. 3 |-> <<d0, d1, d2, d3>>[i + 1]]

max_val == [i \in 0 .. 3 |-> Base - 1]

(* The cast to a PRIM_t and the shift by storage_bits_.                    *)
Low(t) == t % Base
High(t) == t \div Base

VARIABLES x, y

vars == <<x, y>>

Init == x \in Numbers /\ y \in Numbers
-----------------------------------------------------------------------------
(* Mutant: the carry into the third element is forgotten.                  *)
SumDropsCarry(a, b) ==
    LET t0 == a[0] + b[0]
        t1 == a[1] + b[1] + High(t0)
        t2 == a[2] + b[2]
        t3 == a[3] + b[3] + High(t2)
    IN  Make(Low(t0), Low(t1), Low(t2), Low(t3))

(* operator+=                                                              *)
Sum(a, b) ==
    LET t0 == a[0] + b[0]
        t1 == a[1] + b[1] + High(t0)
        t2 == a[2] + b[2] + High(t1)
        t3 == a[3] + b[3] + High(t2)
    IN  Make(Low(t0), Low(t1), Low(t2), Low(t3))

(* One element of a subtraction: --vals_[i] wraps, and what is equal       *)
(* borrows as what is less does.                                           *)
Less(a, b, borrow) ==
    LET v == Low(a - borrow)
    IN  [val |-> Low(v - b), borrow |-> IF v > b THEN 0 ELSE 1]

(* Mutant: the borrow of an element that was itself borrowed from is lost. *)
DifferenceDropsBorrow(a, b) ==
    LET d0 == Less(a[0], b[0], 0)
        d1 == Less(a[1], b[1], d0.borrow)
        d2 == Less(a[2], b[2], IF d0.borrow = 1 THEN 0 ELSE d1.borrow)
        d3 == Less(a[3], b[3], d2.borrow)
    IN  Make(d0.val, d1.val, d2.val, d3.val)

(* operator-=                                                              *)
Difference(a, b) ==
    LET d0 == Less(a[0], b[0], 0)
        d1 == Less(a[1], b[1], d0.borrow)
        d2 == Less(a[2], b[2], d1.borrow)
        d3 == Less(a[3], b[3], d2.borrow)
    IN  Make(d0.val, d1.val, d2.val, d3.val)

(* The pairs of elements that are tested before anything is multiplied.    *)
Overlap(a, b) ==
    \E p \in {<<1, 1>>, <<2, 2>>, <<3, 1>>, <<2, 3>>, <<3, 2>>, <<3, 3>>} :
        a[p[1]] > 0 /\ b[p[2]] > 0

(* Mutant: the terms of degree 3 are not tested one by one.                *)
ProductUntested(a, b) ==
    LET t0 == a[0] * b[0]
        t1 == a[0] * b[1] + a[1] * b[0] + High(t0)
        t2 == a[0] * b[2] + a[1] * b[1] + a[2] * b[0] + High(t1)
        t3 == a[0] * b[3] + a[1] * b[2] + a[2] * b[1] + High(t2)
    IN  IF Overlap(a, b) THEN max_val
        ELSE Make(Low(t0), Low(t1), Low(t2), Low(t3))

(* operator*=: of the four terms of degree 3 the last is tested and not    *)
(* added.                                                                  *)
Product(a, b) ==
    LET t0 == a[0] * b[0]
        t1 == a[0] * b[1] + a[1] * b[0] + High(t0)
        t2 == a[0] * b[2] + a[1] * b[1] + a[2] * b[0] + High(t1)
        terms == <<a[0] * b[3] + High(t2), a[1] * b[2], a[2] * b[1], a[3] * b[0]>>
        t3 == terms[1] + terms[2] + terms[3]
    IN  IF \/ Overlap(a, b)
           \/ \E i \in 1 .. 4 : High(terms[i]) > 0
           \/ High(t3) > 0
        THEN max_val
        ELSE Make(Low(t0), Low(t1), Low(t2), Low(t3))

(* The search for the highest element that is not 0 starts at the top and  *)
(* counts up: if the top is 0 it leaves the array.                         *)
Divisible(a, b) == a[3] > 0 /\ b[3] > 0

(* Mutant: the quotient is put one element too high.                       *)
QuotientMisplaced(a, b) == Make(0, a[3] \div b[3], 0, 0)

(* operator/= and operator%                                                *)
Quotient(a, b) == Make(a[3] \div b[3], 0, 0, 0)
Remainder(a, b) == Difference(a, Product(b, Quotient(a, b)))
-----------------------------------------------------------------------------
Apply(result) == x # Undefined /\ x' = result /\ UNCHANGED y

Assign == Apply(y)
AddInto == Apply(Sum(x, y))
SubtractInto == Apply(Difference(x, y))
MultiplyInto == Apply(Product(x, y))
DivideInto == Apply(IF Divisible(x, y) THEN Quotient(x, y) ELSE Undefined)
TakeRemainder == Apply(IF Divisible(x, y) THEN Remainder(x, y) ELSE Undefined)

Next ==
    \/ Assign \/ AddInto \/ SubtractInto \/ MultiplyInto
    \/ DivideInto \/ TakeRemainder

Spec == Init /\ [][Next]_vars
-----------------------------------------------------------------------------
(* operator==, operator>=, operator<=, operator> and operator<.  The last  *)
(* two do not stop at the highest elements that differ.                    *)
Equal(a, b) == \A i \in 0 .. 3 : a[i] = b[i]

Above(a, b, i) == \A j \in 0 .. 3 : j > i => a[j] = b[j]

(* Mutant: the elements are compared from the lowest up.                   *)
GreaterEqualUpwards(a, b) ==
    \/ \E i \in 0 .. 3 : a[i] > b[i] /\ \A j \in 0 .. 3 : j < i => a[j] = b[j]
    \/ Equal(a, b)

GreaterEqual(a, b) == (\E i \in 0 .. 3 : a[i] > b[i] /\ Above(a, b, i)) \/ Equal(a, b)
LessEqual(a, b) == (\E i \in 0 .. 3 : a[i] < b[i] /\ Above(a, b, i)) \/ Equal(a, b)
Greater(a, b) == \E i \in 0 .. 3 : a[i] > b[i]
Smaller(a, b) == \E i \in 0 .. 3 : a[i] < b[i]
-----------------------------------------------------------------------------
Value(a) ==
    a[0] + a[1] * Base + a[2] * (Base * Base) + a[3] * (Base * Base * Base)

Modulus == Base * Base * Base * Base

(* Every variable holds a value of its type.  It is the form of the        *)
(* results and says nothing of the code: the proofs need it.               *)
TypeOK == x \in Numbers \cup {Undefined} /\ y \in Numbers

(* operator+= adds modulo 2^128: no carry is lost on the way.              *)
SumExact == [][AddInto => Value(x') = (Value(x) + Value(y)) % Modulus]_vars

(* Whether a subtraction must borrow from element i: what is below it is   *)
(* less in a than in b.                                                    *)
Borrows(a, b, i) ==
    \E j \in 0 .. i - 1 : a[j] < b[j] /\ \A k \in j + 1 .. i - 1 : a[k] = b[k]

(* Where the test of operator-= misjudges whether element i must borrow:   *)
(* what is left of it is equal to what is subtracted, which needs nothing; *)
(* or it was 0, has wrapped and is the greater one.                        *)
Misjudged(a, b, i) ==
    IF Borrows(a, b, i)
    THEN a[i] = b[i] + 1 \/ (a[i] = 0 /\ b[i] < Base - 1)
    ELSE a[i] = b[i]

(* operator-= subtracts modulo 2^128 exactly when it misjudges no element  *)
(* but the last: two mistakes never make up for each other.                *)
ExactUnlessMisjudged ==
    [][SubtractInto =>
          (Value(x') = (Value(x) - Value(y)) % Modulus
             <=> \A i \in 0 .. 2 : ~Misjudged(x, y, i))]_vars

(* The two products of elements that operator*= neither adds nor takes for *)
(* an overflow: a3 * b0, if it fits an element, and a1 * b3.               *)
LeftOut(a, b) == (a[3] * b[0]) * (Base * Base * Base) + (a[1] * b[3]) * Modulus

(* operator*= yields the product without these two, or the maximum; that   *)
(* only for a product that does not fit or whose factors both have a       *)
(* second element.                                                         *)
ProductButTwoTerms ==
    [][MultiplyInto =>
          \/ Value(x') = Value(x) * Value(y) - LeftOut(x, y)
          \/ /\ x' = max_val
             /\ Value(x) * Value(y) >= Modulus \/ (x[1] > 0 /\ y[1] > 0)]_vars

(* operator/= leaves its array exactly when one of the numbers is below    *)
(* 2^96.  Otherwise its quotient, that of the highest elements, is never   *)
(* too small, and not too large when the divisor has no lower elements.    *)
QuotientNeverShort ==
    [][DivideInto =>
          IF Value(x) < Base * Base * Base \/ Value(y) < Base * Base * Base
          THEN x' = Undefined
          ELSE /\ Value(x) < (Value(x') + 1) * Value(y)
               /\ y[0] = 0 /\ y[1] = 0 /\ y[2] = 0 =>
                      Value(x') * Value(y) <= Value(x)]_vars

(* operator>=, operator<= and operator== decide the order of the numbers.  *)
(* operator> and operator< hold wherever they should; they may both hold,  *)
(* but where only one of them does it is right.                            *)
OrderAgrees ==
    x # Undefined =>
        /\ GreaterEqual(x, y) <=> Value(x) >= Value(y)
        /\ LessEqual(x, y) <=> Value(x) <= Value(y)
        /\ Equal(x, y) <=> Value(x) = Value(y)
        /\ Value(x) > Value(y) => Greater(x, y)
        /\ Value(x) < Value(y) => Smaller(x, y)
        /\ Greater(x, y) /\ ~Smaller(x, y) => Value(x) > Value(y)
        /\ Smaller(x, y) /\ ~Greater(x, y) => Value(x) < Value(y)
=============================================================================

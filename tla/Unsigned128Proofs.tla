-------------------------- MODULE Unsigned128Proofs --------------------------
(* Theorems of Unsigned128 for elements of any width.                      *)
EXTENDS Unsigned128, TLAPS

(* A sum of elements is its low part and Base times its high part.         *)
LEMMA LowAndHigh ==
    ASSUME NEW t \in Nat
    PROVE  /\ Low(t) \in Digits /\ High(t) \in Nat
           /\ t = Low(t) + Base * High(t)
BY BaseAssumption DEF Low, High, Digits

(* An integer is what is left of it modulo a power of Base, also when it   *)
(* is negative.                                                            *)
LEMMA LowIsDigit ==
    ASSUME NEW t \in Int
    PROVE  Low(t) \in Digits
BY BaseAssumption DEF Low, Digits

LEMMA MakeType ==
    ASSUME NEW d0 \in Digits, NEW d1 \in Digits, NEW d2 \in Digits, NEW d3 \in Digits
    PROVE  /\ Make(d0, d1, d2, d3) \in Numbers
           /\ Make(d0, d1, d2, d3)[0] = d0 /\ Make(d0, d1, d2, d3)[1] = d1
           /\ Make(d0, d1, d2, d3)[2] = d2 /\ Make(d0, d1, d2, d3)[3] = d3
<1> DEFINE d == <<d0, d1, d2, d3>>
<1>1. /\ d[1] = d0 /\ d[2] = d1 /\ d[3] = d2 /\ d[4] = d3
      /\ \A i \in 0 .. 3 : i = 0 \/ i = 1 \/ i = 2 \/ i = 3
  OBVIOUS
<1>2. \A i \in 0 .. 3 : d[i + 1] \in Digits
  BY <1>1
<1> QED
  BY <1>1, <1>2 DEF Make, Numbers

LEMMA Elements ==
    ASSUME NEW a \in Numbers
    PROVE  /\ a[0] \in Digits /\ a[1] \in Digits /\ a[2] \in Digits /\ a[3] \in Digits
           /\ Digits \subseteq Nat
BY BaseAssumption DEF Numbers, Digits

LEMMA LessType ==
    ASSUME NEW u \in Digits, NEW v \in Digits, NEW w \in {0, 1}
    PROVE  Less(u, v, w).val \in Digits /\ Less(u, v, w).borrow \in {0, 1}
<1>1. u - w \in Int
  BY BaseAssumption DEF Digits
<1>2. Low(u - w) \in Digits
  BY <1>1, LowIsDigit
<1>3. Low(u - w) - v \in Int
  BY <1>2, BaseAssumption DEF Digits
<1> QED
  BY <1>3, LowIsDigit DEF Less

LEMMA DifferenceType ==
    ASSUME NEW a \in Numbers, NEW b \in Numbers
    PROVE  Difference(a, b) \in Numbers
<1> DEFINE d0 == Less(a[0], b[0], 0)
           d1 == Less(a[1], b[1], d0.borrow)
           d2 == Less(a[2], b[2], d1.borrow)
           d3 == Less(a[3], b[3], d2.borrow)
<1>1. d0.val \in Digits /\ d0.borrow \in {0, 1}
  BY Elements, LessType
<1>2. d1.val \in Digits /\ d1.borrow \in {0, 1}
  <2> HIDE DEF d0
  <2> QED
    BY <1>1, Elements, LessType
<1>3. d2.val \in Digits /\ d2.borrow \in {0, 1}
  <2> HIDE DEF d1
  <2> QED
    BY <1>2, Elements, LessType
<1>4. d3.val \in Digits
  <2> HIDE DEF d2
  <2> QED
    BY <1>3, Elements, LessType
<1>5. Difference(a, b) = Make(d0.val, d1.val, d2.val, d3.val)
  BY DEF Difference
<1> HIDE DEF d0, d1, d2, d3
<1> QED
  BY <1>1, <1>2, <1>3, <1>4, <1>5, MakeType

LEMMA SumType ==
    ASSUME NEW a \in Numbers, NEW b \in Numbers
    PROVE  Sum(a, b) \in Numbers
<1> DEFINE t0 == a[0] + b[0]
           t1 == a[1] + b[1] + High(t0)
           t2 == a[2] + b[2] + High(t1)
           t3 == a[3] + b[3] + High(t2)
<1>1. t0 \in Nat /\ High(t0) \in Nat
  BY Elements, LowAndHigh
<1>2. t1 \in Nat /\ High(t1) \in Nat
  BY <1>1, Elements, LowAndHigh
<1>3. t2 \in Nat /\ High(t2) \in Nat
  BY <1>2, Elements, LowAndHigh
<1>4. t3 \in Nat
  BY <1>3, Elements
<1>5. Sum(a, b) = Make(Low(t0), Low(t1), Low(t2), Low(t3))
  BY DEF Sum
<1> HIDE DEF t0, t1, t2, t3
<1> QED
  BY <1>1, <1>2, <1>3, <1>4, <1>5, LowAndHigh, MakeType

LEMMA ProductType ==
    ASSUME NEW a \in Numbers, NEW b \in Numbers
    PROVE  Product(a, b) \in Numbers
<1> DEFINE t0 == a[0] * b[0]
           t1 == a[0] * b[1] + a[1] * b[0] + High(t0)
           t2 == a[0] * b[2] + a[1] * b[1] + a[2] * b[0] + High(t1)
           terms == <<a[0] * b[3] + High(t2), a[1] * b[2], a[2] * b[1], a[3] * b[0]>>
           t3 == terms[1] + terms[2] + terms[3]
<1>1. \A i, j \in 0 .. 3 : a[i] * b[j] \in Nat
  BY Elements, BaseAssumption DEF Numbers, Digits
<1>2. t0 \in Nat /\ High(t0) \in Nat
  BY <1>1, LowAndHigh
<1>3. t1 \in Nat /\ High(t1) \in Nat
  <2> HIDE DEF t0
  <2>1. t1 \in Nat
    BY <1>1, <1>2
  <2> QED
    BY <2>1, LowAndHigh
<1>4. t2 \in Nat /\ High(t2) \in Nat
  <2> HIDE DEF t1
  <2>1. t2 \in Nat
    BY <1>1, <1>3
  <2> QED
    BY <2>1, LowAndHigh
<1>5. t3 \in Nat
  <2> HIDE DEF t2
  <2> QED
    BY <1>1, <1>4
<1>6. max_val \in Numbers
  BY BaseAssumption DEF max_val, Numbers, Digits
<1>7. \/ Product(a, b) = max_val
      \/ Product(a, b) = Make(Low(t0), Low(t1), Low(t2), Low(t3))
  BY DEF Product
<1> HIDE DEF t0, t1, t2, t3, terms
<1>8. Low(t0) \in Digits /\ Low(t1) \in Digits /\ Low(t2) \in Digits /\ Low(t3) \in Digits
  BY <1>2, <1>3, <1>4, <1>5, LowAndHigh
<1>9. Make(Low(t0), Low(t1), Low(t2), Low(t3)) \in Numbers
  BY <1>8, MakeType
<1> QED
  BY <1>6, <1>7, <1>9

LEMMA QuotientType ==
    ASSUME NEW a \in Numbers, NEW b \in Numbers, Divisible(a, b)
    PROVE  Quotient(a, b) \in Numbers
<1>1. /\ a[3] \in Nat /\ a[3] < Base /\ b[3] \in Nat /\ b[3] > 0
  BY Elements, BaseAssumption DEF Divisible, Digits
<1>2. a[3] \div b[3] \in Nat /\ a[3] \div b[3] <= a[3]
  BY <1>1
<1>3. a[3] \div b[3] \in Digits /\ 0 \in Digits
  BY <1>1, <1>2, BaseAssumption DEF Digits
<1> QED
  BY <1>3, MakeType DEF Quotient

(* The carries of Sum telescope: the elements of the sum and what is       *)
(* carried out of the last one make up the two numbers.                    *)
LEMMA CarryOut ==
    ASSUME NEW a \in Numbers, NEW b \in Numbers
    PROVE  \E c \in Nat : Value(Sum(a, b)) + c * Modulus = Value(a) + Value(b)
<1> DEFINE t0 == a[0] + b[0]
           t1 == a[1] + b[1] + High(t0)
           t2 == a[2] + b[2] + High(t1)
           t3 == a[3] + b[3] + High(t2)
           s == Sum(a, b)
<1>1. t0 \in Nat /\ t1 \in Nat /\ t2 \in Nat /\ t3 \in Nat
  <2>1. t0 \in Nat /\ High(t0) \in Nat
    BY Elements, LowAndHigh
  <2>2. t1 \in Nat /\ High(t1) \in Nat
    BY <2>1, Elements, LowAndHigh
  <2>3. t2 \in Nat /\ High(t2) \in Nat
    BY <2>2, Elements, LowAndHigh
  <2> QED
    BY <2>1, <2>2, <2>3, Elements
<1>2. s = Make(Low(t0), Low(t1), Low(t2), Low(t3))
  BY DEF Sum
<1>3. /\ s[0] = Low(t0) /\ s[1] = Low(t1) /\ s[2] = Low(t2) /\ s[3] = Low(t3)
      /\ Low(t0) \in Nat /\ Low(t1) \in Nat /\ Low(t2) \in Nat /\ Low(t3) \in Nat
  <2> HIDE DEF t0, t1, t2, t3, s
  <2>1. Low(t0) \in Digits /\ Low(t1) \in Digits /\ Low(t2) \in Digits /\ Low(t3) \in Digits
    BY <1>1, LowAndHigh
  <2>2. Digits \subseteq Nat
    BY BaseAssumption DEF Digits
  <2>3. /\ Make(Low(t0), Low(t1), Low(t2), Low(t3))[0] = Low(t0)
        /\ Make(Low(t0), Low(t1), Low(t2), Low(t3))[1] = Low(t1)
        /\ Make(Low(t0), Low(t1), Low(t2), Low(t3))[2] = Low(t2)
        /\ Make(Low(t0), Low(t1), Low(t2), Low(t3))[3] = Low(t3)
    BY <2>1, MakeType
  <2> QED
    BY <1>2, <2>1, <2>2, <2>3
<1>4. /\ a[0] + b[0] = Low(t0) + Base * High(t0)
      /\ a[1] + b[1] + High(t0) = Low(t1) + Base * High(t1)
      /\ a[2] + b[2] + High(t1) = Low(t2) + Base * High(t2)
      /\ a[3] + b[3] + High(t2) = Low(t3) + Base * High(t3)
      /\ High(t0) \in Nat /\ High(t1) \in Nat /\ High(t2) \in Nat /\ High(t3) \in Nat
  BY <1>1, LowAndHigh
<1>5. Value(s) + High(t3) * Modulus = Value(a) + Value(b)
  <2>1. /\ a[0] \in Int /\ a[1] \in Int /\ a[2] \in Int /\ a[3] \in Int
        /\ b[0] \in Int /\ b[1] \in Int /\ b[2] \in Int /\ b[3] \in Int
    BY Elements
  <2> DEFINE B == Base
  <2>2. B \in Int
    BY BaseAssumption
  <2>3. /\ a[0] + b[0] = Low(t0) + B * High(t0)
        /\ a[1] + b[1] + High(t0) = Low(t1) + B * High(t1)
        /\ a[2] + b[2] + High(t1) = Low(t2) + B * High(t2)
        /\ a[3] + b[3] + High(t2) = Low(t3) + B * High(t3)
    BY <1>4
  <2> HIDE DEF t0, t1, t2, t3, s, B
  <2>4. /\ Low(t0) \in Int /\ Low(t1) \in Int /\ Low(t2) \in Int /\ Low(t3) \in Int
        /\ High(t0) \in Int /\ High(t1) \in Int /\ High(t2) \in Int /\ High(t3) \in Int
    BY <1>3, <1>4
  <2>5. PICK l0 \in Int, l1 \in Int, l2 \in Int, l3 \in Int,
             h0 \in Int, h1 \in Int, h2 \in Int, h3 \in Int :
          /\ l0 = Low(t0) /\ l1 = Low(t1) /\ l2 = Low(t2) /\ l3 = Low(t3)
          /\ h0 = High(t0) /\ h1 = High(t1) /\ h2 = High(t2) /\ h3 = High(t3)
    BY <2>4
  <2>6. PICK a0 \in Int, a1 \in Int, a2 \in Int, a3 \in Int,
             b0 \in Int, b1 \in Int, b2 \in Int, b3 \in Int :
          /\ a0 = a[0] /\ a1 = a[1] /\ a2 = a[2] /\ a3 = a[3]
          /\ b0 = b[0] /\ b1 = b[1] /\ b2 = b[2] /\ b3 = b[3]
    BY <2>1
  <2>7. /\ a0 + b0 = l0 + B * h0 /\ a1 + b1 + h0 = l1 + B * h1
        /\ a2 + b2 + h1 = l2 + B * h2 /\ a3 + b3 + h2 = l3 + B * h3
    BY <2>3, <2>5, <2>6
  <2>8. (l0 + l1 * B + l2 * (B * B) + l3 * (B * B * B)) + h3 * (B * B * B * B)
        = (a0 + a1 * B + a2 * (B * B) + a3 * (B * B * B))
          + (b0 + b1 * B + b2 * (B * B) + b3 * (B * B * B))
    BY <2>2, <2>7
  <2> QED
    BY <1>3, <2>5, <2>6, <2>8 DEF Value, Modulus, B
<1> QED
  BY <1>4, <1>5

(* Four elements make numbers below Modulus.                               *)
LEMMA Bounds ==
    ASSUME NEW a \in Numbers
    PROVE  Value(a) \in Nat /\ Value(a) < Modulus /\ Modulus \in Nat
<1> DEFINE B == Base
<1>1. /\ B \in Nat /\ B > 1
      /\ a[0] \in Nat /\ a[1] \in Nat /\ a[2] \in Nat /\ a[3] \in Nat
      /\ a[0] <= B - 1 /\ a[1] <= B - 1 /\ a[2] <= B - 1 /\ a[3] <= B - 1
  BY Elements, BaseAssumption DEF Digits
<1>2. B * B \in Nat /\ B * B * B \in Nat /\ B * B * B * B \in Nat
  BY <1>1
<1>3. /\ a[1] * B <= (B - 1) * B /\ a[1] * B \in Nat
      /\ a[2] * (B * B) <= (B - 1) * (B * B) /\ a[2] * (B * B) \in Nat
      /\ a[3] * (B * B * B) <= (B - 1) * (B * B * B) /\ a[3] * (B * B * B) \in Nat
  BY <1>1, <1>2
<1>4. (B - 1) + (B - 1) * B + (B - 1) * (B * B) + (B - 1) * (B * B * B) = B * B * B * B - 1
  BY <1>1
<1> QED
  BY <1>1, <1>2, <1>3, <1>4 DEF Value, Modulus

(* Below m, only v itself is congruent to v.                              *)
LEMMA Modulo ==
    ASSUME NEW v \in Nat, NEW c \in Nat, NEW m \in Nat, v < m
    PROVE  v = (v + c * m) % m
OBVIOUS

(* Every variable keeps its type.                                          *)
LEMMA TypeCorrect == Spec => []TypeOK
<1>1. Init => TypeOK
  BY DEF Init, TypeOK
<1>2. TypeOK /\ [Next]_vars => TypeOK'
  <2> SUFFICES ASSUME TypeOK, Next PROVE TypeOK'
    BY DEF TypeOK, vars
  <2>1. x \in Numbers /\ y \in Numbers /\ y' = y
    BY DEF TypeOK, Next, Assign, AddInto, SubtractInto, MultiplyInto,
           DivideInto, TakeRemainder, Apply
  <2>2. CASE Assign
    BY <2>1, <2>2 DEF Assign, Apply, TypeOK
  <2>3. CASE AddInto
    BY <2>1, <2>3, SumType DEF AddInto, Apply, TypeOK
  <2>4. CASE SubtractInto
    BY <2>1, <2>4, DifferenceType DEF SubtractInto, Apply, TypeOK
  <2>5. CASE MultiplyInto
    BY <2>1, <2>5, ProductType DEF MultiplyInto, Apply, TypeOK
  <2>6. CASE DivideInto
    BY <2>1, <2>6, QuotientType DEF DivideInto, Apply, TypeOK
  <2>7. CASE TakeRemainder
    BY <2>1, <2>7, QuotientType, ProductType, DifferenceType
    DEF TakeRemainder, Apply, Remainder, TypeOK
  <2> QED
    BY <2>2, <2>3, <2>4, <2>5, <2>6, <2>7 DEF Next
<1> QED
  BY <1>1, <1>2, PTL DEF Spec

(* operator+= adds modulo the number of values four elements have.         *)
THEOREM SumIsExact == Spec => SumExact
<1>1. TypeOK /\ [Next]_vars =>
        [AddInto => Value(x') = (Value(x) + Value(y)) % Modulus]_vars
  <2> SUFFICES ASSUME TypeOK, Next, AddInto
               PROVE  Value(x') = (Value(x) + Value(y)) % Modulus
    OBVIOUS
  <2>1. x \in Numbers /\ y \in Numbers /\ x' = Sum(x, y)
    BY DEF TypeOK, AddInto, Apply
  <2>2. PICK c \in Nat : Value(Sum(x, y)) + c * Modulus = Value(x) + Value(y)
    BY <2>1, CarryOut
  <2>3. /\ Value(Sum(x, y)) \in Nat /\ Value(Sum(x, y)) < Modulus
        /\ Modulus \in Nat
    BY <2>1, SumType, Bounds
  <2>4. Value(Sum(x, y)) = (Value(Sum(x, y)) + c * Modulus) % Modulus
    BY <2>3, Modulo
  <2> QED
    BY <2>1, <2>2, <2>4
<1> QED
  BY <1>1, TypeCorrect, PTL DEF Spec, SumExact

-----------------------------------------------------------------------------
(* The elements below the first, the second and the third power of Base    *)
(* make less than one of the next element.                                 *)
LEMMA LowerPart ==
    ASSUME NEW a \in Numbers
    PROVE  /\ a[0] < Base
           /\ a[0] + a[1] * Base < Base * Base
           /\ a[0] + a[1] * Base + a[2] * (Base * Base) < Base * Base * Base
<1> DEFINE B == Base
<1>1. /\ B \in Nat /\ B > 1
      /\ a[0] \in Nat /\ a[1] \in Nat /\ a[2] \in Nat
      /\ a[0] <= B - 1 /\ a[1] <= B - 1 /\ a[2] <= B - 1
  BY Elements, BaseAssumption DEF Digits
<1>2. B * B \in Nat /\ B * B * B \in Nat
  BY <1>1
<1>3. /\ a[1] * B <= (B - 1) * B /\ a[1] * B \in Nat
      /\ a[2] * (B * B) <= (B - 1) * (B * B) /\ a[2] * (B * B) \in Nat
  BY <1>1, <1>2
<1>4. /\ (B - 1) + (B - 1) * B = B * B - 1
      /\ (B - 1) + (B - 1) * B + (B - 1) * (B * B) = B * B * B - 1
  BY <1>1
<1> QED
  BY <1>1, <1>2, <1>3, <1>4

(* One more of a power of Base outweighs whatever stands below it.         *)
LEMMA Outweighs ==
    ASSUME NEW p \in Nat, NEW u \in Nat, NEW v \in Nat, NEW r \in Nat, NEW s \in Nat,
           u > v, s < p
    PROVE  r + u * p > s + v * p
<1>1. u * p >= (v + 1) * p
  BY Z3
<1>2. (v + 1) * p = v * p + p
  OBVIOUS
<1>3. u * p \in Nat /\ v * p \in Nat
  OBVIOUS
<1> QED
  BY <1>1, <1>2, <1>3

(* The highest elements that differ decide.                                *)
LEMMA HighestDecides ==
    ASSUME NEW a \in Numbers, NEW b \in Numbers, NEW i \in 0 .. 3,
           a[i] > b[i], Above(a, b, i)
    PROVE  Value(a) > Value(b)
<1> DEFINE B == Base
           P2 == B * B
           P3 == B * B * B
<1>1. /\ B \in Nat /\ P2 \in Nat /\ P3 \in Nat
      /\ a[0] \in Nat /\ a[1] \in Nat /\ a[2] \in Nat /\ a[3] \in Nat
      /\ b[0] \in Nat /\ b[1] \in Nat /\ b[2] \in Nat /\ b[3] \in Nat
  BY Elements, BaseAssumption
<1>2. /\ b[0] < B /\ b[0] + b[1] * B < P2
      /\ b[0] + b[1] * B + b[2] * P2 < P3
  BY LowerPart
<1>3. /\ a[1] * B \in Nat /\ a[2] * P2 \in Nat /\ a[3] * P3 \in Nat
      /\ b[1] * B \in Nat /\ b[2] * P2 \in Nat /\ b[3] * P3 \in Nat
  BY <1>1
<1>4. /\ Value(a) = a[0] + a[1] * B + a[2] * P2 + a[3] * P3
      /\ Value(b) = b[0] + b[1] * B + b[2] * P2 + b[3] * P3
  BY DEF Value
<1> HIDE DEF B, P2, P3
<1>5. i = 0 \/ i = 1 \/ i = 2 \/ i = 3
  OBVIOUS
<1>6. CASE i = 0
  <2>1. a[1] = b[1] /\ a[2] = b[2] /\ a[3] = b[3]
    BY <1>6 DEF Above
  <2> QED
    BY <1>1, <1>3, <1>4, <1>6, <2>1
<1>7. CASE i = 1
  <2>1. a[2] = b[2] /\ a[3] = b[3]
    BY <1>7 DEF Above
  <2>2. a[0] + a[1] * B > b[0] + b[1] * B
    BY <1>1, <1>2, <1>7, Outweighs
  <2> QED
    BY <1>1, <1>3, <1>4, <2>1, <2>2
<1>8. CASE i = 2
  <2>1. a[3] = b[3]
    BY <1>8 DEF Above
  <2>2. a[0] + a[1] * B \in Nat /\ b[0] + b[1] * B \in Nat
    BY <1>1, <1>3
  <2>3. (a[0] + a[1] * B) + a[2] * P2 > (b[0] + b[1] * B) + b[2] * P2
    BY <1>1, <1>2, <1>8, <2>2, Outweighs
  <2> QED
    BY <1>1, <1>3, <1>4, <2>1, <2>3
<1>9. CASE i = 3
  <2>1. /\ a[0] + a[1] * B + a[2] * P2 \in Nat
        /\ b[0] + b[1] * B + b[2] * P2 \in Nat
    BY <1>1, <1>3
  <2>2. (a[0] + a[1] * B + a[2] * P2) + a[3] * P3 > (b[0] + b[1] * B + b[2] * P2) + b[3] * P3
    BY <1>1, <1>2, <1>9, <2>1, Outweighs
  <2> QED
    BY <1>4, <2>2
<1> QED
  BY <1>5, <1>6, <1>7, <1>8, <1>9

(* Two numbers are equal, or some element is the highest that differs.     *)
LEMMA SomeHighest ==
    ASSUME NEW a \in Numbers, NEW b \in Numbers
    PROVE  \/ Equal(a, b)
           \/ \E i \in 0 .. 3 : a[i] > b[i] /\ Above(a, b, i)
           \/ \E i \in 0 .. 3 : a[i] < b[i] /\ Above(a, b, i)
<1>1. \A i \in 0 .. 3 : a[i] \in Nat /\ b[i] \in Nat
  BY BaseAssumption DEF Numbers, Digits
<1>2. \A i \in 0 .. 3 : i = 0 \/ i = 1 \/ i = 2 \/ i = 3
  OBVIOUS
<1>3. CASE a[3] # b[3]
  BY <1>1, <1>3 DEF Above
<1>4. CASE a[3] = b[3] /\ a[2] # b[2]
  BY <1>1, <1>2, <1>4 DEF Above
<1>5. CASE a[3] = b[3] /\ a[2] = b[2] /\ a[1] # b[1]
  BY <1>1, <1>2, <1>5 DEF Above
<1>6. CASE a[3] = b[3] /\ a[2] = b[2] /\ a[1] = b[1] /\ a[0] # b[0]
  BY <1>1, <1>2, <1>6 DEF Above
<1>7. CASE a[3] = b[3] /\ a[2] = b[2] /\ a[1] = b[1] /\ a[0] = b[0]
  BY <1>2, <1>7 DEF Equal
<1> QED
  BY <1>3, <1>4, <1>5, <1>6, <1>7

(* The comparisons decide the order of the numbers, element by element or  *)
(* not.                                                                    *)
LEMMA Comparisons ==
    ASSUME NEW a \in Numbers, NEW b \in Numbers
    PROVE  /\ GreaterEqual(a, b) <=> Value(a) >= Value(b)
           /\ LessEqual(a, b) <=> Value(a) <= Value(b)
           /\ Equal(a, b) <=> Value(a) = Value(b)
           /\ Value(a) > Value(b) => Greater(a, b)
           /\ Value(a) < Value(b) => Smaller(a, b)
           /\ Greater(a, b) /\ ~Smaller(a, b) => Value(a) > Value(b)
           /\ Smaller(a, b) /\ ~Greater(a, b) => Value(a) < Value(b)
<1>1. Value(a) \in Nat /\ Value(b) \in Nat
  BY Bounds
<1>2. Equal(a, b) => Value(a) = Value(b)
  BY DEF Equal, Value
<1>3. (\E i \in 0 .. 3 : a[i] > b[i] /\ Above(a, b, i)) => Value(a) > Value(b)
  BY HighestDecides
<1>4. (\E i \in 0 .. 3 : a[i] < b[i] /\ Above(a, b, i)) => Value(a) < Value(b)
  <2> SUFFICES ASSUME NEW i \in 0 .. 3, a[i] < b[i], Above(a, b, i)
               PROVE  Value(b) > Value(a)
    BY <1>1
  <2>1. b[i] > a[i]
    BY BaseAssumption DEF Numbers, Digits
  <2>2. Above(b, a, i)
    BY DEF Above
  <2> QED
    BY <2>1, <2>2, HighestDecides
<1>5. /\ GreaterEqual(a, b) <=> Value(a) >= Value(b)
      /\ LessEqual(a, b) <=> Value(a) <= Value(b)
      /\ Equal(a, b) <=> Value(a) = Value(b)
  BY <1>1, <1>2, <1>3, <1>4, SomeHighest DEF GreaterEqual, LessEqual
<1>6. Value(a) > Value(b) => Greater(a, b)
  BY <1>1, <1>2, <1>4, SomeHighest DEF Greater
<1>7. Value(a) < Value(b) => Smaller(a, b)
  BY <1>1, <1>2, <1>3, SomeHighest DEF Smaller
<1>8. Greater(a, b) \/ Smaller(a, b) => ~Equal(a, b)
  BY BaseAssumption DEF Greater, Smaller, Equal, Numbers, Digits
<1> QED
  BY <1>1, <1>5, <1>6, <1>7, <1>8

(* operator==, operator>= and operator<= decide the order of the numbers   *)
(* in x and y; operator> and operator< hold wherever they should, and are  *)
(* right where they do not both hold.                                      *)
THEOREM OrderIsExact == Spec => []OrderAgrees
<1>1. TypeOK => OrderAgrees
  BY Comparisons DEF TypeOK, OrderAgrees
<1> QED
  BY <1>1, TypeCorrect, PTL
-----------------------------------------------------------------------------
(* What wraps around differs by a multiple of Base, below 0 as well.       *)
LEMMA WrapsAround ==
    ASSUME NEW t \in Int
    PROVE  Low(t) \in Digits /\ \E c \in Int : t = Low(t) + Base * c
<1>1. t = (t % Base) + Base * (t \div Base) /\ t \div Base \in Int
  BY BaseAssumption
<1> QED
  BY <1>1, LowIsDigit DEF Low

(* An integer of which a digit is all that is left is that digit.          *)
LEMMA DigitStays ==
    ASSUME NEW t \in Digits
    PROVE  Low(t) = t
BY BaseAssumption DEF Low, Digits

LEMMA NegativeWraps ==
    ASSUME NEW t \in Int, t < 0, t >= - Base
    PROVE  Low(t) = t + Base
BY BaseAssumption DEF Low

(* An element is exact up to a multiple of Base, whatever is borrowed.     *)
LEMMA LessIsCongruent ==
    ASSUME NEW u \in Digits, NEW v \in Digits, NEW w \in {0, 1}
    PROVE  \E c \in Int : u - v - w = Less(u, v, w).val + Base * c
<1>1. u \in Int /\ v \in Int /\ w \in Int /\ Base \in Int /\ u - w \in Int
      /\ Digits \subseteq Int
  BY BaseAssumption DEF Digits
<1>2. PICK c \in Int : u - w = Low(u - w) + Base * c
  BY <1>1, WrapsAround
<1>3. Low(u - w) \in Int
  BY <1>1, WrapsAround
<1>4. PICK d \in Int : Low(u - w) - v = Low(Low(u - w) - v) + Base * d
  <2>1. Low(u - w) - v \in Int
    BY <1>1, <1>3
  <2> QED
    BY <2>1, WrapsAround
<1>5. Low(Low(u - w) - v) \in Int
  <2>1. Low(u - w) - v \in Int
    BY <1>1, <1>3
  <2> QED
    BY <1>1, <2>1, WrapsAround
<1>6. u - v - w = Low(Low(u - w) - v) + Base * (c + d) /\ c + d \in Int
  BY <1>1, <1>2, <1>3, <1>4, <1>5
<1> QED
  BY <1>6 DEF Less

(* What must be borrowed for v and what was already borrowed.              *)
Due(u, v, borrowed) == IF u < v + borrowed THEN 1 ELSE 0

(* What an element leaves, with or without a borrow, is right up to the    *)
(* borrow that is due; and the code tells it but where it misjudges.       *)
LEMMA LessJudges ==
    ASSUME NEW u \in Digits, NEW v \in Digits, NEW w \in {0, 1}
    PROVE  /\ u - v - w = Less(u, v, w).val - Base * Due(u, v, w)
           /\ Less(u, v, w).borrow = Due(u, v, w)
                <=> ~(IF w = 1 THEN u = v + 1 \/ (u = 0 /\ v < Base - 1) ELSE u = v)
<1>1. /\ u \in Nat /\ v \in Nat /\ u < Base /\ v < Base /\ Base \in Nat /\ Base > 1
      /\ w = 0 \/ w = 1
  BY BaseAssumption DEF Digits
<1>2. CASE u < w
  <2>1. u = 0 /\ w = 1 /\ Due(u, v, w) = 1
    BY <1>1, <1>2 DEF Due
  <2>2. Low(u - w) = Base - 1
    BY <1>1, <2>1, NegativeWraps
  <2>3. Base - 1 - v \in Digits
    BY <1>1 DEF Digits
  <2>4. Less(u, v, w).val = Base - 1 - v
    BY <2>2, <2>3, DigitStays DEF Less
  <2>5. Less(u, v, w).borrow = IF Base - 1 > v THEN 0 ELSE 1
    BY <2>2 DEF Less
  <2> QED
    BY <1>1, <2>1, <2>4, <2>5
<1>3. CASE u >= w /\ u - w >= v
  <2>1. u - w \in Digits /\ u - w - v \in Digits /\ Due(u, v, w) = 0
    BY <1>1, <1>3 DEF Digits, Due
  <2>2. Less(u, v, w).val = u - w - v /\ Less(u, v, w).borrow = IF u - w > v THEN 0 ELSE 1
    BY <2>1, DigitStays DEF Less
  <2> QED
    BY <1>1, <1>3, <2>1, <2>2
<1>4. CASE u >= w /\ u - w < v
  <2>1. /\ u - w \in Digits /\ Due(u, v, w) = 1
        /\ u - w - v \in Int /\ u - w - v < 0 /\ u - w - v >= - Base
    BY <1>1, <1>4 DEF Digits, Due
  <2>2. /\ Less(u, v, w).val = u - w - v + Base
        /\ Less(u, v, w).borrow = IF u - w > v THEN 0 ELSE 1
    BY <2>1, DigitStays, NegativeWraps DEF Less
  <2> QED
    BY <1>1, <1>4, <2>1, <2>2
<1> QED
  BY <1>1, <1>2, <1>3, <1>4

(* A wrong borrow shows in the next element.                               *)
LEMMA BorrowShows ==
    ASSUME NEW u \in Digits, NEW v \in Digits,
           NEW w \in {0, 1}, NEW z \in {0, 1}, w # z
    PROVE  Less(u, v, w).val # Less(u, v, z).val
<1> DEFINE l == Less(u, v, w).val
           m == Less(u, v, z).val
           d == Due(u, v, w)
           e == Due(u, v, z)
<1>1. l \in Digits /\ m \in Digits /\ Digits \subseteq Int
  BY LessType, BaseAssumption DEF Digits
<1>2. u - v - w = l - Base * d /\ u - v - z = m - Base * e
  BY LessJudges
<1>3. /\ u \in Int /\ v \in Int /\ Base \in Int /\ Base > 1 /\ l \in Int /\ m \in Int
      /\ (w = 0 /\ z = 1) \/ (w = 1 /\ z = 0)
      /\ d = 0 \/ d = 1
      /\ e = 0 \/ e = 1
  <2>1. u \in Int /\ v \in Int /\ Base \in Int /\ Base > 1
    BY BaseAssumption DEF Digits
  <2>2. (d = 0 \/ d = 1) /\ (e = 0 \/ e = 1)
    BY DEF Due
  <2> HIDE DEF l, m, d, e
  <2> QED
    BY <1>1, <2>1, <2>2
<1> HIDE DEF l, m, d, e
<1>4. l # m
  BY <1>2, <1>3
<1> QED
  BY <1>4 DEF l, m

Borrowed(a, b, i) == IF Borrows(a, b, i) THEN 1 ELSE 0

(* A borrow is due where an element is less than what is subtracted from   *)
(* it and borrowed of it.                                                  *)
LEMMA BorrowsUp ==
    ASSUME NEW a \in Numbers, NEW b \in Numbers, NEW i \in 0 .. 2
    PROVE  Borrowed(a, b, i + 1) = Due(a[i], b[i], Borrowed(a, b, i))
<1>1. a[i] \in Nat /\ b[i] \in Nat
  BY BaseAssumption DEF Numbers, Digits
<1>2. Borrows(a, b, i + 1) <=> a[i] < b[i] \/ (a[i] = b[i] /\ Borrows(a, b, i))
  <2>1. ASSUME a[i] < b[i] PROVE Borrows(a, b, i + 1)
    BY <2>1 DEF Borrows
  <2>2. ASSUME a[i] = b[i], Borrows(a, b, i) PROVE Borrows(a, b, i + 1)
    <3>1. PICK j \in 0 .. i - 1 : a[j] < b[j] /\ \A k \in j + 1 .. i - 1 : a[k] = b[k]
      BY <2>2 DEF Borrows
    <3>2. \A k \in j + 1 .. i : k = i \/ k \in j + 1 .. i - 1
      OBVIOUS
    <3>3. j \in 0 .. i /\ i + 1 - 1 = i
      OBVIOUS
    <3> QED
      BY <2>2, <3>1, <3>2, <3>3 DEF Borrows
  <2>3. ASSUME Borrows(a, b, i + 1) PROVE a[i] < b[i] \/ (a[i] = b[i] /\ Borrows(a, b, i))
    <3>1. PICK j \in 0 .. i : a[j] < b[j] /\ \A k \in j + 1 .. i : a[k] = b[k]
      BY <2>3 DEF Borrows
    <3>2. CASE j # i
      <4>1. j \in 0 .. i - 1 /\ i \in j + 1 .. i /\ j + 1 .. i - 1 \subseteq j + 1 .. i
        BY <3>2
      <4> QED
        BY <3>1, <4>1 DEF Borrows
    <3> QED
      BY <3>1, <3>2
  <2> QED
    BY <2>1, <2>2, <2>3
<1> QED
  BY <1>1, <1>2 DEF Borrowed, Due

LEMMA BorrowedType ==
    ASSUME NEW a \in Numbers, NEW b \in Numbers
    PROVE  /\ Borrowed(a, b, 0) = 0
           /\ \A i \in 0 .. 3 : Borrowed(a, b, i) \in {0, 1}
BY DEF Borrowed, Borrows

(* The difference with the borrows that are due.                           *)
Owed(a, b, i) == Less(a[i], b[i], Borrowed(a, b, i)).val
Exact(a, b) == Make(Owed(a, b, 0), Owed(a, b, 1), Owed(a, b, 2), Owed(a, b, 3))

LEMMA OwedType ==
    ASSUME NEW a \in Numbers, NEW b \in Numbers, NEW i \in 0 .. 3
    PROVE  Owed(a, b, i) \in Digits
<1>1. a[i] \in Digits /\ b[i] \in Digits /\ Borrowed(a, b, i) \in {0, 1}
  BY BorrowedType DEF Numbers
<1> QED
  BY <1>1, LessType DEF Owed

(* The borrows of a difference telescope as the carries of Sum do.         *)
LEMMA Telescopes ==
    ASSUME NEW a \in Numbers, NEW b \in Numbers, NEW d \in Numbers,
           NEW w0 \in Int, NEW w1 \in Int, NEW w2 \in Int, NEW c \in Int,
           a[0] - b[0] = d[0] - Base * w0,
           a[1] - b[1] - w0 = d[1] - Base * w1,
           a[2] - b[2] - w1 = d[2] - Base * w2,
           a[3] - b[3] - w2 = d[3] + Base * c
    PROVE  Value(d) + c * Modulus = Value(a) - Value(b)
<1>1. PICK a0 \in Int, a1 \in Int, a2 \in Int, a3 \in Int,
           b0 \in Int, b1 \in Int, b2 \in Int, b3 \in Int :
        /\ a0 = a[0] /\ a1 = a[1] /\ a2 = a[2] /\ a3 = a[3]
        /\ b0 = b[0] /\ b1 = b[1] /\ b2 = b[2] /\ b3 = b[3]
  <2>1. /\ a[0] \in Int /\ a[1] \in Int /\ a[2] \in Int /\ a[3] \in Int
        /\ b[0] \in Int /\ b[1] \in Int /\ b[2] \in Int /\ b[3] \in Int
    BY Elements
  <2> QED
    BY <2>1
<1>2. PICK v0 \in Int, v1 \in Int, v2 \in Int, v3 \in Int, B \in Int :
        v0 = d[0] /\ v1 = d[1] /\ v2 = d[2] /\ v3 = d[3] /\ B = Base
  <2>1. d[0] \in Int /\ d[1] \in Int /\ d[2] \in Int /\ d[3] \in Int /\ Base \in Int
    BY Elements, BaseAssumption
  <2> QED
    BY <2>1
<1>3. /\ a0 - b0 = v0 - B * w0 /\ a1 - b1 - w0 = v1 - B * w1
      /\ a2 - b2 - w1 = v2 - B * w2 /\ a3 - b3 - w2 = v3 + B * c
  BY <1>1, <1>2
<1>4. (v0 + v1 * B + v2 * (B * B) + v3 * (B * B * B)) + c * (B * B * B * B)
      = (a0 + a1 * B + a2 * (B * B) + a3 * (B * B * B))
        - (b0 + b1 * B + b2 * (B * B) + b3 * (B * B * B))
  BY <1>3
<1> QED
  BY <1>1, <1>2, <1>4 DEF Value, Modulus

(* Below m, only v itself is congruent to v, from either side.             *)
LEMMA ModuloInt ==
    ASSUME NEW v \in Nat, NEW c \in Int, NEW m \in Nat, v < m
    PROVE  v = (v + c * m) % m
OBVIOUS

LEMMA ExactIsDifference ==
    ASSUME NEW a \in Numbers, NEW b \in Numbers
    PROVE  /\ Exact(a, b) \in Numbers
           /\ Exact(a, b)[0] = Owed(a, b, 0) /\ Exact(a, b)[1] = Owed(a, b, 1)
           /\ Exact(a, b)[2] = Owed(a, b, 2) /\ Exact(a, b)[3] = Owed(a, b, 3)
           /\ Value(Exact(a, b)) = (Value(a) - Value(b)) % Modulus
<1>1. /\ Exact(a, b) \in Numbers
      /\ Exact(a, b)[0] = Owed(a, b, 0) /\ Exact(a, b)[1] = Owed(a, b, 1)
      /\ Exact(a, b)[2] = Owed(a, b, 2) /\ Exact(a, b)[3] = Owed(a, b, 3)
  <2>1. /\ Owed(a, b, 0) \in Digits /\ Owed(a, b, 1) \in Digits
        /\ Owed(a, b, 2) \in Digits /\ Owed(a, b, 3) \in Digits
    BY OwedType
  <2> QED
    BY <2>1, MakeType DEF Exact
<1>2. \A i \in 0 .. 3 : /\ a[i] \in Digits /\ b[i] \in Digits
                        /\ Borrowed(a, b, i) \in {0, 1}
  BY BorrowedType DEF Numbers
<1>3. \A i \in 0 .. 2 : a[i] - b[i] - Borrowed(a, b, i)
                        = Owed(a, b, i) - Base * Borrowed(a, b, i + 1)
  BY <1>2, BorrowsUp, LessJudges DEF Owed
<1>4. PICK c \in Int : a[3] - b[3] - Borrowed(a, b, 3) = Owed(a, b, 3) + Base * c
  BY <1>2, LessIsCongruent DEF Owed
<1>5. PICK w0 \in Int, w1 \in Int, w2 \in Int :
        w0 = Borrowed(a, b, 1) /\ w1 = Borrowed(a, b, 2) /\ w2 = Borrowed(a, b, 3)
  BY <1>2
<1>6. /\ a[0] - b[0] - 0 = Exact(a, b)[0] - Base * w0
      /\ a[1] - b[1] - w0 = Exact(a, b)[1] - Base * w1
      /\ a[2] - b[2] - w1 = Exact(a, b)[2] - Base * w2
      /\ a[3] - b[3] - w2 = Exact(a, b)[3] + Base * c
  <2>1. /\ 0 \in 0 .. 2 /\ 1 \in 0 .. 2 /\ 2 \in 0 .. 2
        /\ 0 + 1 = 1 /\ 1 + 1 = 2 /\ 2 + 1 = 3
    OBVIOUS
  <2> QED
    BY <1>1, <1>3, <1>4, <1>5, <2>1, BorrowedType
<1>7. a[0] - b[0] = Exact(a, b)[0] - Base * w0
  <2>1. a[0] \in Int /\ b[0] \in Int
    BY Elements
  <2> QED
    BY <1>6, <2>1
<1>8. Value(Exact(a, b)) + c * Modulus = Value(a) - Value(b)
  BY <1>1, <1>6, <1>7, Telescopes
<1>9. Value(Exact(a, b)) \in Nat /\ Value(Exact(a, b)) < Modulus /\ Modulus \in Nat
  BY <1>1, Bounds
<1>10. Value(Exact(a, b)) = (Value(Exact(a, b)) + c * Modulus) % Modulus
  BY <1>9, ModuloInt
<1> QED
  BY <1>1, <1>8, <1>10

(* The borrow out of an element that got the right one is right exactly    *)
(* where the element is not misjudged.                                     *)
LEMMA Judgement ==
    ASSUME NEW a \in Numbers, NEW b \in Numbers, NEW i \in 0 .. 2
    PROVE  Less(a[i], b[i], Borrowed(a, b, i)).borrow = Borrowed(a, b, i + 1)
             <=> ~Misjudged(a, b, i)
<1>1. a[i] \in Digits /\ b[i] \in Digits /\ Borrowed(a, b, i) \in {0, 1}
  BY BorrowedType DEF Numbers
<1>2. Borrowed(a, b, i + 1) = Due(a[i], b[i], Borrowed(a, b, i))
  BY BorrowsUp
<1>3. Borrows(a, b, i) <=> Borrowed(a, b, i) = 1
  BY DEF Borrowed
<1> QED
  BY <1>1, <1>2, <1>3, LessJudges DEF Misjudged

(* Difference is the difference unless it misjudges an element, the lowest *)
(* of which shows in the next one.                                         *)
LEMMA WhenExact ==
    ASSUME NEW a \in Numbers, NEW b \in Numbers
    PROVE  Value(Difference(a, b)) = Value(Exact(a, b))
             <=> \A i \in 0 .. 2 : ~Misjudged(a, b, i)
<1> DEFINE d0 == Less(a[0], b[0], 0)
           d1 == Less(a[1], b[1], d0.borrow)
           d2 == Less(a[2], b[2], d1.borrow)
           d3 == Less(a[3], b[3], d2.borrow)
           d == Difference(a, b)
           e == Exact(a, b)
           due(i) == Borrowed(a, b, i)
<1>1. /\ a[0] \in Digits /\ a[1] \in Digits /\ a[2] \in Digits /\ a[3] \in Digits
      /\ b[0] \in Digits /\ b[1] \in Digits /\ b[2] \in Digits /\ b[3] \in Digits
      /\ due(0) = 0 /\ due(1) \in {0, 1} /\ due(2) \in {0, 1} /\ due(3) \in {0, 1}
  BY Elements, BorrowedType
<1>2. d0.val \in Digits /\ d0.borrow \in {0, 1}
  BY <1>1, LessType
<1>3. d1.val \in Digits /\ d1.borrow \in {0, 1}
  <2> HIDE DEF d0
  <2> QED
    BY <1>1, <1>2, LessType
<1>4. d2.val \in Digits /\ d2.borrow \in {0, 1}
  <2> HIDE DEF d1
  <2> QED
    BY <1>1, <1>3, LessType
<1>5. d3.val \in Digits
  <2> HIDE DEF d2
  <2> QED
    BY <1>1, <1>4, LessType
<1>6. d = Make(d0.val, d1.val, d2.val, d3.val)
  BY DEF Difference
<1>7. /\ d[0] = d0.val /\ d[1] = d1.val /\ d[2] = d2.val /\ d[3] = d3.val
      /\ d \in Numbers
  <2>1. PICK e0 \in Digits, e1 \in Digits, e2 \in Digits, e3 \in Digits :
          e0 = d0.val /\ e1 = d1.val /\ e2 = d2.val /\ e3 = d3.val
    <3> HIDE DEF d0, d1, d2, d3
    <3> QED
      BY <1>2, <1>3, <1>4, <1>5
  <2>2. d = Make(e0, e1, e2, e3)
    BY <1>6, <2>1
  <2> HIDE DEF d0, d1, d2, d3, d
  <2> QED
    BY <2>1, <2>2, MakeType
<1>8. /\ e \in Numbers /\ e[0] = Owed(a, b, 0) /\ e[1] = Owed(a, b, 1)
      /\ e[2] = Owed(a, b, 2) /\ e[3] = Owed(a, b, 3)
  BY ExactIsDifference
<1>9. /\ d0.borrow = due(1) <=> ~Misjudged(a, b, 0)
      /\ d0.borrow = due(1) => (d1.borrow = due(2) <=> ~Misjudged(a, b, 1))
      /\ d1.borrow = due(2) => (d2.borrow = due(3) <=> ~Misjudged(a, b, 2))
  <2>1. /\ 0 \in 0 .. 2 /\ 1 \in 0 .. 2 /\ 2 \in 0 .. 2
        /\ 0 + 1 = 1 /\ 1 + 1 = 2 /\ 2 + 1 = 3
    OBVIOUS
  <2>2. d0.borrow = due(1) <=> ~Misjudged(a, b, 0)
    BY <1>1, <2>1, Judgement
  <2>3. d0.borrow = due(1) => (d1.borrow = due(2) <=> ~Misjudged(a, b, 1))
    <3> HIDE DEF d0
    <3> QED
      BY <2>1, Judgement
  <2>4. d1.borrow = due(2) => (d2.borrow = due(3) <=> ~Misjudged(a, b, 2))
    <3> HIDE DEF d1
    <3> QED
      BY <2>1, Judgement
  <2> QED
    BY <2>2, <2>3, <2>4
<1>10. /\ d[0] = e[0]
       /\ d0.borrow = due(1) <=> d[1] = e[1]
       /\ d1.borrow = due(2) <=> d[2] = e[2]
       /\ d2.borrow = due(3) <=> d[3] = e[3]
  <2>1. d[0] = e[0]
    BY <1>1, <1>7, <1>8 DEF Owed
  <2> HIDE DEF d, e
  <2>2. d0.borrow = due(1) <=> d[1] = e[1]
    <3> HIDE DEF d0
    <3> QED
      BY <1>1, <1>2, <1>7, <1>8, BorrowShows DEF Owed
  <2>3. d1.borrow = due(2) <=> d[2] = e[2]
    <3> HIDE DEF d1
    <3> QED
      BY <1>1, <1>3, <1>7, <1>8, BorrowShows DEF Owed
  <2>4. d2.borrow = due(3) <=> d[3] = e[3]
    <3> HIDE DEF d2
    <3> QED
      BY <1>1, <1>4, <1>7, <1>8, BorrowShows DEF Owed
  <2> QED
    BY <2>1, <2>2, <2>3, <2>4
<1> HIDE DEF d0, d1, d2, d3, d, e, due
<1>11. Value(d) = Value(e) <=> d[1] = e[1] /\ d[2] = e[2] /\ d[3] = e[3]
  <2>1. \A i \in 0 .. 3 : i = 0 \/ i = 1 \/ i = 2 \/ i = 3
    OBVIOUS
  <2>2. Value(d) = Value(e) <=> Equal(d, e)
    BY <1>7, <1>8, Comparisons
  <2> QED
    BY <1>10, <2>1, <2>2 DEF Equal
<1>12. \A i \in 0 .. 2 : i = 0 \/ i = 1 \/ i = 2
  OBVIOUS
<1>13. Value(d) = Value(e) <=> \A i \in 0 .. 2 : ~Misjudged(a, b, i)
  BY <1>9, <1>10, <1>11, <1>12
<1> QED
  BY <1>13 DEF d, e

(* operator-= subtracts modulo the number of values four elements have     *)
(* exactly when it misjudges none of the first three.                      *)
THEOREM DifferenceIsExactUnlessMisjudged == Spec => ExactUnlessMisjudged
<1>1. TypeOK /\ [Next]_vars =>
        [SubtractInto =>
            (Value(x') = (Value(x) - Value(y)) % Modulus
               <=> \A i \in 0 .. 2 : ~Misjudged(x, y, i))]_vars
  <2> SUFFICES ASSUME TypeOK, SubtractInto
               PROVE  Value(x') = (Value(x) - Value(y)) % Modulus
                        <=> \A i \in 0 .. 2 : ~Misjudged(x, y, i)
    OBVIOUS
  <2>1. x \in Numbers /\ y \in Numbers /\ x' = Difference(x, y)
    BY DEF TypeOK, SubtractInto, Apply
  <2> QED
    BY <2>1, ExactIsDifference, WhenExact
<1> QED
  BY <1>1, TypeCorrect, PTL DEF Spec, ExactUnlessMisjudged
-----------------------------------------------------------------------------
(* The product of two numbers of which Overlap finds no pair, by the       *)
(* powers its terms belong to and without the two that are left out.       *)
LEMMA Expansion ==
    ASSUME NEW a \in Numbers, NEW b \in Numbers,
           a[1] * b[1] = 0, a[2] * b[2] = 0, a[3] * b[1] = 0,
           a[2] * b[3] = 0, a[3] * b[2] = 0, a[3] * b[3] = 0
    PROVE  Value(a) * Value(b) - LeftOut(a, b)
           = a[0] * b[0] + (a[0] * b[1] + a[1] * b[0]) * Base
             + (a[0] * b[2] + a[1] * b[1] + a[2] * b[0]) * (Base * Base)
             + (a[0] * b[3] + a[1] * b[2] + a[2] * b[1]) * (Base * Base * Base)
<1>0. PICK a0 \in Int, a1 \in Int, a2 \in Int, a3 \in Int,
           b0 \in Int, b1 \in Int, b2 \in Int, b3 \in Int, B \in Int :
        /\ a0 = a[0] /\ a1 = a[1] /\ a2 = a[2] /\ a3 = a[3]
        /\ b0 = b[0] /\ b1 = b[1] /\ b2 = b[2] /\ b3 = b[3] /\ B = Base
  <2>1. /\ a[0] \in Int /\ a[1] \in Int /\ a[2] \in Int /\ a[3] \in Int
        /\ b[0] \in Int /\ b[1] \in Int /\ b[2] \in Int /\ b[3] \in Int /\ Base \in Int
    BY Elements, BaseAssumption
  <2> QED
    BY <2>1
<1>zeros. /\ a1 * b1 = 0 /\ a2 * b2 = 0 /\ a3 * b1 = 0
          /\ a2 * b3 = 0 /\ a3 * b2 = 0 /\ a3 * b3 = 0
  BY <1>0
<1> DEFINE P2 == B * B
           P3 == B * B * B
           P4 == B * B * B * B
           bs == b0 + b1 * B + b2 * P2 + b3 * P3
<1>1. P2 \in Int /\ P3 \in Int /\ P4 \in Int /\ bs \in Int
  OBVIOUS
<1>2. (a0 + a1 * B + a2 * P2 + a3 * P3) * bs
      = a0 * bs + (a1 * bs) * B + (a2 * bs) * P2 + (a3 * bs) * P3
  <2> HIDE DEF P2, P3, bs
  <2> QED
    BY <1>1
<1>3. a0 * bs = a0 * b0 + (a0 * b1) * B + (a0 * b2) * P2 + (a0 * b3) * P3
  <2> HIDE DEF P2, P3
  <2> QED
    BY <1>1
<1>4. a1 * bs = a1 * b0 + (a1 * b1) * B + (a1 * b2) * P2 + (a1 * b3) * P3
  <2> HIDE DEF P2, P3
  <2> QED
    BY <1>1
<1>5. a2 * bs = a2 * b0 + (a2 * b1) * B + (a2 * b2) * P2 + (a2 * b3) * P3
  <2> HIDE DEF P2, P3
  <2> QED
    BY <1>1
<1>6. a3 * bs = a3 * b0 + (a3 * b1) * B + (a3 * b2) * P2 + (a3 * b3) * P3
  <2> HIDE DEF P2, P3
  <2> QED
    BY <1>1
<1>7. a3 * bs = a3 * b0
  BY <1>1, <1>6, <1>zeros
<1>8. a2 * bs = a2 * b0 + (a2 * b1) * B
  BY <1>1, <1>5, <1>zeros
<1>9. a1 * bs = a1 * b0 + (a1 * b2) * P2 + (a1 * b3) * P3
  BY <1>1, <1>4, <1>zeros
<1>10. (a1 * b0 + (a1 * b2) * P2 + (a1 * b3) * P3) * B
       = (a1 * b0) * B + (a1 * b2) * P3 + (a1 * b3) * P4
  OBVIOUS
<1>11. (a2 * b0 + (a2 * b1) * B) * P2 = (a2 * b0) * P2 + (a2 * b1) * P3
  OBVIOUS
<1> HIDE DEF P2, P3, P4, bs
<1>12. (a0 + a1 * B + a2 * P2 + a3 * P3) * bs
       = a0 * b0 + (a0 * b1) * B + (a0 * b2) * P2 + (a0 * b3) * P3
         + ((a1 * b0) * B + (a1 * b2) * P3 + (a1 * b3) * P4)
         + ((a2 * b0) * P2 + (a2 * b1) * P3)
         + (a3 * b0) * P3
  <2>1. (a1 * bs) * B = (a1 * b0) * B + (a1 * b2) * P3 + (a1 * b3) * P4
    BY <1>9, <1>10
  <2>2. (a2 * bs) * P2 = (a2 * b0) * P2 + (a2 * b1) * P3
    BY <1>8, <1>11
  <2>3. (a3 * bs) * P3 = (a3 * b0) * P3
    BY <1>7
  <2>4. (a1 * bs) * B \in Int /\ (a2 * bs) * P2 \in Int /\ a0 * bs \in Int
    BY <1>1
  <2> QED
    BY <1>2, <1>3, <2>1, <2>2, <2>3, <2>4
<1>13. (a0 + a1 * B + a2 * P2 + a3 * P3) * bs - ((a3 * b0) * P3 + (a1 * b3) * P4)
       = a0 * b0 + (a0 * b1 + a1 * b0) * B
         + (a0 * b2 + a1 * b1 + a2 * b0) * P2
         + (a0 * b3 + a1 * b2 + a2 * b1) * P3
  <2>1. a1 * b1 = 0
    BY <1>zeros
  <2>2. /\ (a0 * b1 + a1 * b0) * B = (a0 * b1) * B + (a1 * b0) * B
        /\ (a0 * b2 + 0 + a2 * b0) * P2 = (a0 * b2) * P2 + (a2 * b0) * P2
        /\ (a0 * b3 + a1 * b2 + a2 * b1) * P3
             = (a0 * b3) * P3 + (a1 * b2) * P3 + (a2 * b1) * P3
    BY <1>1
  <2>3. /\ a0 * b0 \in Int /\ (a0 * b1) * B \in Int /\ (a1 * b0) * B \in Int
        /\ (a0 * b2) * P2 \in Int /\ (a2 * b0) * P2 \in Int
        /\ (a0 * b3) * P3 \in Int /\ (a1 * b2) * P3 \in Int /\ (a2 * b1) * P3 \in Int
        /\ (a3 * b0) * P3 \in Int /\ (a1 * b3) * P4 \in Int
    BY <1>1
  <2>4. PICK X \in Int, A0 \in Int, A1 \in Int, A2 \in Int, A3 \in Int, A4 \in Int,
             A5 \in Int, A6 \in Int, A7 \in Int, A8 \in Int, A9 \in Int :
          /\ X = (a0 + a1 * B + a2 * P2 + a3 * P3) * bs
          /\ A0 = a0 * b0 /\ A1 = (a0 * b1) * B /\ A2 = (a1 * b0) * B
          /\ A3 = (a0 * b2) * P2 /\ A4 = (a2 * b0) * P2
          /\ A5 = (a0 * b3) * P3 /\ A6 = (a1 * b2) * P3 /\ A7 = (a2 * b1) * P3
          /\ A8 = (a3 * b0) * P3 /\ A9 = (a1 * b3) * P4
    BY <1>1, <2>3
  <2>5. X = A0 + A1 + A3 + A5 + (A2 + A6 + A9) + (A4 + A7) + A8
    BY <1>12, <2>4
  <2>6. X - (A8 + A9) = A0 + (A1 + A2) + (A3 + A4) + (A5 + A6 + A7)
    BY <2>5
  <2> QED
    BY <2>1, <2>2, <2>4, <2>6
<1> QED
  BY <1>0, <1>13 DEF Value, LeftOut, Modulus, P2, P3, P4, bs

(* The terms of a product, by degree, are natural numbers.                 *)
LEMMA TermsAreNat ==
    ASSUME NEW a \in Numbers, NEW b \in Numbers
    PROVE  /\ a[0] * b[0] \in Nat
           /\ a[0] * b[1] + a[1] * b[0] \in Nat
           /\ a[0] * b[2] + a[1] * b[1] + a[2] * b[0] \in Nat
           /\ a[0] * b[3] + a[1] * b[2] + a[2] * b[1] \in Nat
           /\ a[0] * b[3] \in Nat /\ a[1] * b[2] \in Nat /\ a[2] * b[1] \in Nat
<1>1. \A i, j \in 0 .. 3 : a[i] * b[j] \in Nat
  BY BaseAssumption DEF Numbers, Digits
<1>2. /\ a[0] * b[0] \in Nat /\ a[0] * b[1] \in Nat /\ a[0] * b[2] \in Nat
      /\ a[0] * b[3] \in Nat /\ a[1] * b[0] \in Nat /\ a[1] * b[1] \in Nat
      /\ a[1] * b[2] \in Nat /\ a[2] * b[0] \in Nat /\ a[2] * b[1] \in Nat
  BY <1>1
<1>3. \A u, v \in Nat : u + v \in Nat
  OBVIOUS
<1> QED
  BY <1>2, <1>3, Zenon

(* A product of elements is 0 unless neither is.                           *)
LEMMA NoProduct ==
    ASSUME NEW u \in Nat, NEW v \in Nat, ~(u > 0 /\ v > 0)
    PROVE  u * v = 0
<1>1. u = 0 \/ v = 0
  OBVIOUS
<1>2. 0 * v = 0 /\ u * 0 = 0
  OBVIOUS
<1> QED
  BY <1>1, <1>2

(* Pairs that Overlap does not find contribute nothing.                    *)
LEMMA WithoutOverlap ==
    ASSUME NEW a \in Numbers, NEW b \in Numbers, ~Overlap(a, b)
    PROVE  /\ a[1] * b[1] = 0 /\ a[2] * b[2] = 0 /\ a[3] * b[1] = 0
           /\ a[2] * b[3] = 0 /\ a[3] * b[2] = 0 /\ a[3] * b[3] = 0
<1>1. /\ ~(a[1] > 0 /\ b[1] > 0) /\ ~(a[2] > 0 /\ b[2] > 0) /\ ~(a[3] > 0 /\ b[1] > 0)
      /\ ~(a[2] > 0 /\ b[3] > 0) /\ ~(a[3] > 0 /\ b[2] > 0) /\ ~(a[3] > 0 /\ b[3] > 0)
  BY DEF Overlap
<1>2. /\ a[1] \in Nat /\ a[2] \in Nat /\ a[3] \in Nat
      /\ b[1] \in Nat /\ b[2] \in Nat /\ b[3] \in Nat
  BY Elements
<1> QED
  BY <1>1, <1>2, NoProduct

(* A product that reaches the fourth power of Base does not fit.           *)
LEMMA TooLarge ==
    ASSUME NEW B \in Nat, NEW l0 \in Nat, NEW l1 \in Nat, NEW l2 \in Nat, NEW l3 \in Nat,
           l3 >= B
    PROVE  l0 + l1 * B + l2 * (B * B) + l3 * (B * B * B) >= B * B * B * B
<1>1. B * B \in Nat /\ B * B * B \in Nat
  OBVIOUS
<1>2. l3 * (B * B * B) >= B * (B * B * B)
  BY <1>1, Z3
<1>3. B * (B * B * B) = B * B * B * B
  OBVIOUS
<1>4. l1 * B \in Nat /\ l2 * (B * B) \in Nat /\ l3 * (B * B * B) \in Nat
  BY <1>1
<1> QED
  BY <1>2, <1>3, <1>4

LEMMA Monotone ==
    ASSUME NEW u \in Nat, NEW v \in Nat, NEW p \in Nat, NEW q \in Nat,
           u >= p, v >= q
    PROVE  u * v >= p * q
<1>1. u * v >= p * v
  BY Z3
<1>2. p * v >= p * q
  BY Z3
<1> QED
  BY <1>1, <1>2

(* A number with a second, third or fourth element that is not 0.          *)
LEMMA AtLeast ==
    ASSUME NEW a \in Numbers
    PROVE  /\ a[1] > 0 => Value(a) >= Base
           /\ a[2] > 0 => Value(a) >= Base * Base
           /\ a[3] > 0 => Value(a) >= Base * Base * Base
<1> DEFINE B == Base
           P2 == B * B
           P3 == B * B * B
<1>1. /\ B \in Nat /\ P2 \in Nat /\ P3 \in Nat
      /\ a[0] \in Nat /\ a[1] \in Nat /\ a[2] \in Nat /\ a[3] \in Nat
  BY Elements, BaseAssumption
<1>2. Value(a) = a[0] + a[1] * B + a[2] * P2 + a[3] * P3
  BY DEF Value
<1> HIDE DEF B, P2, P3
<1>3. /\ a[1] * B \in Nat /\ a[2] * P2 \in Nat /\ a[3] * P3 \in Nat
      /\ a[1] > 0 => a[1] * B >= 1 * B
      /\ a[2] > 0 => a[2] * P2 >= 1 * P2
      /\ a[3] > 0 => a[3] * P3 >= 1 * P3
  BY <1>1, Monotone
<1>4. /\ a[1] > 0 => Value(a) >= B
      /\ a[2] > 0 => Value(a) >= P2
      /\ a[3] > 0 => Value(a) >= P3
  <2>1. PICK m1 \in Nat, m2 \in Nat, m3 \in Nat :
          m1 = a[1] * B /\ m2 = a[2] * P2 /\ m3 = a[3] * P3
    BY <1>3
  <2>2. Value(a) >= m1 /\ Value(a) >= m2 /\ Value(a) >= m3
    BY <1>1, <1>2, <2>1
  <2>3. 1 * B = B /\ 1 * P2 = P2 /\ 1 * P3 = P3 /\ Value(a) \in Nat
    BY <1>1, Bounds
  <2> QED
    BY <1>1, <1>3, <2>1, <2>2, <2>3
<1> QED
  BY <1>4 DEF B, P2, P3

(* Of the pairs Overlap finds only the first may belong to a product that  *)
(* fits.                                                                   *)
LEMMA OverlapOverflows ==
    ASSUME NEW a \in Numbers, NEW b \in Numbers, Overlap(a, b)
    PROVE  Value(a) * Value(b) >= Modulus \/ (a[1] > 0 /\ b[1] > 0)
<1> DEFINE B == Base
           P2 == B * B
           P3 == B * B * B
           p == Value(a)
           q == Value(b)
<1>1. /\ B \in Nat /\ B >= 1 /\ P2 \in Nat /\ P3 \in Nat /\ P2 * P2 = Modulus
      /\ P3 * B = Modulus /\ Modulus \in Nat /\ P3 >= P2 /\ P2 >= B
  <2>1. B \in Nat /\ B >= 1
    BY BaseAssumption
  <2> HIDE DEF B
  <2>2. P2 \in Nat /\ P3 \in Nat
    BY <2>1
  <2>3. P2 >= B * 1 /\ P3 >= P2 * 1
    BY <2>1, <2>2, Monotone
  <2>4. P2 * P2 = B * B * B * B /\ P3 * B = B * B * B * B
    BY <2>1
  <2> QED
    BY <2>1, <2>2, <2>3, <2>4 DEF Modulus, B
<1>2. /\ p \in Nat /\ q \in Nat
      /\ a[2] > 0 => p >= P2
      /\ a[3] > 0 => p >= P3
      /\ b[1] > 0 => q >= B
      /\ b[2] > 0 => q >= P2
      /\ b[3] > 0 => q >= P3
  BY AtLeast, Bounds
<1>3. \/ a[1] > 0 /\ b[1] > 0
      \/ a[2] > 0 /\ b[2] > 0
      \/ a[3] > 0 /\ b[1] > 0
      \/ a[2] > 0 /\ b[3] > 0
      \/ a[3] > 0 /\ b[2] > 0
      \/ a[3] > 0 /\ b[3] > 0
  BY DEF Overlap
<1> HIDE DEF B, P2, P3, p, q
<1>4. \/ a[1] > 0 /\ b[1] > 0
      \/ p >= P2 /\ q >= P2
      \/ p >= P3 /\ q >= B
  <2>1. a[3] > 0 => p >= P2
    BY <1>1, <1>2
  <2>2. b[2] > 0 => q >= B
    BY <1>1, <1>2
  <2>3. b[3] > 0 => q >= P2 /\ q >= B
    BY <1>1, <1>2
  <2> QED
    BY <1>2, <1>3, <2>1, <2>2, <2>3
<1>5. p >= P2 /\ q >= P2 => p * q >= P2 * P2
  BY <1>1, <1>2, Monotone
<1>6. p >= P3 /\ q >= B => p * q >= P3 * B
  BY <1>1, <1>2, Monotone
<1> QED
  BY <1>1, <1>4, <1>5, <1>6 DEF p, q

LEMMA HighIsOverflow ==
    ASSUME NEW t \in Nat
    PROVE  /\ High(t) > 0 <=> t >= Base
           /\ ~(High(t) > 0) => Low(t) = t
BY BaseAssumption DEF High, Low

(* operator*= leaves the two terms out, or the product does not fit, or    *)
(* the first pair of Overlap is found.                                     *)
LEMMA ProductOrMaximum ==
    ASSUME NEW a \in Numbers, NEW b \in Numbers
    PROVE  \/ Value(Product(a, b)) = Value(a) * Value(b) - LeftOut(a, b)
           \/ /\ Product(a, b) = max_val
              /\ Value(a) * Value(b) >= Modulus \/ (a[1] > 0 /\ b[1] > 0)
<1> DEFINE t0 == a[0] * b[0]
           t1 == a[0] * b[1] + a[1] * b[0] + High(t0)
           t2 == a[0] * b[2] + a[1] * b[1] + a[2] * b[0] + High(t1)
           terms == <<a[0] * b[3] + High(t2), a[1] * b[2], a[2] * b[1], a[3] * b[0]>>
           t3 == terms[1] + terms[2] + terms[3]
           Overflow == (\E i \in 1 .. 4 : High(terms[i]) > 0) \/ High(t3) > 0
<1>1. Product(a, b) = IF Overlap(a, b) \/ Overflow THEN max_val
                      ELSE Make(Low(t0), Low(t1), Low(t2), Low(t3))
  BY DEF Product
<1>2. /\ a[0] * b[0] \in Nat
      /\ a[0] * b[1] + a[1] * b[0] \in Nat
      /\ a[0] * b[2] + a[1] * b[1] + a[2] * b[0] \in Nat
      /\ a[0] * b[3] + a[1] * b[2] + a[2] * b[1] \in Nat
      /\ a[0] * b[3] \in Nat /\ a[1] * b[2] \in Nat /\ a[2] * b[1] \in Nat
      /\ \A u, v \in Nat : u + v \in Nat
  BY TermsAreNat
<1>3. t0 \in Nat
  BY <1>2
<1>4. t1 \in Nat
  <2> HIDE DEF t0
  <2>1. High(t0) \in Nat
    BY <1>3, LowAndHigh
  <2> QED
    BY <1>2, <2>1, Zenon
<1>5. t2 \in Nat
  <2> HIDE DEF t1
  <2>1. High(t1) \in Nat
    BY <1>4, LowAndHigh
  <2> QED
    BY <1>2, <2>1, Zenon
<1>6. /\ High(t0) \in Nat /\ High(t1) \in Nat /\ High(t2) \in Nat
      /\ Low(t0) \in Digits /\ Low(t1) \in Digits /\ Low(t2) \in Digits
      /\ t0 = Low(t0) + Base * High(t0)
      /\ t1 = Low(t1) + Base * High(t1)
      /\ t2 = Low(t2) + Base * High(t2)
  <2> HIDE DEF t0, t1, t2
  <2> QED
    BY <1>3, <1>4, <1>5, LowAndHigh
<1>7. /\ t3 = a[0] * b[3] + High(t2) + a[1] * b[2] + a[2] * b[1]
      /\ terms[1] = a[0] * b[3] + High(t2) /\ terms[2] = a[1] * b[2]
      /\ terms[3] = a[2] * b[1] /\ terms[4] = a[3] * b[0]
  <2> HIDE DEF t2
  <2> QED
    OBVIOUS
<1>8. /\ t3 \in Nat /\ terms[1] \in Nat /\ terms[2] \in Nat /\ terms[3] \in Nat
      /\ terms[1] <= t3 /\ terms[2] <= t3 /\ terms[3] <= t3
  <2> HIDE DEF t2, t3, terms
  <2> QED
    BY <1>2, <1>6, <1>7
<1>9. /\ a[3] * b[0] \in Nat /\ a[1] * b[3] \in Nat
      /\ LeftOut(a, b) \in Nat /\ LeftOut(a, b) >= (a[3] * b[0]) * (Base * Base * Base)
  <2>1. a[3] * b[0] \in Nat /\ a[1] * b[3] \in Nat
    BY Elements
  <2>2. Base * Base * Base \in Nat /\ Modulus \in Nat
    BY BaseAssumption, Bounds
  <2>3. /\ (a[3] * b[0]) * (Base * Base * Base) \in Nat
        /\ (a[1] * b[3]) * Modulus \in Nat
    BY <2>1, <2>2
  <2> QED
    BY <2>1, <2>3 DEF LeftOut
<1> HIDE DEF Overflow, terms
<1>10. Overflow => t3 >= Base \/ a[3] * b[0] >= Base
  <2> HIDE DEF t0, t1, t2, t3
  <2>1. \A i \in 1 .. 4 : i = 1 \/ i = 2 \/ i = 3 \/ i = 4
    OBVIOUS
  <2>2. CASE High(t3) > 0
    BY <1>8, <2>2, HighIsOverflow
  <2>3. CASE High(terms[1]) > 0 \/ High(terms[2]) > 0 \/ High(terms[3]) > 0
    <3>1. terms[1] >= Base \/ terms[2] >= Base \/ terms[3] >= Base
      BY <1>8, <2>3, HighIsOverflow
    <3> QED
      BY <1>8, <3>1, BaseAssumption
  <2>4. CASE High(terms[4]) > 0
    BY <1>7, <1>9, <2>4, HighIsOverflow
  <2> QED
    BY <2>1, <2>2, <2>3, <2>4 DEF Overflow
<1>11. Low(t0) \in Nat /\ Low(t1) \in Nat /\ Low(t2) \in Nat
  <2> HIDE DEF t0, t1, t2
  <2> QED
    BY <1>6, BaseAssumption DEF Digits
<1>12. SUFFICES ASSUME ~Overlap(a, b)
                PROVE  \/ Value(Product(a, b)) = Value(a) * Value(b) - LeftOut(a, b)
                       \/ Product(a, b) = max_val /\ Value(a) * Value(b) >= Modulus
  BY <1>1, OverlapOverflows
<1>13. Value(a) * Value(b) - LeftOut(a, b)
       = Low(t0) + Low(t1) * Base + Low(t2) * (Base * Base) + t3 * (Base * Base * Base)
  <2> DEFINE p0 == a[0] * b[0]
             p1 == a[0] * b[1] + a[1] * b[0]
             p2 == a[0] * b[2] + a[1] * b[1] + a[2] * b[0]
             p3 == a[0] * b[3] + a[1] * b[2] + a[2] * b[1]
  <2>1. Value(a) * Value(b) - LeftOut(a, b)
        = p0 + p1 * Base + p2 * (Base * Base) + p3 * (Base * Base * Base)
    <3>1. /\ a[1] * b[1] = 0 /\ a[2] * b[2] = 0 /\ a[3] * b[1] = 0
          /\ a[2] * b[3] = 0 /\ a[3] * b[2] = 0 /\ a[3] * b[3] = 0
      BY <1>12, WithoutOverlap
    <3> QED
      BY <3>1, Expansion, Zenon
  <2>2. p0 \in Nat /\ p1 \in Nat /\ p2 \in Nat /\ p3 \in Nat
    BY <1>2
  <2>3. /\ p0 = Low(t0) + Base * High(t0)
        /\ p1 + High(t0) = Low(t1) + Base * High(t1)
        /\ p2 + High(t1) = Low(t2) + Base * High(t2)
        /\ p3 + High(t2) = t3
    <3>1. p0 = t0 /\ p1 + High(t0) = t1 /\ p2 + High(t1) = t2
      OBVIOUS
    <3>2. p3 + High(t2) = t3
      <4> HIDE DEF t2, t3
      <4> QED
        BY <1>2, <1>6, <1>7
    <3> QED
      BY <1>6, <3>1, <3>2
  <2> HIDE DEF p0, p1, p2, p3, t0, t1, t2, t3
  <2>4. Low(t0) + Low(t1) * Base + Low(t2) * (Base * Base) + t3 * (Base * Base * Base)
        = p0 + p1 * Base + p2 * (Base * Base) + p3 * (Base * Base * Base)
    <3>1. PICK l0 \in Int, l1 \in Int, l2 \in Int, h0 \in Int, h1 \in Int, h2 \in Int, l3 \in Int :
            /\ l0 = Low(t0) /\ l1 = Low(t1) /\ l2 = Low(t2) /\ l3 = t3
            /\ h0 = High(t0) /\ h1 = High(t1) /\ h2 = High(t2)
      BY <1>6, <1>8, <1>11
    <3>2. PICK q0 \in Int, q1 \in Int, q2 \in Int, q3 \in Int, B \in Int :
            q0 = p0 /\ q1 = p1 /\ q2 = p2 /\ q3 = p3 /\ B = Base
      BY <2>2, BaseAssumption
    <3>3. /\ q0 = l0 + B * h0 /\ q1 + h0 = l1 + B * h1
          /\ q2 + h1 = l2 + B * h2 /\ q3 + h2 = l3
      BY <2>3, <3>1, <3>2
    <3>4. l0 + l1 * B + l2 * (B * B) + l3 * (B * B * B)
          = q0 + q1 * B + q2 * (B * B) + q3 * (B * B * B)
      BY <3>3
    <3> QED
      BY <3>1, <3>2, <3>4
  <2> QED
    BY <2>1, <2>4
<1> HIDE DEF t0, t1, t2, t3
<1>14. CASE Overflow
  <2> DEFINE V == Value(a) * Value(b)
             L == LeftOut(a, b)
  <2>1. V \in Nat /\ L \in Nat /\ Modulus \in Nat
    BY <1>9, Bounds
  <2>2. ASSUME t3 >= Base PROVE V >= Modulus
    <3>1. V - L >= Modulus
      BY <1>8, <1>11, <1>13, <2>2, BaseAssumption, TooLarge DEF Modulus
    <3> HIDE DEF V, L
    <3> QED
      BY <2>1, <3>1
  <2>3. ASSUME a[3] * b[0] >= Base PROVE V >= Modulus
    <3> DEFINE P3 == Base * Base * Base
    <3>1. P3 \in Nat /\ Base \in Nat /\ Base * P3 = Modulus /\ Modulus \in Nat
      BY BaseAssumption, Bounds DEF Modulus
    <3>2. L >= (a[3] * b[0]) * P3
      BY <1>9
    <3> HIDE DEF P3
    <3>3. (a[3] * b[0]) * P3 >= Base * P3
      BY <1>9, <2>3, <3>1, Monotone
    <3>4. V - L >= 0
      <4>1. /\ Low(t0) + Low(t1) * Base + Low(t2) * (Base * Base) \in Nat
            /\ t3 * (Base * Base * Base) \in Nat
        BY <1>8, <1>11, BaseAssumption
      <4> QED
        BY <1>13, <4>1
    <3>5. (a[3] * b[0]) * P3 \in Nat
      BY <1>9, <3>1
    <3> HIDE DEF V, L
    <3> QED
      BY <2>1, <3>1, <3>2, <3>3, <3>4, <3>5
  <2>4. Value(a) * Value(b) >= Modulus
    BY <1>10, <1>14, <2>2, <2>3
  <2> QED
    BY <1>1, <1>14, <2>4
<1>15. CASE ~Overflow
  <2>1. Low(t3) = t3 /\ Low(t3) \in Digits
    BY <1>8, <1>15, HighIsOverflow, LowAndHigh DEF Overflow
  <2>2. Product(a, b) = Make(Low(t0), Low(t1), Low(t2), Low(t3))
    BY <1>1, <1>12, <1>15
  <2>3. /\ Product(a, b)[0] = Low(t0) /\ Product(a, b)[1] = Low(t1)
        /\ Product(a, b)[2] = Low(t2) /\ Product(a, b)[3] = t3
    BY <1>6, <2>1, <2>2, MakeType
  <2> QED
    BY <1>13, <2>3 DEF Value
<1> QED
  BY <1>14, <1>15

(* operator*= yields the product without the terms it leaves out, or the   *)
(* maximum; that for a product that does not fit, or one of two numbers    *)
(* that both have a second element.                                        *)
THEOREM ProductLacksTwoTerms == Spec => ProductButTwoTerms
<1>1. TypeOK /\ [Next]_vars =>
        [MultiplyInto =>
            \/ Value(x') = Value(x) * Value(y) - LeftOut(x, y)
            \/ /\ x' = max_val
               /\ Value(x) * Value(y) >= Modulus \/ (x[1] > 0 /\ y[1] > 0)]_vars
  <2> SUFFICES ASSUME TypeOK, MultiplyInto
               PROVE  \/ Value(x') = Value(x) * Value(y) - LeftOut(x, y)
                      \/ /\ x' = max_val
                         /\ Value(x) * Value(y) >= Modulus \/ (x[1] > 0 /\ y[1] > 0)
    OBVIOUS
  <2>1. x \in Numbers /\ y \in Numbers /\ x' = Product(x, y)
    BY DEF TypeOK, MultiplyInto, Apply
  <2> QED
    BY <2>1, ProductOrMaximum
<1> QED
  BY <1>1, TypeCorrect, PTL DEF Spec, ProductButTwoTerms
-----------------------------------------------------------------------------
(* The quotient of two elements and the numbers they stand on top of.      *)
LEMMA TopQuotient ==
    ASSUME NEW u \in Nat, NEW v \in Nat, v > 0
    PROVE  /\ u \div v \in Nat /\ u \div v <= u
           /\ (u \div v) * v <= u /\ u + 1 <= (u \div v + 1) * v
<1>1. /\ u \div v \in Int /\ u % v \in 0 .. v - 1
      /\ u = v * (u \div v) + (u % v)
  OBVIOUS
<1>2. PICK q \in Int, r \in 0 .. v - 1 : q = u \div v /\ u = v * q + r
  BY <1>1
<1>q. q >= 0 /\ q <= u
  <2>1. ASSUME q < 0 PROVE FALSE
    <3>1. v * q <= - v
      BY <2>1, Z3
    <3> QED
      BY <1>2, <3>1
  <2>2. v * q >= q
    BY <2>1, Z3
  <2>3. v * q \in Int
    OBVIOUS
  <2> QED
    BY <1>2, <2>1, <2>2, <2>3
<1>3. (q + 1) * v = v * q + v /\ q * v = v * q /\ v * q \in Int
  OBVIOUS
<1> QED
  BY <1>2, <1>q, <1>3

(* Only a number of four elements reaches the third power of Base.         *)
LEMMA TopElement ==
    ASSUME NEW a \in Numbers
    PROVE  a[3] > 0 <=> ~(Value(a) < Base * Base * Base)
<1>1. a[3] \in Nat /\ Value(a) \in Nat /\ Base * Base * Base \in Nat
  BY Elements, Bounds, BaseAssumption
<1>2. a[3] > 0 => Value(a) >= Base * Base * Base
  BY AtLeast
<1>3. a[3] = 0 => Value(a) < Base * Base * Base
  <2>1. /\ a[0] + a[1] * Base + a[2] * (Base * Base) < Base * Base * Base
        /\ a[0] + a[1] * Base + a[2] * (Base * Base) \in Nat
        /\ 0 * (Base * Base * Base) = 0
    BY LowerPart, Elements, BaseAssumption
  <2> QED
    BY <2>1 DEF Value
<1> QED
  BY <1>1, <1>2, <1>3

LEMMA QuotientBounds ==
    ASSUME NEW a \in Numbers, NEW b \in Numbers, Divisible(a, b)
    PROVE  /\ Value(a) < (Value(Quotient(a, b)) + 1) * Value(b)
           /\ b[0] = 0 /\ b[1] = 0 /\ b[2] = 0 =>
                 Value(Quotient(a, b)) * Value(b) <= Value(a)
<1> DEFINE B == Base
           P3 == B * B * B
           q == a[3] \div b[3]
           la == a[0] + a[1] * B + a[2] * (B * B)
           lb == b[0] + b[1] * B + b[2] * (B * B)
<1>1. /\ a[3] \in Nat /\ b[3] \in Nat /\ b[3] > 0 /\ a[3] < B
      /\ B \in Nat /\ P3 \in Nat
      /\ la \in Nat /\ lb \in Nat /\ la < P3
      /\ b[0] = 0 /\ b[1] = 0 /\ b[2] = 0 => lb = 0
  <2>1. /\ a[0] \in Nat /\ a[1] \in Nat /\ a[2] \in Nat /\ a[3] \in Nat /\ a[3] < B
        /\ b[0] \in Nat /\ b[1] \in Nat /\ b[2] \in Nat /\ b[3] \in Nat /\ B \in Nat
    BY Elements, BaseAssumption DEF Digits
  <2>2. la < P3
    BY LowerPart
  <2>3. B * B \in Nat /\ 0 * B = 0 /\ 0 * (B * B) = 0 /\ P3 \in Nat
    BY <2>1
  <2>4. la \in Nat /\ lb \in Nat
    BY <2>1, <2>3
  <2>5. b[3] > 0
    BY DEF Divisible
  <2>6. b[0] = 0 /\ b[1] = 0 /\ b[2] = 0 => lb = 0
    BY <2>3
  <2> HIDE DEF B, P3, la, lb
  <2> QED
    BY <2>1, <2>2, <2>3, <2>4, <2>5, <2>6
<1>2. Value(a) = la + a[3] * P3 /\ Value(b) = lb + b[3] * P3
  BY DEF Value
<1>3. q \in Nat /\ q <= a[3] /\ q * b[3] <= a[3] /\ a[3] + 1 <= (q + 1) * b[3]
  BY <1>1, TopQuotient
<1>4. Value(Quotient(a, b)) = q
  <2> HIDE DEF q
  <2>1. q \in Digits /\ 0 \in Digits /\ q \in Int
    BY <1>1, <1>3, BaseAssumption DEF Digits
  <2>2. 0 * B = 0 /\ 0 * (B * B) = 0 /\ 0 * (B * B * B) = 0
    BY <1>1
  <2>3. Quotient(a, b) = Make(q, 0, 0, 0)
    BY DEF Quotient, q
  <2> QED
    BY <2>1, <2>2, <2>3, MakeType DEF Value
<1> HIDE DEF P3, q, la, lb, B
<1>5. Value(a) < (q + 1) * Value(b)
  <2>1. (a[3] + 1) * P3 <= ((q + 1) * b[3]) * P3
    <3>1. (q + 1) * b[3] \in Nat /\ a[3] + 1 \in Nat
      BY <1>1, <1>3
    <3> QED
      BY <1>1, <1>3, <3>1, Monotone
  <2>2. (a[3] + 1) * P3 = a[3] * P3 + P3
    BY <1>1
  <2>3. (q + 1) * (lb + b[3] * P3) = (q + 1) * lb + ((q + 1) * b[3]) * P3
    BY <1>1, <1>3
  <2>4. /\ (q + 1) * lb \in Nat /\ a[3] * P3 \in Nat
        /\ ((q + 1) * b[3]) * P3 \in Nat
    BY <1>1, <1>3
  <2> QED
    BY <1>1, <1>2, <2>1, <2>2, <2>3, <2>4
<1>6. lb = 0 => q * Value(b) <= Value(a)
  <2>1. (q * b[3]) * P3 <= a[3] * P3
    <3>1. q * b[3] \in Nat
      BY <1>1, <1>3
    <3> QED
      BY <1>1, <1>3, <3>1, Monotone
  <2>2. q * (0 + b[3] * P3) = (q * b[3]) * P3
    BY <1>1, <1>3
  <2>3. a[3] * P3 \in Nat /\ (q * b[3]) * P3 \in Nat
    BY <1>1, <1>3
  <2> QED
    BY <1>1, <1>2, <2>1, <2>2, <2>3
<1> QED
  BY <1>1, <1>4, <1>5, <1>6

(* operator/= leaves its array exactly when a number has no fourth         *)
(* element; otherwise its quotient is never too small, and not too large   *)
(* for a divisor that has no other element.                                *)
THEOREM QuotientIsNeverShort == Spec => QuotientNeverShort
<1>1. TypeOK /\ [Next]_vars =>
        [DivideInto =>
            IF Value(x) < Base * Base * Base \/ Value(y) < Base * Base * Base
            THEN x' = Undefined
            ELSE /\ Value(x) < (Value(x') + 1) * Value(y)
                 /\ y[0] = 0 /\ y[1] = 0 /\ y[2] = 0 =>
                        Value(x') * Value(y) <= Value(x)]_vars
  <2> SUFFICES ASSUME TypeOK, DivideInto
               PROVE  IF Value(x) < Base * Base * Base \/ Value(y) < Base * Base * Base
                      THEN x' = Undefined
                      ELSE /\ Value(x) < (Value(x') + 1) * Value(y)
                           /\ y[0] = 0 /\ y[1] = 0 /\ y[2] = 0 =>
                                  Value(x') * Value(y) <= Value(x)
    OBVIOUS
  <2>1. /\ x \in Numbers /\ y \in Numbers
        /\ x' = IF Divisible(x, y) THEN Quotient(x, y) ELSE Undefined
    BY DEF TypeOK, DivideInto, Apply
  <2>2. Divisible(x, y)
          <=> ~(Value(x) < Base * Base * Base \/ Value(y) < Base * Base * Base)
    BY <2>1, TopElement DEF Divisible
  <2>3. CASE Divisible(x, y)
    BY <2>1, <2>2, <2>3, QuotientBounds
  <2>4. CASE ~Divisible(x, y)
    BY <2>1, <2>2, <2>4
  <2> QED
    BY <2>3, <2>4
<1> QED
  BY <1>1, TypeCorrect, PTL DEF Spec, QuotientNeverShort
=============================================================================

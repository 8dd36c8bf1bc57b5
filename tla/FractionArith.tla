---------------------------- MODULE FractionArith ----------------------------
(***************************************************************************)
(* The arithmetic of Fraction in fraction.cpp, which fraction_mt.cpp       *)
(* repeats under locks.  A fraction is sgn * num / denom, num and denom    *)
(* unsigned integers of a fixed width, and err the set of error flags that *)
(* are up.                                                                 *)
(***************************************************************************)
EXTENDS Integers

CONSTANTS
    MaxVal, (* numeric_limits<VAL_t>::max(): 2^w - 1 for w bits            *)
    Crash   (* no result: a division by zero stopped the program           *)

ASSUME MaxValAssumption == MaxVal \in Nat \ {0}

Vals == 0 .. MaxVal

Wrap(x) == x % (MaxVal + 1)

(* Euclid's algorithm.                                                     *)
Euclid[p \in Vals \X Vals] ==
    LET a == p[1]
        b == p[2]
    IN  IF b = 0 THEN a
        ELSE IF a = 0 THEN b
        ELSE IF a = b THEN a
        ELSE IF a > b THEN Euclid[<<b, a % b>>]
        ELSE Euclid[<<a, b % a>>]

Gcd(a, b) == Euclid[<<a, b>>]

Sgn(v) == IF v > 0 THEN 1 ELSE IF v < 0 THEN -1 ELSE 0

(* std::abs, which is undefined for the smallest number of a type: no      *)
(* caller here passes that one.                                            *)
Abs(v) == IF v < 0 THEN -v ELSE v

(* Divides by both of its arguments.  When one is 0 the behaviour is       *)
(* undefined: the division stops the program, or a compiler that sees what *)
(* is being tested has made it a test of the product, which fits.          *)
MultiOverflow(a, b) == 0 \notin {a, b} /\ (a > MaxVal \div b \/ b > MaxVal \div a)
Outcomes(undefined, result) == IF undefined THEN {Crash, result} ELSE {result}

(* Mutant: nothing is divided out.                                         *)
ConstructAsGiven(num, denom, sgn, err) ==
    [num |-> num, denom |-> denom, sgn |-> sgn,
     err |-> IF denom # 0 THEN err ELSE err \cup {IF num # 0 THEN "Inf" ELSE "NaN"}]

(* The constructor.                                                        *)
Construct(num, denom, sgn, err) ==
    LET gcd == Gcd(num, denom)
    IN  IF denom # 0
        THEN [num |-> num \div gcd, denom |-> denom \div gcd, sgn |-> sgn, err |-> err]
        ELSE [num |-> num, denom |-> denom, sgn |-> sgn,
              err |-> err \cup {IF num # 0 THEN "Inf" ELSE "NaN"}]
-----------------------------------------------------------------------------
(* What multiplying two fractions that have no error comes to, before it   *)
(* is stored or handed to the constructor.                                 *)
Product(num, denom) == [num |-> num, denom |-> denom, overflow |-> FALSE]
Overflowed(num, denom) == [num |-> num, denom |-> denom, overflow |-> TRUE]

Divides(d, n) == n % d = 0

(* Optimization 1: a numerator is a multiple of the other's denominator,   *)
(* unless it is the left one and 0: that counts as not having been divided.*)
DividesLeft(a, b) == a.num # 0 /\ Divides(b.denom, a.num)
CrossReduces(a, b) == DividesLeft(a, b) \/ Divides(a.denom, b.num)

(* Mutant: the denominator that was divided out is the one that is kept.   *)
CrossReducedSwapped(a, b) ==
    LET left == a.num \div b.denom
        right == b.num \div a.denom
        times(x, y, denom) == IF MultiOverflow(x, y) THEN Overflowed(MaxVal, a.denom)
                                                     ELSE Product(x * y, denom)
    IN  CASE ~Divides(a.denom, b.num) -> times(left, b.num, b.denom)
          [] ~DividesLeft(a, b)       -> times(a.num, right, a.denom)
          [] OTHER                    -> times(left, right, 1)

CrossReduced(a, b) ==
    LET left == a.num \div b.denom
        right == b.num \div a.denom
        times(x, y, denom) == IF MultiOverflow(x, y) THEN Overflowed(MaxVal, a.denom)
                                                     ELSE Product(x * y, denom)
    IN  CASE ~Divides(a.denom, b.num) -> times(left, b.num, a.denom)
          [] ~DividesLeft(a, b)       -> times(a.num, right, b.denom)
          [] OTHER                    -> times(left, right, 1)

(* Optimization 2, tried otherwise: a denominator is a multiple of the     *)
(* other's numerator.                                                      *)
Inverts(a, b) == a.num # 0 /\ (Divides(a.num, b.denom) \/ Divides(b.num, a.denom))

Inverted(a, b) ==
    LET left == b.denom \div a.num
        right == a.denom \div b.num
        unless(x, y, product) == IF MultiOverflow(x, y) THEN Overflowed(a.num, MaxVal)
                                                        ELSE product
    IN  CASE ~Divides(b.num, a.denom) ->
                 unless(left, b.denom, Product(0, a.denom))
          [] ~Divides(a.num, b.denom) ->
                 unless(b.denom, right, Product(Wrap(a.num * right), b.denom))
          [] OTHER -> unless(left, right, Product(1, left * right))

(* The general case: what overflows saturates, the rest is left as it was. *)
Multiplied(a, b) ==
    LET numOverflow == MultiOverflow(a.num, b.num)
        denomOverflow == MultiOverflow(a.denom, b.denom)
    IN  IF numOverflow \/ denomOverflow
        THEN Overflowed(IF numOverflow THEN MaxVal ELSE a.num,
                        IF denomOverflow THEN MaxVal ELSE a.denom)
        ELSE Product(a.num * b.num, a.denom * b.denom)

General(a, b) == ~CrossReduces(a, b) /\ ~Inverts(a, b)

Multiply(a, b) ==
    CASE CrossReduces(a, b)                         -> CrossReduced(a, b)
      [] ~CrossReduces(a, b) /\ Inverts(a, b)       -> Inverted(a, b)
      [] General(a, b)                              -> Multiplied(a, b)

(* A numerator that is 0 reaches MultiOverflow on every path.              *)
HasZero(a, b) == 0 \in {a.num, b.num}

Flagged(err, p) == IF p.overflow THEN err \cup {"Overflow"} ELSE err

(* What an operand with an error makes of num and denom; operator* starts  *)
(* from 0 / 0, operator*= from the left operand.                           *)
Erroneous(num, denom, err) ==
    IF "NaN" \in err THEN [num |-> 0, denom |-> 0]
    ELSE IF "Inf" \in err THEN [num |-> 1, denom |-> 0]
    ELSE [num |-> IF "Overflow" \in err THEN MaxVal ELSE num, denom |-> denom]

(* operator*                                                               *)
Times(a, b) ==
    LET err == a.err \cup b.err
        bad == Erroneous(0, 0, err)
        p == Multiply(a, b)
    IN  IF err # {} THEN {Construct(bad.num, bad.denom, a.sgn * b.sgn, err)}
        ELSE IF 0 \in {a.denom, b.denom} THEN {Crash}
        ELSE Outcomes(HasZero(a, b),
                      Construct(p.num, p.denom, a.sgn * b.sgn, Flagged({}, p)))

(* operator*=                                                              *)
TimesInto(a, b) ==
    LET err == a.err \cup b.err
        bad == Erroneous(a.num, a.denom, err)
        p == Multiply(a, b)
        gcd == IF General(a, b) /\ ~p.overflow THEN Gcd(p.num, p.denom) ELSE 1
    IN  IF err # {}
        THEN {[num |-> bad.num, denom |-> bad.denom, sgn |-> a.sgn * b.sgn, err |-> err]}
        ELSE IF 0 \in {a.denom, b.denom} THEN {Crash}
        ELSE Outcomes(HasZero(a, b), [num |-> p.num \div gcd, denom |-> p.denom \div gcd,
                                      sgn |-> a.sgn, err |-> Flagged({}, p)])
-----------------------------------------------------------------------------
(* operator* with an integer on either side.                               *)
Scaled(a, v) ==
    LET overflow == MultiOverflow(a.num, Abs(v))
        num == IF overflow THEN MaxVal ELSE a.num * Abs(v)
    IN  Outcomes(a.num = 0 \/ v = 0,
                 Construct(num, a.denom, a.sgn * Sgn(v),
                           IF overflow THEN {"Overflow"} ELSE {}))

(* operator*= with an integer: a product that can not be reduced is        *)
(* computed and not stored.                                                *)
ScaledInto(a, v) ==
    LET sgn == a.sgn * Sgn(v)
        num == a.num * Abs(v)
        gcd == Gcd(num, a.denom)
    IN  IF v = 0 THEN {[a EXCEPT !.num = 0, !.denom = 1, !.sgn = 0]}
        ELSE IF MultiOverflow(a.num, Abs(v)) THEN {[a EXCEPT !.num = MaxVal, !.sgn = sgn]}
        ELSE Outcomes(a.num = 0,
                      IF gcd > 1
                      THEN [a EXCEPT !.num = num \div gcd, !.denom = @ \div gcd, !.sgn = sgn]
                      ELSE [a EXCEPT !.sgn = sgn])

(* operator= and its moving twin leave the sign and the flags alone.       *)
Assigned(a, b) == [a EXCEPT !.num = b.num, !.denom = b.denom]

(* operator==                                                              *)
Equal(a, b) ==
    /\ a.err = {} /\ b.err = {}
    /\ a.num = b.num /\ a.denom = b.denom /\ a.sgn = b.sgn
=============================================================================

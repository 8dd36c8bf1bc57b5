---------------------------- MODULE FractionCalc ----------------------------
(***************************************************************************)
(* A program that calculates with Fraction objects: f and g are built from *)
(* integers, h is each time a new object that holds the result of an       *)
(* operator; f is also changed in place and assigned to.                   *)
(***************************************************************************)
EXTENDS FractionArith

CONSTANTS
    MaxInput, (* the largest number a fraction is built from               *)
    Integrals,(* the integers fractions are multiplied by                  *)
    MaxCalls, (* how many operations the program makes: bounds the run    *)
    NoObject  (* what h is before the first operator made one              *)

ASSUME InputsAssumption ==
    /\ MaxInput \in 0 .. MaxVal
    /\ Integrals \subseteq Int /\ \A v \in Integrals : Abs(v) <= MaxVal
    /\ MaxCalls \in Nat

VARIABLES f, g, h, made

calcVars == <<f, g, h, made>>

Built == {Construct(num, denom, sgn, {}) :
             num \in 0 .. MaxInput, denom \in 0 .. MaxInput, sgn \in {-1, 1}}

CalcInit == f \in Built /\ g \in Built /\ h = NoObject /\ made = 0

(* The program runs until a division by zero stops it.                     *)
Running == f # Crash /\ h # Crash
Called == Running /\ made < MaxCalls /\ made' = made + 1

NewProduct == Called /\ h' \in Times(f, g) /\ UNCHANGED <<f, g>>
NewScaled(v) == Called /\ h' \in Scaled(f, v) /\ UNCHANGED <<f, g>>
MultiplyBy == Called /\ f' \in TimesInto(f, g) /\ UNCHANGED <<g, h>>
ScaleBy(v) == Called /\ f' \in ScaledInto(f, v) /\ UNCHANGED <<g, h>>
Assign == Called /\ h # NoObject /\ f' = Assigned(f, h) /\ UNCHANGED <<g, h>>

CalcNext ==
    \/ NewProduct \/ MultiplyBy \/ Assign
    \/ \E v \in Integrals : NewScaled(v) \/ ScaleBy(v)

CalcSpec == CalcInit /\ [][CalcNext]_calcVars
-----------------------------------------------------------------------------
(* Numbers whose product is defined: no error, no 0.                       *)
Sound(a, b) == a.err = {} /\ b.err = {} /\ 0 \notin {a.num, a.denom, b.num, b.denom}

AsFraction(v) == [num |-> Abs(v), denom |-> 1, sgn |-> Sgn(v), err |-> {}]

(* p is a * b, or it is flagged and a product in the way of it does not    *)
(* fit.                                                                    *)
IsProduct(p, a, b) ==
    \/ /\ p.err = {}
       /\ p.sgn = a.sgn * b.sgn
       /\ p.num * a.denom * b.denom = a.num * b.num * p.denom
    \/ /\ p.err = {"Overflow"}
       /\ a.num * b.num > MaxVal \/ a.denom * b.denom > MaxVal

(* Optimization 2 with only one of its conditions.                         *)
HalfInverts(a, b) ==
    /\ ~CrossReduces(a, b) /\ Inverts(a, b)
    /\ ~(Divides(a.num, b.denom) /\ Divides(b.num, a.denom))

(* operator== finds two objects that a constructor made equal exactly when *)
(* they are the same number, 0 apart, which may have a sign: the           *)
(* constructor leaves no two ways to represent it.                         *)
EqualIsSameValue ==
    h \notin {NoObject, Crash} =>
        (g.err = {} /\ h.err = {} /\ 0 \notin {g.num, h.num} =>
            (Equal(g, h) <=> g.sgn * g.num * h.denom = h.sgn * h.num * g.denom))

(* operator*, with a fraction or an integer, computes the product or says  *)
(* that it overflowed: none of its shortcuts loses a factor, a sign or a   *)
(* carry, except for the one that is taken when only one denominator is a  *)
(* multiple of a numerator.                                                *)
ProductExact ==
    [][/\ NewProduct /\ Sound(f, g) /\ ~HalfInverts(f, g) => IsProduct(h', f, g)
       /\ \A v \in Integrals :
             NewScaled(v) /\ Sound(f, AsFraction(v)) =>
                 IsProduct(h', f, AsFraction(v))]_calcVars

(* A multiplication yields the product: of two fractions, or in place, by  *)
(* a fraction or an integer.  The code refutes each of the three.          *)
ProductIsProduct ==
    [][/\ NewProduct /\ Sound(f, g) => IsProduct(h', f, g)
       /\ MultiplyBy /\ Sound(f, g) /\ ~HalfInverts(f, g) => IsProduct(f', f, g)
       /\ \A v \in Integrals :
             ScaleBy(v) /\ Sound(f, AsFraction(v)) =>
                 IsProduct(f', f, AsFraction(v))]_calcVars
=============================================================================

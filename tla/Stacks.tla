------------------------------- MODULE Stacks -------------------------------
(***************************************************************************)
(* lookAndSay.cpp and desktop_calc.cpp as operators.  A std::stack is a    *)
(* sequence whose last element is its top.                                 *)
(***************************************************************************)
EXTENDS Integers, Sequences, SequencesExt

(* processNidentical: equal numbers on top of the input are counted, the   *)
(* count goes on from one group to the next.                               *)
Group(s) == Len(s) - SelectLastInSeq(s, LAMBDA x : x # Last(s))

(* Mutant: the number on top is counted again in every group.              *)
SaidAgain(say, s, count) ==
    IF s = <<>> THEN <<>>
    ELSE LET counted == count + Group(s)
         IN  <<counted, Last(s)>> \o say[<<SubSeq(s, 1, Len(s) - Group(s)), counted>>]

Said(say, s, count) ==
    IF s = <<>> THEN <<>>
    ELSE LET counted == count + Group(s) - 1
         IN  <<counted, Last(s)>> \o say[<<SubSeq(s, 1, Len(s) - Group(s)), counted>>]

processNidentical(s) ==
    LET say[p \in Seq(Int) \X Nat] == Said(say, p[1], p[2])
    IN  say[<<s, 1>>]

-----------------------------------------------------------------------------
(* A character of the calculator's input is a digit 0 .. 9 or one of these.*)
Plus == 10
Times == 11
Blank == 12

(* unwind_stack: the digits on a stack as a number.                        *)
Unwound(digits) == FoldLeft(LAMBDA n, d : 10 * n + d, 0, digits)

(* vals with its two topmost numbers replaced by what the operator makes   *)
(* of them; std::stack does not check that there are two.                  *)
Underflow == <<>>

Reduced(vals, operator) ==
    IF Len(vals) < 2 THEN Underflow
    ELSE LET x == vals[Len(vals) - 1]
             y == Last(vals)
         IN  Append(SubSeq(vals, 1, Len(vals) - 2),
                    IF operator = Times THEN x * y ELSE x + y)

(* Mutant: a product waiting on top is left for the end.                   *)
PushLazily(s, c) ==
    [num |-> <<>>,
     op |-> IF c = Blank THEN s.op ELSE Append(s.op, c),
     vals |-> Append(s.vals, Unwound(s.num))]

(* A character that is no digit ends a number.  A product waiting on top   *)
(* is worked out before the next operator is pushed.                       *)
Push(s, c) ==
    LET vals == Append(s.vals, Unwound(s.num))
        product == s.op # <<>> /\ Last(s.op) = Times
        op == IF product THEN Front(s.op) ELSE s.op
    IN  [num |-> <<>>,
         op |-> IF c = Blank THEN op ELSE Append(op, c),
         vals |-> IF product THEN Reduced(vals, Times) ELSE vals]

Scanned(s, c) == IF c \in 0 .. 9 THEN [s EXCEPT !.num = Append(@, c)] ELSE Push(s, c)

(* At the last character the operators left are applied from the top, and  *)
(* the numbers left are added up.                                          *)
Finished(s) ==
    FoldRight(LAMBDA operator, vals : Reduced(vals, operator),
              s.op, Append(s.vals, Unwound(s.num)))

Stacked(text) == FoldLeft(Scanned, [num |-> <<>>, op |-> <<>>, vals |-> <<>>], text)

finalRes(text) ==
    IF text = <<>> THEN 0
    ELSE FoldLeft(LAMBDA n, v : n + v, 0, Finished(Stacked(text)))
=============================================================================

----------------------------- MODULE Algorithms -----------------------------
(***************************************************************************)
(* The programs that compute one result from one input: heap.cpp,          *)
(* merge_sort.cpp, lookAndSay.cpp and desktop_calc.cpp, each run once on   *)
(* an input of its own.                                                    *)
(***************************************************************************)
EXTENDS Sorting, Stacks

CONSTANTS
    Vectors,     (* functions of 0 .. n - 1, for heap and merge sort       *)
    Utterances,  (* sequences of numbers, for look-and-say                 *)
    Expressions  (* sums of products of numbers, for the calculator        *)

ASSUME VectorsAssumption ==
    \A v \in Vectors : Size(v) \in Nat /\ v \in [0 .. Size(v) - 1 -> Int]
ASSUME UtterancesAssumption == Utterances \subseteq Seq(Int)
ASSUME ExpressionsAssumption ==
    Expressions \subseteq Seq(Seq(Nat) \ {<<>>}) \ {<<>>}

VARIABLES algorithm, given, output

algorithmsVars == <<algorithm, given, output>>

AlgorithmsInit == algorithm = "none" /\ given = <<>> /\ output = <<>>

Run(p, in, out) ==
    /\ algorithm = "none"
    /\ algorithm' = p /\ given' = in /\ output' = out

RunHeap == \E v \in Vectors : Run("heap", v, MakeHeap(v))

RunMergeSort == \E v \in Vectors : Run("merge_sort", v, MergeSort(v))

RunLookAndSay == \E s \in Utterances : Run("lookAndSay", s, processNidentical(s))

(* An expression is a sequence of products, a product one of numbers.      *)
Digits(n) ==
    LET digits[k \in Nat] ==
            IF k < 10 THEN <<k>> ELSE Append(digits[k \div 10], k % 10)
    IN  digits[n]

Joined(parts, c) == FoldLeft(LAMBDA t, p : t \o <<c>> \o p, Head(parts), Tail(parts))
ProductText(product) == Joined([j \in DOMAIN product |-> Digits(product[j])], Times)
TextOf(terms) == Joined([j \in DOMAIN terms |-> ProductText(terms[j])], Plus)

RunCalculator == \E e \in Expressions : Run("desktop_calc", e, finalRes(TextOf(e)))

AlgorithmsNext ==
    \/ RunHeap \/ RunMergeSort \/ RunLookAndSay
    \/ RunCalculator

AlgorithmsSpec == AlgorithmsInit /\ [][AlgorithmsNext]_algorithmsVars

-----------------------------------------------------------------------------
SameElements(v, w) ==
    /\ DOMAIN v = DOMAIN w
    /\ \A j \in DOMAIN v : Cardinality({i \in DOMAIN v : v[i] = v[j]}) =
                           Cardinality({i \in DOMAIN w : w[i] = v[j]})

(* The main loop of heap.cpp leaves a heap of the same numbers: no entry   *)
(* is greater than its parent, though Heapify exchanges the top with its   *)
(* left child and then, changed, with its right one, and repairs both.     *)
MakesHeap ==
    algorithm = "heap" =>
        /\ SameElements(given, output)
        /\ \A i \in DOMAIN output : output[i] <= output[Parent(i)]

(* merge_sort.cpp leaves the numbers in falling order in a and, if there   *)
(* are at least two, in b, which is what main prints; one number alone is  *)
(* never copied to b.                                                      *)
Sorts ==
    algorithm = "merge_sort" =>
        /\ SameElements(given, output.a)
        /\ \A i, j \in DOMAIN given : i < j => output.a[i] >= output.a[j]
        /\ Size(given) # 1 => output.b = output.a

(* Nothing is lost in what look-and-say prints, though the count runs on:  *)
(* by how much it grew says how often the number was there.                *)
Counted(j) == IF j = 1 THEN output[1] ELSE output[j] - output[j - 2] + 1

RunsCanBeReadBack ==
    algorithm = "lookAndSay" =>
        Reverse(given) =
            FlattenSeq([j \in 1 .. Len(output) \div 2 |->
                           [n \in 1 .. Counted(2 * j - 1) |-> output[2 * j]]])

(* The calculator computes the value of an expression: products before     *)
(* sums, however many of each follow one another.                          *)
Total(s) == FoldLeft(LAMBDA x, y : x + y, 0, s)
Multiplied(s) == FoldLeft(LAMBDA x, y : x * y, 1, s)

ComputesValue ==
    algorithm = "desktop_calc" =>
        output = Total([j \in DOMAIN given |-> Multiplied(given[j])])
=============================================================================

--------------------------- MODULE FractionAtomic ---------------------------
(***************************************************************************)
(* What a thread-safe Fraction promises its callers: every operation takes *)
(* effect at one moment between its call and its return, working with the  *)
(* values its operands have at that moment.                                *)
(***************************************************************************)
EXTENDS FractionOps

VARIABLES
    value,   (* the value of each fraction                                 *)
    calling, (* the operation each thread is inside, or NoOp               *)
    saw,     (* the operands' values when it took effect; before that <<>> *)
    calls    (* how many operations each thread has called                 *)

vars == <<value, calling, saw, calls>>

Init ==
    /\ value = [x \in Fractions |-> 0]
    /\ calling = [t \in Threads |-> NoOp]
    /\ saw = [t \in Threads |-> <<>>]
    /\ calls = [t \in Threads |-> 0]

Call(t) ==
    /\ calling[t] = NoOp
    /\ calls[t] < MaxOps
    /\ \E op \in Operations : calling' = [calling EXCEPT ![t] = op]
    /\ calls' = [calls EXCEPT ![t] = @ + 1]
    /\ UNCHANGED <<value, saw>>

TakeEffect(t) ==
    LET op == calling[t]
        operands == <<value[op.self], value[op.other]>>
    IN  /\ op # NoOp
        /\ saw[t] = <<>>
        /\ saw' = [saw EXCEPT ![t] = operands]
        /\ value' = IF Writes(op)
                    THEN [value EXCEPT ![op.self] = Written(op, operands[1], operands[2])]
                    ELSE value
        /\ UNCHANGED <<calling, calls>>

Return(t) ==
    /\ calling[t] # NoOp
    /\ saw[t] # <<>>
    /\ calling' = [calling EXCEPT ![t] = NoOp]
    /\ saw' = [saw EXCEPT ![t] = <<>>]
    /\ UNCHANGED <<value, calls>>

Next == \E t \in Threads : Call(t) \/ TakeEffect(t) \/ Return(t)

Spec == Init /\ [][Next]_vars
=============================================================================

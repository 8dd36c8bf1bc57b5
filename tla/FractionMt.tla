----------------------------- MODULE FractionMt -----------------------------
(***************************************************************************)
(* The thread-safe Fraction of fraction_mt.cpp: every object carries a     *)
(* shared_timed_mutex, and an operation locks its operands, shared or      *)
(* unique, before it touches them.  Operations on two objects lock both    *)
(* through std::lock, which is external: it blocks on one of the locks,    *)
(* tries the other, and on failure lets go of the first and starts again.  *)
(* Which one it blocks on differs between C++ libraries: either may be.    *)
(*                                                                         *)
(* An operation reads and writes num_ and denom_ one at a time.  Values    *)
(* are abstracted as in FractionOps; a fraction whose num_ and denom_   *)
(* differ here is one of whose members only one was written.  What is      *)
(* computed between the reads and the writes is in FractionArith.          *)
(***************************************************************************)
EXTENDS FractionOps, FiniteSets, Sequences

Operands(op) == {op.self, op.other}

(* shared_lock and unique_lock on the mutex of a fraction.                 *)
Shared(x) == [of |-> x, mode |-> "shared"]
Unique(x) == [of |-> x, mode |-> "unique"]

(* Mutants: every operand is locked shared; an assignment does not lock    *)
(* its right operand; multiplying in place locks through operator*, too.   *)
LocksShared(op) ==
    IF Binary(op) THEN <<Shared(op.other), Shared(op.self)>> ELSE <<Shared(op.self)>>

LocksLeftOnly(op) == <<Unique(op.self)>>

LocksTwice(op) ==
    CASE op.kind = "scaleAssign" -> <<Unique(op.self), Unique(op.self)>>
      [] Binary(op)              -> <<Shared(op.other), Unique(op.self)>>
      [] OTHER                   -> <<Unique(op.self)>>

(* The locks an operation takes: l1 on the right operand, l2 on the left;  *)
(* l where there is one.  First operator= and operator*= of two fractions. *)
AssignmentLocks(op) ==
    CASE op.kind \in {"assign", "timesAssign"} -> <<Shared(op.other), Unique(op.self)>>
      [] op.kind = "moveAssign"                -> <<Unique(op.other), Unique(op.self)>>

(* operator*= with an integer, and operator* of two fractions.             *)
MultiplicationLocks(op) ==
    CASE op.kind = "scaleAssign" -> <<Unique(op.self)>>
      [] op.kind = "times"       -> <<Shared(op.other), Unique(op.self)>>

(* operator* with an integer, and operator==.                              *)
ScaleOrEqualLocks(op) ==
    CASE op.kind = "scale" -> <<Unique(op.self)>>
      [] op.kind = "equal" -> <<Shared(op.other), Shared(op.self)>>

(* operator<<                                                              *)
PrintLocks(op) == <<Shared(op.self)>>

(* The copy constructor takes none.                                        *)
Locks(op) ==
    CASE op.kind \in {"assign", "moveAssign", "timesAssign"} -> AssignmentLocks(op)
      [] op.kind \in {"scaleAssign", "times"}               -> MultiplicationLocks(op)
      [] op.kind \in {"scale", "equal"}                     -> ScaleOrEqualLocks(op)
      [] op.kind = "print"                                  -> PrintLocks(op)
      [] op.kind = "copy"                                   -> <<>>

VARIABLES
    num, denom, (* the members of each fraction                            *)
    calling,    (* the operation each thread is inside, or NoOp            *)
    pc,         (* where in it the thread is                               *)
    held,       (* which of the operation's locks the thread holds         *)
    seenNum,    (* the operands' num_ as the thread read them              *)
    seenDenom,  (* the operands' denom_ as the thread read them            *)
    calls       (* how many operations each thread has called              *)

vars == <<num, denom, calling, pc, held, seenNum, seenDenom, calls>>

values == <<num, denom>>
seen == <<seenNum, seenDenom>>

Init ==
    /\ num = [x \in Fractions |-> 0]
    /\ denom = [x \in Fractions |-> 0]
    /\ calling = [t \in Threads |-> NoOp]
    /\ pc = [t \in Threads |-> "idle"]
    /\ held = [t \in Threads |-> {}]
    /\ seenNum = [t \in Threads |-> <<0, 0>>]
    /\ seenDenom = [t \in Threads |-> <<0, 0>>]
    /\ calls = [t \in Threads |-> 0]

Goto(t, line) == pc' = [pc EXCEPT ![t] = line]

(* A mutex grants a lock unless another one, of whatever thread, stands in *)
(* the way: a unique lock excludes every other.                            *)
Compatible(l, m) == l.of # m.of \/ (l.mode = "shared" /\ m.mode = "shared")

Grantable(t, i) ==
    \A u \in Threads : \A j \in held[u] :
        <<u, j>> = <<t, i>> \/ Compatible(Locks(calling[t])[i], Locks(calling[u])[j])

Call(t) ==
    /\ pc[t] = "idle"
    /\ calls[t] < MaxOps
    /\ \E op \in Operations :
          /\ calling' = [calling EXCEPT ![t] = op]
          /\ Goto(t, IF Locks(op) = <<>> THEN "readNum" ELSE "lock")
    /\ calls' = [calls EXCEPT ![t] = @ + 1]
    /\ UNCHANGED <<values, held, seen>>

(* The lock that is blocked on; the only one of an operation on one object.*)
LockOne(t, i) ==
    /\ pc[t] = "lock"
    /\ held[t] = {}
    /\ i \in DOMAIN Locks(calling[t])
    /\ Grantable(t, i)
    /\ held' = [held EXCEPT ![t] = {i}]
    /\ Goto(t, IF Len(Locks(calling[t])) = 1 THEN "readNum" ELSE "lock")
    /\ UNCHANGED <<values, calling, seen, calls>>

(* try_lock on the other one succeeds, or the first one is unlocked.       *)
TryOther(t, i) ==
    /\ pc[t] = "lock"
    /\ held[t] # {}
    /\ i \in DOMAIN Locks(calling[t]) \ held[t]
    /\ Grantable(t, i)
    /\ held' = [held EXCEPT ![t] = @ \cup {i}]
    /\ Goto(t, "readNum")
    /\ UNCHANGED <<values, calling, seen, calls>>

BackOff(t, i) ==
    /\ pc[t] = "lock"
    /\ held[t] # {}
    /\ i \in DOMAIN Locks(calling[t]) \ held[t]
    /\ ~Grantable(t, i)
    /\ held' = [held EXCEPT ![t] = {}]
    /\ UNCHANGED <<values, calling, pc, seen, calls>>

ReadNum(t) ==
    /\ pc[t] = "readNum"
    /\ seenNum' = [seenNum EXCEPT ![t] = <<num[calling[t].self], num[calling[t].other]>>]
    /\ Goto(t, "readDenom")
    /\ UNCHANGED <<values, calling, held, seenDenom, calls>>

ReadDenom(t) ==
    /\ pc[t] = "readDenom"
    /\ seenDenom' =
          [seenDenom EXCEPT ![t] = <<denom[calling[t].self], denom[calling[t].other]>>]
    /\ Goto(t, IF Writes(calling[t]) THEN "writeNum" ELSE "unlock")
    /\ UNCHANGED <<values, calling, held, seenNum, calls>>

WriteNum(t) ==
    /\ pc[t] = "writeNum"
    /\ num' = [num EXCEPT ![calling[t].self] =
                  Written(calling[t], seenNum[t][1], seenNum[t][2])]
    /\ Goto(t, "writeDenom")
    /\ UNCHANGED <<denom, calling, held, seen, calls>>

WriteDenom(t) ==
    /\ pc[t] = "writeDenom"
    /\ denom' = [denom EXCEPT ![calling[t].self] =
                    Written(calling[t], seenDenom[t][1], seenDenom[t][2])]
    /\ Goto(t, "unlock")
    /\ UNCHANGED <<num, calling, held, seen, calls>>

(* The lock objects are destroyed in the reverse order of their creation.  *)
Unlock(t) ==
    /\ pc[t] = "unlock"
    /\ \E i \in held[t] :
          /\ \A j \in held[t] : j <= i
          /\ held' = [held EXCEPT ![t] = @ \ {i}]
    /\ UNCHANGED <<values, calling, pc, seen, calls>>

Return(t) ==
    /\ pc[t] = "unlock"
    /\ held[t] = {}
    /\ calling' = [calling EXCEPT ![t] = NoOp]
    /\ Goto(t, "idle")
    /\ UNCHANGED <<values, held, seen, calls>>

Lock(t) == \E i \in 1 .. 2 : LockOne(t, i) \/ TryOther(t, i)

Run(t) == \/ ReadNum(t) \/ ReadDenom(t) \/ WriteNum(t) \/ WriteDenom(t)
          \/ Unlock(t) \/ Return(t)

Step(t) == Lock(t) \/ (\E i \in 1 .. 2 : BackOff(t, i)) \/ Run(t)

(* Every thread has made its calls and they returned.                      *)
Done ==
    /\ \A t \in Threads : pc[t] = "idle" /\ calls[t] = MaxOps
    /\ UNCHANGED vars

Next == (\E t \in Threads : Call(t) \/ Step(t)) \/ Done

Spec == Init /\ [][Next]_vars

(* A thread that can move keeps moving; one that is again and again able   *)
(* to take the lock it is after, blocked on or tried, does take it.        *)
FairSpec ==
    Spec /\ \A t \in Threads :
                /\ WF_vars(Step(t))
                /\ \A i \in 1 .. 2 : SF_vars(LockOne(t, i)) /\ SF_vars(TryOther(t, i))
-----------------------------------------------------------------------------
Lines == {"idle", "lock", "readNum", "readDenom", "writeNum", "writeDenom", "unlock"}

(* Every variable holds a value of its type; a thread is inside an         *)
(* operation exactly when it is past its call, and only a writing          *)
(* operation gets to the lines that write.                                 *)
TypeOK ==
    /\ num \in [Fractions -> Nat] /\ denom \in [Fractions -> Nat]
    /\ pc \in [Threads -> Lines]
    /\ calling \in [Threads -> Operations \cup {NoOp}]
    /\ \A t \in Threads :
          /\ calling[t] = NoOp <=> pc[t] = "idle"
          /\ pc[t] \in {"writeNum", "writeDenom"} => Writes(calling[t])
    /\ held \in [Threads -> SUBSET (1 .. 2)]
    /\ seenNum \in [Threads -> Nat \X Nat] /\ seenDenom \in [Threads -> Nat \X Nat]
    /\ calls \in [Threads -> 0 .. MaxOps]

(* Between its locking and its unlocking a thread accesses its operands.   *)
Accessing(t) == pc[t] \in {"readNum", "readDenom", "writeNum", "writeDenom"}

(* No data race: while an operation that writes a fraction is accessing    *)
(* its members no other thread's operation accesses them.  The choice of a *)
(* shared or a unique lock for each operand in each operator is what       *)
(* keeps them apart.                                                       *)
NoDataRace ==
    \A t, u \in Threads :
        t # u /\ Accessing(t) /\ Accessing(u) /\ Writes(calling[t]) =>
            calling[t].self \notin Operands(calling[u])

(* No operation ever works with half of one value and half of another: the *)
(* num_ and the denom_ it read of an operand were written together.        *)
NoTornRead ==
    \A t \in Threads :
        pc[t] \in {"writeNum", "writeDenom", "unlock"} => seenNum[t] = seenDenom[t]

(* Every operation takes effect at one moment between its call and its     *)
(* return.  A writing one does when it writes num_, any other when it has  *)
(* read its operands.                                                      *)
Saw ==
    [t \in Threads |-> IF pc[t] \in {"writeDenom", "unlock"} THEN seenNum[t] ELSE <<>>]

Atomic == INSTANCE FractionAtomic WITH value <- num, saw <- Saw
IsAtomic == Atomic!Spec

(* Every operation called returns.                                         *)
CallsReturn == \A t \in Threads : calling[t] # NoOp ~> calling[t] = NoOp
=============================================================================

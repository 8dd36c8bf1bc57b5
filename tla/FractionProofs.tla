--------------------------- MODULE FractionProofs ---------------------------
(***************************************************************************)
(* Proofs about the Fraction classes.  First FractionMt, for every set of  *)
(* threads, fractions and operations; the theorems about races need that   *)
(* no operation is the copy constructor, which takes no lock.  Then        *)
(* FractionCalc, for numbers of any width: Euclid's algorithm, lowest      *)
(* terms, and the shortcuts of the multiplications.                        *)
(***************************************************************************)
EXTENDS FractionMt, FractionCalc, WellFoundedInduction, TLAPS

NoCopies == \A op \in Operations : op.kind # "copy"

(* What a writing operation leaves is a value.                             *)
LEMMA WrittenType ==
    ASSUME NEW op, Writes(op), NEW m \in Nat, NEW n \in Nat
    PROVE  Written(op, m, n) \in Nat
BY DEF Writes, Written

(* Every step keeps every variable in its type.                            *)
THEOREM TypeCorrect == Spec => []TypeOK
<1>1. Init => TypeOK
  BY MaxOpsAssumption DEF Init, TypeOK, Lines
<1>2. TypeOK /\ [Next]_vars => TypeOK'
  <2> SUFFICES ASSUME TypeOK, [Next]_vars PROVE TypeOK'
    OBVIOUS
  <2> USE DEF TypeOK, Lines, Goto, values, seen
  <2>1. ASSUME NEW t \in Threads, Call(t) PROVE TypeOK'
    <3>1. PICK op \in Operations :
             /\ calling' = [calling EXCEPT ![t] = op]
             /\ pc' = [pc EXCEPT ![t] = IF Locks(op) = <<>> THEN "readNum" ELSE "lock"]
      BY <2>1 DEF Call
    <3>2. pc'[t] \in {"readNum", "lock"} /\ calling'[t] # NoOp
      BY <3>1, OperationsAssumption
    <3>3. pc' \in [Threads -> Lines] /\ calling' \in [Threads -> Operations \cup {NoOp}]
      BY <3>1
    <3>4. ASSUME NEW u \in Threads
          PROVE  /\ calling'[u] = NoOp <=> pc'[u] = "idle"
                 /\ pc'[u] \in {"writeNum", "writeDenom"} => Writes(calling'[u])
      BY <3>1, <3>2
    <3>5. calls' \in [Threads -> 0 .. MaxOps]
      BY <2>1, MaxOpsAssumption DEF Call
    <3> QED
      BY <2>1, <3>3, <3>4, <3>5 DEF Call
  <2>2. ASSUME NEW t \in Threads, NEW i \in 1 .. 2, LockOne(t, i) PROVE TypeOK'
    BY <2>2 DEF LockOne
  <2>3. ASSUME NEW t \in Threads, NEW i \in 1 .. 2, TryOther(t, i) PROVE TypeOK'
    BY <2>3 DEF TryOther
  <2>4. ASSUME NEW t \in Threads, NEW i \in 1 .. 2, BackOff(t, i) PROVE TypeOK'
    BY <2>4 DEF BackOff
  <2>5. ASSUME NEW t \in Threads, ReadNum(t) PROVE TypeOK'
    <3>1. calling[t].self \in Fractions /\ calling[t].other \in Fractions
      BY <2>5, OperationsAssumption DEF ReadNum
    <3> QED
      BY <2>5, <3>1 DEF ReadNum
  <2>6. ASSUME NEW t \in Threads, ReadDenom(t) PROVE TypeOK'
    <3>1. calling[t].self \in Fractions /\ calling[t].other \in Fractions
      BY <2>6, OperationsAssumption DEF ReadDenom
    <3> QED
      BY <2>6, <3>1 DEF ReadDenom
  <2>7. ASSUME NEW t \in Threads, WriteNum(t) PROVE TypeOK'
    <3>1. Written(calling[t], seenNum[t][1], seenNum[t][2]) \in Nat
      BY <2>7, WrittenType DEF WriteNum
    <3> QED
      BY <2>7, <3>1 DEF WriteNum
  <2>8. ASSUME NEW t \in Threads, WriteDenom(t) PROVE TypeOK'
    <3>1. Written(calling[t], seenDenom[t][1], seenDenom[t][2]) \in Nat
      BY <2>8, WrittenType DEF WriteDenom
    <3> QED
      BY <2>8, <3>1 DEF WriteDenom
  <2>9. ASSUME NEW t \in Threads, Unlock(t) PROVE TypeOK'
    BY <2>9 DEF Unlock
  <2>10. ASSUME NEW t \in Threads, Return(t) PROVE TypeOK'
    BY <2>10, OperationsAssumption DEF Return
  <2>11. CASE Done \/ UNCHANGED vars
    BY <2>11 DEF Done, vars
  <2> QED
    BY <2>1, <2>2, <2>3, <2>4, <2>5, <2>6, <2>7, <2>8, <2>9, <2>10, <2>11
    DEF Next, Step, Lock, Run
<1> QED
  BY <1>1, <1>2, PTL DEF Spec
-----------------------------------------------------------------------------
(* Who holds what: a thread holds locks of the operation it is in, all of  *)
(* them while it accesses its operands, and no two locks that are held     *)
(* anywhere exclude each other.                                            *)
LockInv ==
    /\ \A t \in Threads :
          /\ calling[t] = NoOp => held[t] = {}
          /\ calling[t] # NoOp => held[t] \subseteq DOMAIN Locks(calling[t])
          /\ Accessing(t) => held[t] = DOMAIN Locks(calling[t])
    /\ \A t, u \in Threads : \A i \in held[t] : \A j \in held[u] :
          <<t, i>> = <<u, j>> \/ Compatible(Locks(calling[t])[i], Locks(calling[u])[j])

LEMMA CompatibleSymmetric ==
    ASSUME NEW l, NEW m, Compatible(l, m)
    PROVE  Compatible(m, l)
BY DEF Compatible

(* An operation has at most two locks, and none only if it is a copy.      *)
LEMMA LocksShape ==
    ASSUME NEW op \in Operations
    PROVE  /\ DOMAIN Locks(op) = 1 .. Len(Locks(op))
           /\ Len(Locks(op)) \in 0 .. 2
           /\ Locks(op) = <<>> <=> DOMAIN Locks(op) = {}
<1>1. op.kind \in BinaryKinds \cup UnaryKinds
  BY OperationsAssumption
<1>2. \A l, m : /\ <<l, m>> # <<>> /\ Len(<<l, m>>) = 2 /\ DOMAIN <<l, m>> = 1 .. 2
               /\ <<l>> # <<>> /\ Len(<<l>>) = 1 /\ DOMAIN <<l>> = 1 .. 1
  OBVIOUS
<1>3. \/ \E l, m : Locks(op) = <<l, m>>
      \/ \E l : Locks(op) = <<l>>
      \/ Locks(op) = <<>>
  <2>1. CASE op.kind \in {"assign", "timesAssign", "times"}
    BY <2>1 DEF Locks, AssignmentLocks, MultiplicationLocks
  <2>2. CASE op.kind \in {"moveAssign", "equal"}
    BY <2>2 DEF Locks, AssignmentLocks, ScaleOrEqualLocks
  <2>3. CASE op.kind \in {"scaleAssign", "scale", "print"}
    BY <2>3 DEF Locks, MultiplicationLocks, ScaleOrEqualLocks, PrintLocks
  <2>4. CASE op.kind = "copy"
    BY <2>4 DEF Locks
  <2> QED
    BY <1>1, <2>1, <2>2, <2>3, <2>4 DEF BinaryKinds, UnaryKinds
<1> QED
  BY <1>2, <1>3

(* An operation other than a copy has a lock on each operand, and a unique *)
(* one on the fraction it writes.                                          *)
LEMMA LocksCover ==
    ASSUME NEW op \in Operations, op.kind # "copy"
    PROVE  /\ \A x \in Operands(op) : \E i \in DOMAIN Locks(op) : Locks(op)[i].of = x
           /\ Writes(op) => \E i \in DOMAIN Locks(op) :
                               Locks(op)[i] = [of |-> op.self, mode |-> "unique"]
<1>1. /\ op.kind \in BinaryKinds \cup UnaryKinds
      /\ op.kind \in BinaryKinds \/ op.other = op.self
  BY OperationsAssumption DEF Binary
<1>2. CASE op.kind \in {"assign", "timesAssign", "times"}
  <2>1. Locks(op) = <<Shared(op.other), Unique(op.self)>>
    BY <1>2 DEF Locks, AssignmentLocks, MultiplicationLocks
  <2> QED
    BY <2>1 DEF Shared, Unique, Operands
<1>3. CASE op.kind = "moveAssign"
  <2>1. Locks(op) = <<Unique(op.other), Unique(op.self)>>
    BY <1>3 DEF Locks, AssignmentLocks
  <2> QED
    BY <2>1 DEF Shared, Unique, Operands
<1>4. CASE op.kind = "equal"
  <2>1. Locks(op) = <<Shared(op.other), Shared(op.self)>>
    BY <1>4 DEF Locks, ScaleOrEqualLocks
  <2> QED
    BY <1>4, <2>1 DEF Shared, Unique, Operands, Writes
<1>5. CASE op.kind \in {"scaleAssign", "scale"}
  <2>1. Locks(op) = <<Unique(op.self)>>
    BY <1>5 DEF Locks, MultiplicationLocks, ScaleOrEqualLocks
  <2> QED
    BY <1>1, <1>5, <2>1 DEF Shared, Unique, Operands, BinaryKinds
<1>6. CASE op.kind = "print"
  <2>1. Locks(op) = <<Shared(op.self)>>
    BY <1>6 DEF Locks, PrintLocks
  <2> QED
    BY <1>1, <1>6, <2>1 DEF Shared, Unique, Operands, BinaryKinds, Writes
<1> QED
  BY <1>1, <1>2, <1>3, <1>4, <1>5, <1>6 DEF BinaryKinds, UnaryKinds

(* Granting a lock to a thread keeps the held locks apart.                 *)
LEMMA GrantKeepsApart ==
    ASSUME TypeOK, LockInv, NEW t \in Threads, NEW k \in 1 .. 2, Grantable(t, k),
           held' = [held EXCEPT ![t] = @ \cup {k}], calling' = calling
    PROVE  \A u, w \in Threads : \A i \in held'[u] : \A j \in held'[w] :
              <<u, i>> = <<w, j>> \/ Compatible(Locks(calling[u])[i], Locks(calling[w])[j])
<1> SUFFICES ASSUME NEW u \in Threads, NEW w \in Threads,
                    NEW i \in held'[u], NEW j \in held'[w], <<u, i>> # <<w, j>>
             PROVE  Compatible(Locks(calling[u])[i], Locks(calling[w])[j])
  OBVIOUS
<1>1. /\ i \in held[u] \/ <<u, i>> = <<t, k>>
      /\ j \in held[w] \/ <<w, j>> = <<t, k>>
  BY DEF TypeOK
<1>2. CASE i \in held[u] /\ j \in held[w]
  BY <1>2 DEF LockInv
<1>3. CASE <<u, i>> = <<t, k>> /\ j \in held[w]
  BY <1>3 DEF Grantable
<1>4. CASE i \in held[u] /\ <<w, j>> = <<t, k>>
  <2>1. Compatible(Locks(calling[t])[k], Locks(calling[u])[i])
    BY <1>4 DEF Grantable
  <2> QED
    BY <1>4, <2>1, CompatibleSymmetric
<1> QED
  BY <1>1, <1>2, <1>3, <1>4

THEOREM LockInvariant == Spec => []LockInv
<1>1. Init => LockInv
  BY DEF Init, LockInv, Accessing
<1>2. TypeOK /\ TypeOK' /\ LockInv /\ [Next]_vars => LockInv'
  <2> SUFFICES ASSUME TypeOK, TypeOK', LockInv, [Next]_vars PROVE LockInv'
    OBVIOUS
  <2> USE DEF Goto, values, seen
  <2>1. ASSUME NEW t \in Threads, Call(t) PROVE LockInv'
    <3>1. calling[t] = NoOp /\ held[t] = {} /\ held' = held
      BY <2>1 DEF Call, TypeOK, LockInv
    <3>2. PICK op \in Operations :
             /\ calling' = [calling EXCEPT ![t] = op]
             /\ pc' = [pc EXCEPT ![t] = IF Locks(op) = <<>> THEN "readNum" ELSE "lock"]
      BY <2>1 DEF Call
    <3>3. \A u \in Threads : u # t => calling'[u] = calling[u] /\ (Accessing(u)' <=> Accessing(u))
      BY <3>2 DEF TypeOK, Accessing
    <3>4. calling'[t] = op /\ op # NoOp /\ (Accessing(t)' => DOMAIN Locks(op) = {})
      BY <3>2, OperationsAssumption, LocksShape DEF TypeOK, Accessing
    <3>5. \A u \in Threads :
             /\ calling'[u] = NoOp => held'[u] = {}
             /\ calling'[u] # NoOp => held'[u] \subseteq DOMAIN Locks(calling'[u])
             /\ Accessing(u)' => held'[u] = DOMAIN Locks(calling'[u])
      BY <3>1, <3>3, <3>4 DEF LockInv
    <3>6. \A u, w \in Threads : \A i \in held'[u] : \A j \in held'[w] :
             <<u, i>> = <<w, j>> \/ Compatible(Locks(calling'[u])[i], Locks(calling'[w])[j])
      <4>1. \A u \in Threads : \A i \in held'[u] : calling'[u] = calling[u]
        BY <3>1, <3>3
      <4> QED
        BY <3>1, <4>1 DEF LockInv
    <3> QED
      BY <3>5, <3>6 DEF LockInv
  <2>2. ASSUME NEW t \in Threads, NEW k \in 1 .. 2, LockOne(t, k) \/ TryOther(t, k)
        PROVE  LockInv'
    <3>1. /\ pc[t] = "lock" /\ Grantable(t, k) /\ calling' = calling
          /\ k \in DOMAIN Locks(calling[t])
          /\ held' = [held EXCEPT ![t] = @ \cup {k}]
          /\ pc' \in {[pc EXCEPT ![t] = "readNum"], pc}
      BY <2>2 DEF LockOne, TryOther, TypeOK
    <3>2. calling[t] \in Operations /\ calling[t] # NoOp
      BY <3>1 DEF TypeOK
    <3>3. Accessing(t)' => held'[t] = DOMAIN Locks(calling[t])
      <4>1. DOMAIN Locks(calling[t]) = 1 .. Len(Locks(calling[t])) /\ Len(Locks(calling[t])) \in 0 .. 2
        BY <3>2, LocksShape
      <4>2. held[t] \subseteq DOMAIN Locks(calling[t])
        BY <3>2 DEF LockInv
      <4>3. CASE LockOne(t, k)
        BY <3>1, <4>1, <4>3 DEF LockOne, TypeOK, Accessing
      <4>4. CASE TryOther(t, k)
        BY <3>1, <4>1, <4>2, <4>4 DEF TryOther, TypeOK, Accessing
      <4> QED
        BY <2>2, <4>3, <4>4
    <3>4. \A u \in Threads : u # t => held'[u] = held[u] /\ (Accessing(u)' <=> Accessing(u))
      BY <3>1 DEF TypeOK, Accessing
    <3>5. held'[t] \subseteq DOMAIN Locks(calling[t])
      BY <3>1, <3>2 DEF LockInv, TypeOK
    <3>6. \A u, w \in Threads : \A i \in held'[u] : \A j \in held'[w] :
              <<u, i>> = <<w, j>> \/ Compatible(Locks(calling'[u])[i], Locks(calling'[w])[j])
      BY <3>1, GrantKeepsApart
    <3> QED
      BY <3>1, <3>2, <3>3, <3>4, <3>5, <3>6 DEF LockInv
  <2>3. ASSUME NEW t \in Threads, NEW k \in 1 .. 2, BackOff(t, k) PROVE LockInv'
    <3>1. /\ pc[t] = "lock" /\ UNCHANGED <<calling, pc>>
          /\ held' = [held EXCEPT ![t] = {}]
      BY <2>3 DEF BackOff
    <3>2. \A u \in Threads : held'[u] \subseteq held[u] /\ (Accessing(u)' <=> Accessing(u))
      BY <3>1 DEF TypeOK, Accessing
    <3>3. \A u \in Threads : Accessing(u) => held'[u] = held[u]
      BY <3>1 DEF TypeOK, Accessing
    <3> QED
      BY <3>1, <3>2, <3>3 DEF LockInv
  <2>4. ASSUME NEW t \in Threads,
               ReadNum(t) \/ ReadDenom(t) \/ WriteNum(t) \/ WriteDenom(t)
        PROVE  LockInv'
    <3>1. UNCHANGED <<calling, held>> /\ Accessing(t)
      BY <2>4 DEF ReadNum, ReadDenom, WriteNum, WriteDenom, Accessing
    <3>2. \A u \in Threads : Accessing(u)' => Accessing(u)
      BY <2>4, <3>1 DEF ReadNum, ReadDenom, WriteNum, WriteDenom, TypeOK, Accessing
    <3> QED
      BY <3>1, <3>2 DEF LockInv
  <2>5. ASSUME NEW t \in Threads, Unlock(t) PROVE LockInv'
    <3>1. /\ pc[t] = "unlock" /\ UNCHANGED <<calling, pc>>
          /\ \A u \in Threads : held'[u] \subseteq held[u] /\ (u # t => held'[u] = held[u])
      BY <2>5 DEF Unlock, TypeOK
    <3>2. \A u \in Threads : Accessing(u)' => Accessing(u) /\ u # t
      BY <3>1 DEF Accessing
    <3> QED
      BY <3>1, <3>2 DEF LockInv
  <2>6. ASSUME NEW t \in Threads, Return(t) PROVE LockInv'
    <3>1. /\ pc[t] = "unlock" /\ held[t] = {} /\ held' = held
          /\ calling' = [calling EXCEPT ![t] = NoOp]
          /\ pc' = [pc EXCEPT ![t] = "idle"]
      BY <2>6 DEF Return
    <3>2. \A u \in Threads : Accessing(u)' => Accessing(u) /\ u # t
      BY <3>1 DEF Accessing, TypeOK
    <3>3. calling'[t] = NoOp /\ \A u \in Threads : u # t => calling'[u] = calling[u]
      BY <3>1 DEF TypeOK
    <3> QED
      BY <3>1, <3>2, <3>3 DEF LockInv
  <2>7. CASE Done \/ UNCHANGED vars
    BY <2>7 DEF Done, vars, LockInv, Accessing
  <2> QED
    BY <2>1, <2>2, <2>3, <2>4, <2>5, <2>6, <2>7 DEF Next, Step, Lock, Run
<1> QED
  BY <1>1, <1>2, TypeCorrect, PTL DEF Spec

(* No operation accesses a fraction that another thread's is writing.      *)
LEMMA LocksExclude ==
    ASSUME TypeOK, LockInv, NoCopies
    PROVE  NoDataRace
<1> SUFFICES ASSUME NEW t \in Threads, NEW u \in Threads, t # u,
                    Accessing(t), Accessing(u), Writes(calling[t]),
                    calling[t].self \in Operands(calling[u])
             PROVE  FALSE
  BY DEF NoDataRace
<1>1. calling[t] \in Operations /\ calling[u] \in Operations
  BY DEF TypeOK, Accessing
<1>2. held[t] = DOMAIN Locks(calling[t]) /\ held[u] = DOMAIN Locks(calling[u])
  BY DEF LockInv
<1>3. PICK i \in held[t] : Locks(calling[t])[i] = [of |-> calling[t].self, mode |-> "unique"]
  BY <1>1, <1>2, LocksCover DEF NoCopies
<1>4. PICK j \in held[u] : Locks(calling[u])[j].of = calling[t].self
  BY <1>1, <1>2, LocksCover DEF NoCopies
<1>5. Compatible(Locks(calling[t])[i], Locks(calling[u])[j])
  BY <1>3, <1>4 DEF LockInv
<1> QED
  BY <1>3, <1>4, <1>5 DEF Compatible

(* Without the copy constructor the operators never race on a member.      *)
THEOREM RaceFree == NoCopies => (Spec => []NoDataRace)
<1> SUFFICES ASSUME NoCopies PROVE Spec => []NoDataRace
  OBVIOUS
<1>1. TypeOK /\ LockInv => NoDataRace
  BY LocksExclude
<1> QED
  BY <1>1, TypeCorrect, LockInvariant, PTL
-----------------------------------------------------------------------------
(* What the members and the values read of them are: num_ and denom_ of a  *)
(* fraction differ only while an operation is between writing one and the  *)
(* other, and what an operation has read stays true until it writes.       *)
ValueInv ==
    /\ \A x \in Fractions :
          num[x] = denom[x] \/ \E t \in Threads : pc[t] = "writeDenom" /\ calling[t].self = x
    /\ \A t \in Threads :
          /\ pc[t] \in {"readDenom", "writeNum"} =>
                seenNum[t] = <<num[calling[t].self], num[calling[t].other]>>
          /\ pc[t] \in {"writeNum", "writeDenom", "unlock"} => seenNum[t] = seenDenom[t]
          /\ pc[t] = "writeDenom" =>
                num[calling[t].self] = Written(calling[t], seenNum[t][1], seenNum[t][2])

THEOREM ValueInvariant == NoCopies => (Spec => []ValueInv)
<1> SUFFICES ASSUME NoCopies PROVE Spec => []ValueInv
  OBVIOUS
<1>1. Init => ValueInv
  BY DEF Init, ValueInv
<1>2. TypeOK /\ TypeOK' /\ NoDataRace /\ ValueInv /\ [Next]_vars => ValueInv'
  <2> SUFFICES ASSUME TypeOK, TypeOK', NoDataRace, ValueInv, [Next]_vars PROVE ValueInv'
    OBVIOUS
  <2>o. \A u \in Threads : pc[u] # "idle" =>
           /\ calling[u] \in Operations
           /\ calling[u].self \in Fractions /\ calling[u].other \in Fractions
    BY OperationsAssumption DEF TypeOK
  <2> USE DEF Goto, values, seen
  <2>1. ASSUME NEW t \in Threads, Call(t) PROVE ValueInv'
    <3>1. /\ pc[t] = "idle" /\ pc' = [pc EXCEPT ![t] = pc'[t]] /\ pc'[t] \in {"lock", "readNum"}
          /\ calling' = [calling EXCEPT ![t] = calling'[t]]
          /\ UNCHANGED <<num, denom, seenNum, seenDenom>>
      BY <2>1 DEF Call, TypeOK
    <3>2. \A u \in Threads : u # t => pc'[u] = pc[u] /\ calling'[u] = calling[u]
      BY <3>1 DEF TypeOK
    <3> QED
      BY <3>1, <3>2 DEF ValueInv
  <2>2. ASSUME NEW t \in Threads, NEW k \in 1 .. 2,
               LockOne(t, k) \/ TryOther(t, k) \/ BackOff(t, k)
        PROVE  ValueInv'
    <3>1. /\ pc[t] = "lock" /\ pc'[t] \in {"lock", "readNum"}
          /\ UNCHANGED <<num, denom, seenNum, seenDenom, calling>>
          /\ \A u \in Threads : u # t => pc'[u] = pc[u]
      BY <2>2 DEF LockOne, TryOther, BackOff, TypeOK
    <3> QED
      BY <3>1 DEF ValueInv
  <2>3. ASSUME NEW t \in Threads, ReadNum(t) PROVE ValueInv'
    <3>1. /\ pc[t] = "readNum" /\ pc'[t] = "readDenom"
          /\ UNCHANGED <<num, denom, seenDenom, calling>>
          /\ seenNum'[t] = <<num[calling[t].self], num[calling[t].other]>>
          /\ \A u \in Threads : u # t => pc'[u] = pc[u] /\ seenNum'[u] = seenNum[u]
      BY <2>3 DEF ReadNum, TypeOK
    <3> QED
      BY <3>1 DEF ValueInv
  <2>4. ASSUME NEW t \in Threads, ReadDenom(t) PROVE ValueInv'
    <3>1. /\ pc[t] = "readDenom" /\ pc'[t] \in {"writeNum", "unlock"}
          /\ UNCHANGED <<num, denom, seenNum, calling>>
          /\ seenDenom'[t] = <<denom[calling[t].self], denom[calling[t].other]>>
          /\ \A u \in Threads : u # t => pc'[u] = pc[u] /\ seenDenom'[u] = seenDenom[u]
      BY <2>4 DEF ReadDenom, TypeOK
    <3>2. \A x \in Operands(calling[t]) : num[x] = denom[x]
      <4>1. ASSUME NEW x \in Operands(calling[t]), NEW u \in Threads,
                   pc[u] = "writeDenom", calling[u].self = x
            PROVE  FALSE
        BY <3>1, <4>1 DEF NoDataRace, Accessing, TypeOK
      <4> QED
        BY <4>1, <3>1, <2>o DEF ValueInv, Operands
    <3>3. seenNum[t] = <<num[calling[t].self], num[calling[t].other]>>
      BY <3>1 DEF ValueInv
    <3>4. seenNum[t] = seenDenom'[t]
      BY <3>1, <3>2, <3>3 DEF Operands
    <3> QED
      BY <3>1, <3>3, <3>4 DEF ValueInv
  <2>5. ASSUME NEW t \in Threads, WriteNum(t) PROVE ValueInv'
    <3> DEFINE x == calling[t].self
    <3>1. /\ pc[t] = "writeNum" /\ pc'[t] = "writeDenom"
          /\ UNCHANGED <<denom, seenNum, seenDenom, calling>>
          /\ \A u \in Threads : u # t => pc'[u] = pc[u]
          /\ x \in Fractions
          /\ num'[x] = Written(calling[t], seenNum[t][1], seenNum[t][2])
          /\ \A y \in Fractions : y # x => num'[y] = num[y]
      BY <2>5, <2>o DEF WriteNum, TypeOK
    <3>2. ASSUME NEW u \in Threads, u # t, Accessing(u)
          PROVE  /\ num'[calling[u].self] = num[calling[u].self]
                 /\ num'[calling[u].other] = num[calling[u].other]
      <4>1. x \notin Operands(calling[u])
        BY <3>1, <3>2 DEF NoDataRace, Accessing, TypeOK
      <4>2. calling[u].self \in Fractions /\ calling[u].other \in Fractions
        BY <2>o, <3>2 DEF Accessing
      <4> QED
        BY <3>1, <4>1, <4>2 DEF Operands
    <3>3. \A y \in Fractions : num'[y] = denom'[y] \/
             \E u \in Threads : pc'[u] = "writeDenom" /\ calling'[u].self = y
      BY <3>1 DEF ValueInv
    <3>4. /\ pc'[t] = "writeDenom" /\ seenNum'[t] = seenDenom'[t]
          /\ num'[calling'[t].self] = Written(calling'[t], seenNum'[t][1], seenNum'[t][2])
      BY <3>1 DEF ValueInv
    <3> HIDE DEF x
    <3> QED
      BY <3>1, <3>2, <3>3, <3>4 DEF ValueInv, Accessing
  <2>6. ASSUME NEW t \in Threads, WriteDenom(t) PROVE ValueInv'
    <3> DEFINE x == calling[t].self
    <3>1. /\ pc[t] = "writeDenom" /\ pc'[t] = "unlock"
          /\ UNCHANGED <<num, seenNum, seenDenom, calling>>
          /\ \A u \in Threads : u # t => pc'[u] = pc[u]
          /\ denom'[x] = Written(calling[t], seenDenom[t][1], seenDenom[t][2])
          /\ \A y \in Fractions : y # x => denom'[y] = denom[y]
      BY <2>6, <2>o DEF WriteDenom, TypeOK
    <3>2. denom'[x] = num'[x]
      BY <3>1 DEF ValueInv
    <3>3. \A y \in Fractions : num'[y] = denom'[y] \/
             \E u \in Threads : pc'[u] = "writeDenom" /\ calling'[u].self = y
      BY <3>1, <3>2 DEF ValueInv
    <3> HIDE DEF x
    <3> QED
      BY <3>1, <3>3 DEF ValueInv
  <2>7. ASSUME NEW t \in Threads, Unlock(t) PROVE ValueInv'
    BY <2>7 DEF Unlock, ValueInv
  <2>8. ASSUME NEW t \in Threads, Return(t) PROVE ValueInv'
    <3>1. /\ pc[t] = "unlock" /\ pc'[t] = "idle"
          /\ UNCHANGED <<num, denom, seenNum, seenDenom>>
          /\ \A u \in Threads : u # t => pc'[u] = pc[u] /\ calling'[u] = calling[u]
      BY <2>8 DEF Return, TypeOK
    <3> QED
      BY <3>1 DEF ValueInv
  <2>9. CASE Done \/ UNCHANGED vars
    BY <2>9 DEF Done, vars, ValueInv
  <2> QED
    BY <2>1, <2>2, <2>3, <2>4, <2>5, <2>6, <2>7, <2>8, <2>9 DEF Next, Step, Lock, Run
<1>3. Spec => []NoDataRace
  BY RaceFree
<1> QED
  BY <1>1, <1>2, <1>3, TypeCorrect, PTL DEF Spec

(* Without the copy constructor no operation works with half a value.      *)
THEOREM NothingTorn == NoCopies => (Spec => []NoTornRead)
<1> SUFFICES ASSUME NoCopies PROVE Spec => []NoTornRead
  OBVIOUS
<1>1. ValueInv => NoTornRead
  BY DEF ValueInv, NoTornRead
<1>2. Spec => []ValueInv
  BY ValueInvariant
<1> QED
  BY <1>1, <1>2, PTL

(* Without the copy constructor every operation is atomic.                 *)
THEOREM Atomicity == NoCopies => (Spec => IsAtomic)
<1> SUFFICES ASSUME NoCopies PROVE Spec => IsAtomic
  OBVIOUS
<1>1. Init => Atomic!Init
  BY DEF Init, Atomic!Init, Saw
<1>2. TypeOK /\ ValueInv /\ [Next]_vars => [Atomic!Next]_(Atomic!vars)
  <2> SUFFICES ASSUME TypeOK, ValueInv, [Next]_vars
               PROVE  Atomic!Next \/ UNCHANGED Atomic!vars
    OBVIOUS
  <2> USE DEF Goto, values, seen
  <2>1. ASSUME NEW t \in Threads, Call(t) PROVE Atomic!Call(t)
    <3>1. \A u \in Threads : pc'[u] \in {"writeDenom", "unlock"} <=> pc[u] \in {"writeDenom", "unlock"}
      BY <2>1 DEF Call, TypeOK
    <3>2. Saw' = Saw
      BY <2>1, <3>1 DEF Call, Saw
    <3> QED
      BY <2>1, <3>2 DEF Call, TypeOK, Atomic!Call
  <2>2. ASSUME NEW t \in Threads, NEW k \in 1 .. 2,
               LockOne(t, k) \/ TryOther(t, k) \/ BackOff(t, k)
        PROVE  UNCHANGED Atomic!vars
    <3>1. \A u \in Threads : pc'[u] \in {"writeDenom", "unlock"} <=> pc[u] \in {"writeDenom", "unlock"}
      BY <2>2 DEF LockOne, TryOther, BackOff, TypeOK
    <3>2. Saw' = Saw
      BY <2>2, <3>1 DEF LockOne, TryOther, BackOff, Saw
    <3> QED
      BY <2>2, <3>2 DEF LockOne, TryOther, BackOff, Atomic!vars
  <2>3. ASSUME NEW t \in Threads, ReadNum(t) PROVE UNCHANGED Atomic!vars
    <3>1. /\ \A u \in Threads :
                pc'[u] \in {"writeDenom", "unlock"} <=> pc[u] \in {"writeDenom", "unlock"}
          /\ pc[t] = "readNum"
          /\ \A u \in Threads : u # t => seenNum'[u] = seenNum[u]
      BY <2>3 DEF ReadNum, TypeOK
    <3>2. Saw' = Saw
      BY <3>1 DEF Saw
    <3> QED
      BY <2>3, <3>2 DEF ReadNum, Atomic!vars
  <2>4. ASSUME NEW t \in Threads, ReadDenom(t) PROVE Atomic!Next \/ UNCHANGED Atomic!vars
    <3>1. /\ pc[t] = "readDenom" /\ UNCHANGED <<num, calling, seenNum, calls>>
          /\ \A u \in Threads : u # t => pc'[u] = pc[u]
      BY <2>4 DEF ReadDenom, TypeOK
    <3>2. CASE Writes(calling[t])
      <4>1. pc'[t] = "writeNum"
        BY <2>4, <3>2 DEF ReadDenom, TypeOK
      <4>2. Saw' = Saw
        BY <3>1, <4>1 DEF Saw
      <4> QED
        BY <3>1, <4>2 DEF Atomic!vars
    <3>3. CASE ~Writes(calling[t])
      <4>1. pc'[t] = "unlock" /\ calling[t] # NoOp
        BY <2>4, <3>3 DEF ReadDenom, TypeOK
      <4>2. seenNum[t] = <<num[calling[t].self], num[calling[t].other]>>
        BY <3>1 DEF ValueInv
      <4>3. Saw[t] = <<>> /\ Saw' = [Saw EXCEPT ![t] = <<num[calling[t].self], num[calling[t].other]>>]
        BY <3>1, <4>1, <4>2 DEF Saw
      <4>4. Atomic!TakeEffect(t)
        BY <3>1, <3>3, <4>1, <4>3 DEF Atomic!TakeEffect, Atomic!Writes, Writes
      <4> QED
        BY <4>4 DEF Atomic!Next
    <3> QED
      BY <3>2, <3>3
  <2>5. ASSUME NEW t \in Threads, WriteNum(t) PROVE Atomic!TakeEffect(t)
    <3>1. /\ pc[t] = "writeNum" /\ pc'[t] = "writeDenom"
          /\ UNCHANGED <<calling, seenNum, calls>>
          /\ \A u \in Threads : u # t => pc'[u] = pc[u]
          /\ num' = [num EXCEPT ![calling[t].self] =
                         Written(calling[t], seenNum[t][1], seenNum[t][2])]
          /\ calling[t] # NoOp /\ Writes(calling[t])
      BY <2>5 DEF WriteNum, TypeOK
    <3>2. seenNum[t] = <<num[calling[t].self], num[calling[t].other]>>
      BY <3>1 DEF ValueInv
    <3>3. Saw[t] = <<>> /\ Saw' = [Saw EXCEPT ![t] = <<num[calling[t].self], num[calling[t].other]>>]
      BY <3>1, <3>2 DEF Saw
    <3>4. /\ Atomic!Writes(calling[t])
          /\ \A m, n : Atomic!Written(calling[t], m, n) = Written(calling[t], m, n)
      BY <3>1 DEF Atomic!Writes, Writes, Atomic!Written, Written
    <3>5. num' = [num EXCEPT ![calling[t].self] =
                     Atomic!Written(calling[t], num[calling[t].self], num[calling[t].other])]
      <4>1. seenNum[t][1] = num[calling[t].self] /\ seenNum[t][2] = num[calling[t].other]
        BY <3>2
      <4>2. Written(calling[t], seenNum[t][1], seenNum[t][2])
               = Atomic!Written(calling[t], num[calling[t].self], num[calling[t].other])
        BY <3>4, <4>1
      <4> QED
        BY <3>1, <4>2
    <3> QED
      BY <3>1, <3>3, <3>4, <3>5 DEF Atomic!TakeEffect
  <2>6. ASSUME NEW t \in Threads, WriteDenom(t) PROVE UNCHANGED Atomic!vars
    <3>1. /\ pc[t] = "writeDenom" /\ pc'[t] = "unlock"
          /\ UNCHANGED <<num, calling, seenNum, calls>>
          /\ \A u \in Threads : u # t => pc'[u] = pc[u]
      BY <2>6 DEF WriteDenom, TypeOK
    <3>2. Saw' = Saw
      BY <3>1 DEF Saw
    <3> QED
      BY <3>1, <3>2 DEF Atomic!vars
  <2>7. ASSUME NEW t \in Threads, Unlock(t) PROVE UNCHANGED Atomic!vars
    BY <2>7 DEF Unlock, Saw, Atomic!vars
  <2>8. ASSUME NEW t \in Threads, Return(t) PROVE Atomic!Return(t)
    <3>1. /\ pc[t] = "unlock" /\ pc'[t] = "idle" /\ calling[t] # NoOp
          /\ calling' = [calling EXCEPT ![t] = NoOp]
          /\ UNCHANGED <<num, seenNum, calls>>
          /\ \A u \in Threads : u # t => pc'[u] = pc[u]
      BY <2>8 DEF Return, TypeOK
    <3>2. seenNum[t] # <<>>
      <4>1. PICK m \in Nat, n \in Nat : seenNum[t] = <<m, n>>
        BY DEF TypeOK
      <4> QED
        BY <4>1
    <3>3. Saw[t] # <<>> /\ Saw' = [Saw EXCEPT ![t] = <<>>]
      BY <3>1, <3>2 DEF Saw
    <3> QED
      BY <3>1, <3>3 DEF Atomic!Return
  <2>9. CASE Done \/ UNCHANGED vars
    BY <2>9 DEF Done, vars, Atomic!vars, Saw
  <2> QED
    BY <2>1, <2>2, <2>3, <2>4, <2>5, <2>6, <2>7, <2>8, <2>9
    DEF Next, Step, Lock, Run, Atomic!Next
<1>3. Spec => []ValueInv
  BY ValueInvariant
<1> QED
  BY <1>1, <1>2, <1>3, TypeCorrect, PTL DEF Spec, IsAtomic, Atomic!Spec

-----------------------------------------------------------------------------
(* The arithmetic.  Natural numbers, their factors, and Euclid's           *)
(* algorithm, which ends at a combination of the two it started from that  *)
(* divides both.                                                           *)
Factor(d, n) == \E q \in Nat : n = q * d

(* A common factor that is a combination of the two: the greatest one.     *)
Combination(n, a, b) == \E x, y \in Int : n = x * a + y * b
IsGcd(n, a, b) == n \in Nat /\ Factor(n, a) /\ Factor(n, b) /\ Combination(n, a, b)

LEMMA ValsAreNat == Vals \subseteq Nat /\ 0 \in Vals /\ 1 \in Vals /\ MaxVal \in Vals
  BY MaxValAssumption DEF Vals

LEMMA GcdAtEnd ==
    ASSUME NEW a \in Nat
    PROVE  IsGcd(a, a, 0) /\ IsGcd(a, 0, a) /\ IsGcd(a, a, a)
<1>1. Factor(a, a) /\ Factor(a, 0)
  <2>1. a = 1 * a /\ 0 = 0 * a
    OBVIOUS
  <2> QED
    BY <2>1 DEF Factor
<1>2. a = 1 * a + 0 * 0 /\ a = 0 * 0 + 1 * a /\ a = 1 * a + 0 * a
  OBVIOUS
<1>3. Combination(a, a, 0) /\ Combination(a, 0, a) /\ Combination(a, a, a)
  BY <1>2 DEF Combination
<1> QED
  BY <1>1, <1>3 DEF IsGcd

LEMMA GcdSwapped ==
    ASSUME NEW n, NEW a \in Nat, NEW b \in Nat, IsGcd(n, a, b)
    PROVE  IsGcd(n, b, a)
<1>1. n \in Nat
  BY DEF IsGcd
<1>2. PICK x \in Int, y \in Int : n = x * a + y * b
  BY DEF IsGcd, Combination
<1>3. n = y * b + x * a
  BY <1>1, <1>2
<1> QED
  BY <1>3 DEF IsGcd, Combination

LEMMA Remainder ==
    ASSUME NEW a \in Nat, NEW b \in Nat, b > 0
    PROVE  /\ a % b \in Nat /\ a % b < b
           /\ \E q \in Nat : a = q * b + (a % b)
<1>1. a \div b \in Nat /\ a % b \in 0 .. b - 1 /\ a = b * (a \div b) + (a % b)
  OBVIOUS
<1>2. a = (a \div b) * b + (a % b)
  <2>1. b * (a \div b) = (a \div b) * b
    BY <1>1
  <2> QED
    BY <1>1, <2>1
<1> QED
  BY <1>1, <1>2

(* A step of Euclid's algorithm.                                           *)
LEMMA GcdOfRemainder ==
    ASSUME NEW n, NEW a \in Nat, NEW b \in Nat, b > 0, IsGcd(n, b, a % b)
    PROVE  IsGcd(n, a, b)
<1> DEFINE r == a % b
<1>1. n \in Nat /\ r \in Nat
  BY Remainder DEF IsGcd
<1>2. PICK q \in Nat : a = q * b + r
  BY Remainder
<1>3. PICK s \in Nat : b = s * n
  BY DEF IsGcd, Factor
<1>4. PICK t \in Nat : r = t * n
  BY DEF IsGcd, Factor
<1>5. PICK x \in Int, y \in Int : n = x * b + y * r
  BY DEF IsGcd, Combination
<1> HIDE DEF r
<1>6. a = (q * s + t) * n
  <2>1. a = q * (s * n) + t * n
    BY <1>2, <1>3, <1>4
  <2>2. q * (s * n) + t * n = (q * s + t) * n
    BY <1>1
  <2> QED
    BY <2>1, <2>2
<1>7. n = y * a + (x - y * q) * b
  <2>1. y * (q * b + r) + (x - y * q) * b = x * b + y * r
    BY <1>1
  <2> QED
    BY <2>1, <1>2, <1>5
<1>8. Factor(n, a)
  BY <1>6 DEF Factor
<1>9. Combination(n, a, b)
  <2>1. x - y * q \in Int
    OBVIOUS
  <2> QED
    BY <1>7, <2>1 DEF Combination
<1>10. Factor(n, b)
  BY <1>3 DEF Factor
<1> QED
  BY <1>1, <1>8, <1>9, <1>10 DEF IsGcd

(* Two of them are one.                                                    *)
LEMMA FactorBelow ==
    ASSUME NEW d \in Nat, NEW n \in Nat, n > 0, NEW z \in Int, n = z * d
    PROVE  1 <= d /\ d <= n /\ z >= 1
<1>1. d # 0
  OBVIOUS
<1>2. z >= 1
  <2> SUFFICES ASSUME z <= 0 PROVE FALSE
    OBVIOUS
  <2>1. z * d <= 0
    OBVIOUS
  <2> QED
    BY <2>1
<1>3. z * d >= 1 * d
  BY <1>2
<1> QED
  BY <1>1, <1>2, <1>3

LEMMA Divided ==
    ASSUME NEW m, NEW n, NEW a \in Nat, NEW b \in Nat, IsGcd(m, a, b), IsGcd(n, a, b)
    PROVE  \E z \in Int : m = z * n
<1>1. m \in Nat /\ n \in Nat
  BY DEF IsGcd
<1>2. PICK x \in Int, y \in Int : m = x * a + y * b
  BY DEF IsGcd, Combination
<1>3. PICK s \in Nat : a = s * n
  BY DEF IsGcd, Factor
<1>4. PICK t \in Nat : b = t * n
  BY DEF IsGcd, Factor
<1>5. m = (x * s + y * t) * n
  <2>1. m = x * (s * n) + y * (t * n)
    BY <1>2, <1>3, <1>4
  <2> QED
    BY <1>1, <2>1
<1>6. x * s + y * t \in Int
  OBVIOUS
<1> QED
  BY <1>5, <1>6

LEMMA OneGcd ==
    ASSUME NEW m, NEW n, NEW a \in Nat, NEW b \in Nat, IsGcd(m, a, b), IsGcd(n, a, b)
    PROVE  m = n
<1>1. m \in Nat /\ n \in Nat
  BY DEF IsGcd
<1>2. PICK z \in Int : m = z * n
  BY Divided
<1>3. PICK w \in Int : n = w * m
  BY Divided
<1>4. CASE m = 0
  BY <1>1, <1>3, <1>4
<1>5. CASE n = 0
  BY <1>1, <1>2, <1>5
<1>6. CASE m > 0 /\ n > 0
  BY <1>1, <1>2, <1>3, <1>6, FactorBelow
<1> QED
  BY <1>1, <1>4, <1>5, <1>6
-----------------------------------------------------------------------------
(* What holds where the algorithm ends, and of two numbers when it holds   *)
(* after a step, holds of all: each step makes the sum less.               *)
Ends(a, b) == a = 0 \/ b = 0 \/ a = b
Smaller(a, b) == IF a > b THEN <<b, a % b>> ELSE <<a, b % a>>

LEMMA StepIsLess ==
    ASSUME NEW a \in Vals, NEW b \in Vals, ~Ends(a, b)
    PROVE  \E c, d \in Vals : Smaller(a, b) = <<c, d>> /\ c + d < a + b
<1>1. a \in Nat /\ b \in Nat /\ a > 0 /\ b > 0 /\ a # b
  BY ValsAreNat DEF Ends
<1>2. CASE a > b
  <2>1. a % b \in Nat /\ a % b < b
    BY <1>1, Remainder
  <2>2. a % b \in Vals /\ b + (a % b) < a + b
    BY <1>1, <1>2, <2>1, MaxValAssumption DEF Vals
  <2> QED
    BY <1>2, <2>2 DEF Smaller
<1>3. CASE ~(a > b)
  <2>1. b % a \in Nat /\ b % a < a
    BY <1>1, Remainder
  <2>2. b % a \in Vals /\ a + (b % a) < a + b
    BY <1>1, <1>3, <2>1, MaxValAssumption DEF Vals
  <2> QED
    BY <1>3, <2>2 DEF Smaller
<1> QED
  BY <1>2, <1>3

LEMMA EuclidInduction ==
    ASSUME NEW S,
           \A a, b \in Vals : Ends(a, b) => <<a, b>> \in S,
           \A a, b \in Vals : ~Ends(a, b) /\ Smaller(a, b) \in S => <<a, b>> \in S
    PROVE  \A a, b \in Vals : <<a, b>> \in S
<1> DEFINE T == {n \in Nat : \E a, b \in Vals : n = a + b /\ <<a, b>> \notin S}
<1>1. T = {}
  <2> SUFFICES ASSUME T # {} PROVE FALSE
    OBVIOUS
  <2>1. T \subseteq Nat
    OBVIOUS
  <2>2. \E n \in T : \A m \in T : ~(<<m, n>> \in OpToRel(<, Nat))
    <3> HIDE DEF T
    <3> QED
      BY <2>1, WFMin, NatLessThanWellFounded
  <2>3. PICK n \in T : \A m \in T : ~(<<m, n>> \in OpToRel(<, Nat))
    BY <2>2
  <2>4. \A m \in T : ~(m < n)
    BY <2>1, <2>3 DEF OpToRel
  <2>5. PICK a \in Vals, b \in Vals : n = a + b /\ <<a, b>> \notin S
    BY <2>3
  <2>6. ~Ends(a, b)
    BY <2>5
  <2>7. PICK c \in Vals, d \in Vals : Smaller(a, b) = <<c, d>> /\ c + d < a + b
    BY <2>6, StepIsLess
  <2>8. <<c, d>> \notin S
    BY <2>5, <2>6, <2>7
  <2>9. c + d \in T
    <3>1. c + d \in Nat
      BY ValsAreNat
    <3> QED
      BY <2>8, <3>1
  <2> QED
    BY <2>4, <2>5, <2>7, <2>9
<1>2. \A a, b \in Vals : a + b \in Nat
  BY ValsAreNat
<1> QED
  BY <1>1, <1>2

(* A step of Euclid keeps the greatest common divisor.                     *)
LEMMA GcdOfSmaller ==
    ASSUME NEW a \in Vals, NEW b \in Vals, ~Ends(a, b),
           NEW c, NEW d, Smaller(a, b) = <<c, d>>,
           NEW n, IsGcd(n, c, d)
    PROVE  IsGcd(n, a, b)
<1>1. a \in Nat /\ b \in Nat /\ a > 0 /\ b > 0
  BY ValsAreNat DEF Ends
<1>2. CASE a > b
  <2>1. c = b /\ d = a % b
    BY <1>2 DEF Smaller
  <2> QED
    BY <1>1, <2>1, GcdOfRemainder
<1>3. CASE ~(a > b)
  <2>1. c = a /\ d = b % a
    BY <1>3 DEF Smaller
  <2>2. IsGcd(n, b, a)
    BY <1>1, <2>1, GcdOfRemainder
  <2> QED
    BY <1>1, <2>2, GcdSwapped
<1> QED
  BY <1>2, <1>3

LEMMA GcdExists == \A a, b \in Vals : \E n : IsGcd(n, a, b)
<1> DEFINE S == {p \in Vals \X Vals : \E n : IsGcd(n, p[1], p[2])}
<1>1. \A a, b \in Vals : <<a, b>> \in S <=> \E n : IsGcd(n, a, b)
  OBVIOUS
<1> HIDE DEF S
<1>2. ASSUME NEW a \in Vals, NEW b \in Vals, Ends(a, b) PROVE <<a, b>> \in S
  <2>1. \E n : IsGcd(n, a, b)
    BY <1>2, ValsAreNat, GcdAtEnd DEF Ends
  <2> QED
    BY <1>1, <2>1
<1>3. ASSUME NEW a \in Vals, NEW b \in Vals, ~Ends(a, b), Smaller(a, b) \in S
      PROVE  <<a, b>> \in S
  <2>1. PICK c \in Vals, d \in Vals : Smaller(a, b) = <<c, d>>
    BY <1>3, StepIsLess
  <2>2. PICK n : IsGcd(n, c, d)
    BY <1>1, <1>3, <2>1
  <2>3. IsGcd(n, a, b)
    BY <1>3, <2>1, <2>2, GcdOfSmaller
  <2> QED
    BY <1>1, <2>3
<1>4. \A a, b \in Vals : <<a, b>> \in S
  BY <1>2, <1>3, EuclidInduction
<1> QED
  BY <1>1, <1>4

(* What Euclid computes from what it computes of smaller numbers, F.       *)
Unfolded(F, a, b) ==
    IF b = 0 THEN a
    ELSE IF a = 0 THEN b
    ELSE IF a = b THEN a
    ELSE IF a > b THEN F[<<b, a % b>>]
    ELSE F[<<a, b % a>>]

Recurses(F) == F = [p \in Vals \X Vals |-> Unfolded(F, p[1], p[2])]

LEMMA RecursesAt ==
    ASSUME NEW F, Recurses(F), NEW a \in Vals, NEW b \in Vals
    PROVE  F[<<a, b>>] = Unfolded(F, a, b)
<1> DEFINE p == <<a, b>>
<1>1. p \in Vals \X Vals /\ p[1] = a /\ p[2] = b
  OBVIOUS
<1> HIDE DEF p
<1>2. F[p] = Unfolded(F, p[1], p[2])
  <2> DEFINE G == [q \in Vals \X Vals |-> Unfolded(F, q[1], q[2])]
  <2>1. G[p] = Unfolded(F, p[1], p[2])
    BY <1>1
  <2>2. F = G
    BY DEF Recurses
  <2> HIDE DEF G
  <2> QED
    BY <2>1, <2>2
<1>3. F[p] = Unfolded(F, a, b)
  BY <1>1, <1>2
<1> QED
  BY <1>3 DEF p

LEMMA UnfoldedSmaller ==
    ASSUME NEW F, NEW a \in Vals, NEW b \in Vals
    PROVE  /\ b = 0 => Unfolded(F, a, b) = a
           /\ a = 0 => Unfolded(F, a, b) = b
           /\ a = b => Unfolded(F, a, b) = a
           /\ ~Ends(a, b) => Unfolded(F, a, b) = F[Smaller(a, b)]
BY DEF Unfolded, Ends, Smaller

(* Some function does.                                                     *)
LEMMA EuclidRecurses == Recurses(Euclid)
<1> DEFINE R(a, b) == CHOOSE n : IsGcd(n, a, b)
           D == Vals \X Vals
           F == [p \in D |-> R(p[1], p[2])]
<1>1. ASSUME NEW a \in Vals, NEW b \in Vals PROVE IsGcd(R(a, b), a, b)
  BY GcdExists
<1>2. ASSUME NEW a \in Vals, NEW b \in Vals PROVE F[<<a, b>>] = R(a, b)
  <2> HIDE DEF R
  <2> QED
    OBVIOUS
<1> HIDE DEF R, F
<1>3. ASSUME NEW a \in Vals, NEW b \in Vals PROVE R(a, b) = Unfolded(F, a, b)
  <2>1. CASE Ends(a, b)
    <3>1. IsGcd(Unfolded(F, a, b), a, b)
      BY <2>1, UnfoldedSmaller, GcdAtEnd, ValsAreNat DEF Ends
    <3> QED
      BY <1>1, <3>1, OneGcd, ValsAreNat
  <2>2. CASE ~Ends(a, b)
    <3>1. PICK c \in Vals, d \in Vals : Smaller(a, b) = <<c, d>>
      BY <2>2, StepIsLess
    <3>2. Unfolded(F, a, b) = R(c, d)
      BY <1>2, <2>2, <3>1, UnfoldedSmaller
    <3>3. IsGcd(R(c, d), a, b)
      BY <1>1, <2>2, <3>1, GcdOfSmaller
    <3> QED
      BY <1>1, <3>2, <3>3, OneGcd, ValsAreNat
  <2> QED
    BY <2>1, <2>2
<1>4. Recurses(F)
  <2>1. \A p \in D : R(p[1], p[2]) = Unfolded(F, p[1], p[2])
    BY <1>3
  <2>2. F = [p \in D |-> R(p[1], p[2])]
    BY DEF F
  <2>3. F = [p \in D |-> Unfolded(F, p[1], p[2])]
    BY <2>1, <2>2
  <2> QED
    BY <2>3 DEF Recurses
<1>5. Euclid = CHOOSE G : Recurses(G)
  BY DEF Euclid, Recurses, Unfolded
<1> QED
  BY <1>4, <1>5

(* Fraction::Gcd ends at the greatest common divisor, by induction along   *)
(* its calls: every pair it reaches is smaller, and has the same divisors. *)
THEOREM GcdIsGcd ==
    ASSUME NEW a \in Vals, NEW b \in Vals
    PROVE  IsGcd(Gcd(a, b), a, b)
<1> DEFINE S == {p \in Vals \X Vals : IsGcd(Euclid[p], p[1], p[2])}
<1>1. \A c, d \in Vals : <<c, d>> \in S <=> IsGcd(Euclid[<<c, d>>], c, d)
  OBVIOUS
<1> HIDE DEF S
<1>2. ASSUME NEW c \in Vals, NEW d \in Vals, Ends(c, d) PROVE <<c, d>> \in S
  <2>1. IsGcd(Unfolded(Euclid, c, d), c, d)
    BY <1>2, UnfoldedSmaller, GcdAtEnd, ValsAreNat DEF Ends
  <2> QED
    BY <1>1, <2>1, EuclidRecurses, RecursesAt
<1>3. ASSUME NEW c \in Vals, NEW d \in Vals, ~Ends(c, d), Smaller(c, d) \in S
      PROVE  <<c, d>> \in S
  <2>1. PICK i \in Vals, j \in Vals : Smaller(c, d) = <<i, j>>
    BY <1>3, StepIsLess
  <2>2. IsGcd(Euclid[<<i, j>>], c, d)
    BY <1>1, <1>3, <2>1, GcdOfSmaller
  <2>3. Euclid[<<c, d>>] = Euclid[<<i, j>>]
    BY <1>3, <2>1, EuclidRecurses, RecursesAt, UnfoldedSmaller
  <2> QED
    BY <1>1, <2>2, <2>3
<1>4. <<a, b>> \in S
  BY <1>2, <1>3, EuclidInduction
<1> QED
  BY <1>1, <1>4 DEF Gcd
-----------------------------------------------------------------------------
LEMMA Ordered ==
    ASSUME NEW m \in Int, m > 0, NEW x \in Int, NEW y \in Int, x < y
    PROVE  x * m + m <= y * m
<1>1. (x + 1) * m <= y * m
  OBVIOUS
<1>2. (x + 1) * m = x * m + m
  OBVIOUS
<1> QED
  BY <1>1, <1>2

LEMMA Cancelled ==
    ASSUME NEW m \in Int, m > 0, NEW x \in Int, NEW y \in Int, x * m = y * m
    PROVE  x = y
<1>1. x * m \in Int
  OBVIOUS
<1>2. ~(x < y) /\ ~(y < x)
  BY <1>1, Ordered
<1> QED
  BY <1>2

LEMMA ExactDivision ==
    ASSUME NEW d \in Nat, d > 0, NEW n \in Nat, Factor(d, n)
    PROVE  /\ n \div d \in Nat /\ n \div d <= n
           /\ n = (n \div d) * d
<1>1. PICK q \in Nat : n = q * d
  BY DEF Factor
<1>2. n \div d = q
  <2> DEFINE k == n \div d
             r == n % d
  <2>1. k \in Nat /\ r \in Nat /\ r < d /\ n = d * k + r
    OBVIOUS
  <2> HIDE DEF k, r
  <2>2. k * d = d * k /\ k * d \in Nat
    BY <2>1
  <2>3. ~(q < k)
    BY <1>1, <2>1, <2>2, Ordered
  <2>4. ~(k < q)
    BY <1>1, <2>1, <2>2, Ordered
  <2> QED
    BY <2>1, <2>3, <2>4 DEF k
<1>3. q <= q * d
  OBVIOUS
<1> QED
  BY <1>1, <1>2, <1>3

(* MultiOverflow, which divides the largest number by each of two factors, *)
(* holds exactly of those whose product does not fit.                      *)
THEOREM OverflowIsExact ==
    ASSUME NEW a \in Vals, NEW b \in Vals
    PROVE  MultiOverflow(a, b) <=> a * b > MaxVal
<1>1. a \in Nat /\ b \in Nat /\ MaxVal \in Nat
  BY ValsAreNat
<1>2. CASE 0 \in {a, b}
  BY <1>1, <1>2 DEF MultiOverflow
<1>3. ASSUME NEW c \in Nat, NEW d \in Nat, d > 0 PROVE c > MaxVal \div d <=> c * d > MaxVal
  <2> DEFINE q == MaxVal \div d
             r == MaxVal % d
  <2>1. q \in Nat /\ r \in Nat /\ r < d /\ MaxVal = d * q + r
    BY <1>1, <1>3
  <2> HIDE DEF q, r
  <2>2. CASE c > q
    <3>1. c * d >= (q + 1) * d
      BY <2>1, <2>2
    <3>2. (q + 1) * d = d * q + d
      BY <2>1
    <3> QED
      BY <2>1, <2>2, <3>1, <3>2 DEF q
  <2>3. CASE c <= q
    <3>1. c * d <= q * d
      BY <2>1, <2>3
    <3>2. q * d = d * q
      BY <2>1
    <3> QED
      BY <2>1, <2>3, <3>1, <3>2 DEF q
  <2> QED
    BY <2>1, <2>2, <2>3
<1>4. CASE 0 \notin {a, b}
  <2>1. a > 0 /\ b > 0 /\ a * b = b * a
    BY <1>1, <1>4
  <2> QED
    BY <1>1, <1>3, <1>4, <2>1 DEF MultiOverflow
<1> QED
  BY <1>2, <1>4

LEMMA GcdNotZero ==
    ASSUME NEW n \in Vals, NEW d \in Vals, d # 0
    PROVE  Gcd(n, d) # 0
<1> DEFINE m == Gcd(n, d)
<1>1. IsGcd(m, n, d)
  BY GcdIsGcd
<1>2. PICK q \in Nat : d = q * m
  BY <1>1 DEF IsGcd, Factor
<1> QED
  BY <1>2

(* Dividing by the greatest common divisor.                                *)
LEMMA Reduced ==
    ASSUME NEW n \in Vals, NEW d \in Vals, Gcd(n, d) # 0
    PROVE  /\ Gcd(n, d) \in Nat
           /\ n \div Gcd(n, d) \in Vals /\ n = (n \div Gcd(n, d)) * Gcd(n, d)
           /\ d \div Gcd(n, d) \in Vals /\ d = (d \div Gcd(n, d)) * Gcd(n, d)
           /\ Combination(1, n \div Gcd(n, d), d \div Gcd(n, d))
<1> DEFINE m == Gcd(n, d)
           s == n \div m
           t == d \div m
<1>1. n \in Nat /\ d \in Nat
  BY ValsAreNat
<1>2. IsGcd(m, n, d)
  BY GcdIsGcd
<1>3. m \in Nat /\ m > 0
  BY <1>2 DEF IsGcd
<1>4. s \in Nat /\ s <= n /\ n = s * m
  BY <1>1, <1>2, <1>3, ExactDivision DEF IsGcd
<1>5. t \in Nat /\ t <= d /\ d = t * m
  BY <1>1, <1>2, <1>3, ExactDivision DEF IsGcd
<1>6. s \in Vals /\ t \in Vals
  BY <1>1, <1>4, <1>5, MaxValAssumption DEF Vals
<1>7. PICK x \in Int, y \in Int : m = x * n + y * d
  BY <1>2 DEF IsGcd, Combination
<1>8. 1 = x * s + y * t
  <2> HIDE DEF m, s, t
  <2>1. m = x * (s * m) + y * (t * m)
    BY <1>4, <1>5, <1>7
  <2>2. m = (x * s + y * t) * m
    BY <1>3, <1>4, <1>5, <2>1
  <2> DEFINE z == x * s + y * t
  <2>3. z \in Int /\ m = z * m
    BY <1>4, <1>5, <2>2
  <2> HIDE DEF z
  <2>4. z * m = 1 * m
    BY <1>3, <2>3
  <2>5. z = 1
    BY <1>3, <2>3, <2>4, Cancelled
  <2> QED
    BY <2>5 DEF z
<1> QED
  BY <1>3, <1>4, <1>5, <1>6, <1>8 DEF Combination
-----------------------------------------------------------------------------
Flags == {"Inf", "NaN", "Overflow"}
Numbers == [num : Vals, denom : Vals, sgn : {-1, 0, 1}, err : SUBSET Flags]

LowestTerms(q) == q.err = {} => q.denom # 0 /\ Combination(1, q.num, q.denom)

(* The constructor makes a fraction in lowest terms and keeps its value.   *)
LEMMA Constructed ==
    ASSUME NEW n \in Vals, NEW d \in Vals, NEW s \in {-1, 0, 1}, NEW e \in SUBSET Flags,
           NEW c, c = Construct(n, d, s, e)
    PROVE  /\ c \in Numbers /\ LowestTerms(c)
           /\ d # 0 => /\ c.err = e /\ c.sgn = s
                       /\ c.denom # 0 /\ c.num * d = n * c.denom
<1>1. n \in Nat /\ d \in Nat
  BY ValsAreNat
<1>2. CASE d = 0
  <2>1. /\ c.num = n /\ c.denom = d /\ c.sgn = s /\ c.err # {}
        /\ c \in Numbers
    BY <1>2 DEF Construct, Numbers, Flags
  <2> QED
    BY <1>2, <2>1 DEF LowestTerms
<1>3. CASE d # 0
  <2> DEFINE m == Gcd(n, d)
             x == n \div m
             y == d \div m
  <2>1. m # 0
    BY <1>3, GcdNotZero
  <2>2. /\ m \in Nat /\ x \in Vals /\ y \in Vals
        /\ n = x * m /\ d = y * m /\ Combination(1, x, y)
    BY <2>1, Reduced
  <2>3. c = [num |-> x, denom |-> y, sgn |-> s, err |-> e]
    BY <1>3 DEF Construct
  <2> HIDE DEF m, x, y
  <2>4. y # 0
    BY <1>3, <2>2
  <2>5. x * d = n * y
    <3>1. x * (y * m) = (x * m) * y
      BY <2>2, ValsAreNat
    <3> QED
      BY <2>2, <3>1
  <2>6. c \in Numbers
    BY <2>2, <2>3 DEF Numbers
  <2> QED
    BY <2>2, <2>3, <2>4, <2>5, <2>6 DEF LowestTerms
<1> QED
  BY <1>2, <1>3

-----------------------------------------------------------------------------
(* What Multiply returns.                                                  *)
Products == [num : Vals, denom : Vals \ {0}, overflow : BOOLEAN]

ExactOrFlagged(p, a, b) ==
    IF p.overflow THEN a.num * b.num > MaxVal \/ a.denom * b.denom > MaxVal
                  ELSE p.num * a.denom * b.denom = a.num * b.num * p.denom

(* Numbers that can be multiplied.                                         *)
Factors(a, b) == a \in Numbers /\ b \in Numbers /\ 0 \notin {a.denom, b.denom}

LEMMA Members ==
    ASSUME NEW a, NEW b, Factors(a, b)
    PROVE  /\ a.num \in Vals /\ a.denom \in Vals /\ b.num \in Vals /\ b.denom \in Vals
           /\ a.num \in Nat /\ a.denom \in Nat /\ b.num \in Nat /\ b.denom \in Nat
           /\ a.denom > 0 /\ b.denom > 0
<1>1. /\ a.num \in Vals /\ a.denom \in Vals /\ b.num \in Vals /\ b.denom \in Vals
      /\ a.denom # 0 /\ b.denom # 0
  BY DEF Factors, Numbers
<1>2. \A x \in Vals : x \in Nat /\ (x # 0 => x > 0)
  BY ValsAreNat
<1> QED
  BY <1>1, <1>2

LEMMA Quotient ==
    ASSUME NEW n \in Vals, NEW d \in Vals, d # 0, Divides(d, n)
    PROVE  n \div d \in Vals /\ n \div d \in Nat /\ n = (n \div d) * d
<1>1. n \in Nat /\ d \in Nat /\ d > 0
  BY ValsAreNat
<1>2. \E q \in Nat : n = q * d + (n % d)
  BY <1>1, Remainder
<1>3. n % d = 0
  BY DEF Divides
<1>4. Factor(d, n)
  <2>1. PICK q \in Nat : n = q * d + 0
    BY <1>2, <1>3
  <2>2. n = q * d
    BY <1>1, <2>1
  <2> QED
    BY <2>2 DEF Factor
<1>5. n \div d \in Nat /\ n \div d <= n /\ n = (n \div d) * d
  BY <1>1, <1>4, ExactDivision
<1>6. n \div d \in Vals
  BY <1>1, <1>5, MaxValAssumption DEF Vals
<1> QED
  BY <1>5, <1>6

LEMMA Fits ==
    ASSUME NEW x \in Vals, NEW y \in Vals, ~MultiOverflow(x, y)
    PROVE  x * y \in Vals
<1>1. x * y \in Nat /\ ~(x * y > MaxVal)
  BY ValsAreNat, OverflowIsExact
<1> QED
  BY <1>1, MaxValAssumption DEF Vals

LEMMA ProductType ==
    ASSUME NEW n \in Vals, NEW d \in Vals, d # 0
    PROVE  Product(n, d) \in Products /\ Overflowed(n, d) \in Products
BY DEF Product, Overflowed, Products

LEMMA Saturates ==
    /\ MaxVal \in Vals /\ MaxVal # 0 /\ 1 \in Vals
  BY ValsAreNat, MaxValAssumption

(* A factor that is left out of a product makes it no greater.             *)
LEMMA LeftOut ==
    ASSUME NEW x \in Nat, NEW y \in Nat, NEW d \in Nat, NEW e \in Nat, d > 0, e > 0
    PROVE  x * y <= (x * d) * (y * e)
<1>1. x <= x * d /\ y <= y * e
  OBVIOUS
<1>2. x * y <= (x * d) * y
  BY <1>1
<1>3. (x * d) * y <= (x * d) * (y * e)
  BY <1>1
<1> QED
  BY <1>2, <1>3

LEMMA CrossReducedIsExact ==
    ASSUME NEW a, NEW b, Factors(a, b), CrossReduces(a, b)
    PROVE  CrossReduced(a, b) \in Products /\ ExactOrFlagged(CrossReduced(a, b), a, b)
<1> DEFINE p == CrossReduced(a, b)
           n == a.num
           d == a.denom
           u == b.num
           v == b.denom
           left == n \div v
           right == u \div d
           Yields(x, y, e) ==
               /\ x \in Vals /\ y \in Vals /\ e \in Vals /\ e # 0
               /\ p = IF MultiOverflow(x, y) THEN Overflowed(MaxVal, d) ELSE Product(x * y, e)
               /\ x * y <= n * u /\ (x * y) * d * v = n * u * e
<1>1. /\ n \in Vals /\ d \in Vals /\ u \in Vals /\ v \in Vals
      /\ n \in Nat /\ d \in Nat /\ u \in Nat /\ v \in Nat /\ d > 0 /\ v > 0
  BY Members
<1>2. Divides(v, n) => left \in Vals /\ left \in Nat /\ n = left * v
  BY <1>1, Quotient
<1>3. Divides(d, u) => right \in Vals /\ right \in Nat /\ u = right * d
  BY <1>1, Quotient
<1>4. ASSUME NEW x, NEW y, NEW e, Yields(x, y, e)
      PROVE  p \in Products /\ ExactOrFlagged(p, a, b)
  <2> HIDE DEF p, n, d, u, v
  <2>1. CASE MultiOverflow(x, y)
    <3>1. p = Overflowed(MaxVal, d)
      BY <1>4, <2>1
    <3>2. p \in Products
      BY <1>1, <3>1, ProductType, Saturates
    <3>3. n * u > MaxVal
      <4>1. x * y > MaxVal /\ x * y \in Nat /\ n * u \in Nat /\ MaxVal \in Nat
        BY <1>1, <1>4, <2>1, OverflowIsExact, ValsAreNat
      <4> QED
        BY <1>4, <4>1
    <3> QED
      BY <3>1, <3>2, <3>3 DEF ExactOrFlagged, Overflowed, n, u
  <2>2. CASE ~MultiOverflow(x, y)
    <3>1. p = Product(x * y, e)
      BY <1>4, <2>2
    <3>2. p \in Products
      BY <1>4, <2>2, <3>1, ProductType, Fits
    <3> QED
      BY <1>4, <3>1, <3>2 DEF ExactOrFlagged, Product, n, u, d, v
  <2> QED
    BY <2>1, <2>2
<1>5. CASE ~Divides(d, u)
  <2>1. DividesLeft(a, b) /\ Divides(v, n)
    BY <1>5 DEF CrossReduces, DividesLeft
  <2>2. p = IF MultiOverflow(left, u) THEN Overflowed(MaxVal, d) ELSE Product(left * u, d)
    BY <1>5, <2>1 DEF CrossReduced
  <2> HIDE DEF p, n, d, u, v, left
  <2>3. left * u <= n * u
    <3>1. left <= left * v
      BY <1>1, <1>2, <2>1
    <3> QED
      BY <1>1, <1>2, <2>1, <3>1
  <2>4. (left * u) * d * v = n * u * d
    <3>1. (left * u) * d * v = (left * v) * u * d
      BY <1>1, <1>2, <2>1
    <3> QED
      BY <1>2, <2>1, <3>1
  <2>5. Yields(left, u, d)
    BY <1>1, <1>2, <2>1, <2>2, <2>3, <2>4
  <2> HIDE DEF Yields
  <2> QED
    BY <1>4, <2>5 DEF p
<1>6. CASE Divides(d, u) /\ ~DividesLeft(a, b)
  <2>1. p = IF MultiOverflow(n, right) THEN Overflowed(MaxVal, d) ELSE Product(n * right, v)
    BY <1>6 DEF CrossReduced
  <2> HIDE DEF p, n, d, u, v, right
  <2>2. n * right <= n * u
    <3>1. right <= right * d
      BY <1>1, <1>3, <1>6
    <3> QED
      BY <1>1, <1>3, <1>6, <3>1
  <2>3. (n * right) * d * v = n * u * v
    <3>1. (n * right) * d * v = n * (right * d) * v
      BY <1>1, <1>3, <1>6
    <3> QED
      BY <1>3, <1>6, <3>1
  <2>4. Yields(n, right, v)
    BY <1>1, <1>3, <1>6, <2>1, <2>2, <2>3
  <2> HIDE DEF Yields
  <2> QED
    BY <1>4, <2>4 DEF p
<1>7. CASE Divides(d, u) /\ DividesLeft(a, b)
  <2>1. Divides(v, n)
    BY <1>7 DEF DividesLeft
  <2>2. p = IF MultiOverflow(left, right) THEN Overflowed(MaxVal, d)
                                          ELSE Product(left * right, 1)
    BY <1>7 DEF CrossReduced
  <2> HIDE DEF p, n, d, u, v, left, right
  <2>3. left * right <= n * u
    <3>1. left * right <= (left * v) * (right * d)
      BY <1>1, <1>2, <1>3, <1>7, <2>1, LeftOut
    <3> QED
      BY <1>2, <1>3, <1>7, <2>1, <3>1
  <2>4. (left * right) * d * v = n * u * 1
    <3>1. (left * right) * d * v = (left * v) * (right * d) * 1
      BY <1>1, <1>2, <1>3, <1>7, <2>1
    <3> QED
      BY <1>2, <1>3, <1>7, <2>1, <3>1
  <2>5. Yields(left, right, 1)
    BY <1>2, <1>3, <1>7, <2>1, <2>2, <2>3, <2>4, Saturates
  <2> HIDE DEF Yields
  <2> QED
    BY <1>4, <2>5 DEF p
<1> QED
  BY <1>5, <1>6, <1>7

LEMMA WrapType ==
    ASSUME NEW x \in Nat
    PROVE  Wrap(x) \in Vals
BY MaxValAssumption DEF Wrap, Vals

(* With one of its conditions only the value is another one.               *)
LEMMA InvertedIsExact ==
    ASSUME NEW a, NEW b, Factors(a, b), ~CrossReduces(a, b), Inverts(a, b)
    PROVE  /\ Inverted(a, b) \in Products
           /\ ~HalfInverts(a, b) => ExactOrFlagged(Inverted(a, b), a, b)
<1> DEFINE p == Inverted(a, b)
           n == a.num
           d == a.denom
           u == b.num
           v == b.denom
           left == v \div n
           right == d \div u
<1>1. /\ n \in Vals /\ d \in Vals /\ u \in Vals /\ v \in Vals
      /\ n \in Nat /\ d \in Nat /\ u \in Nat /\ v \in Nat /\ d > 0 /\ v > 0
  BY Members
<1>2. n # 0 /\ u # 0
  <2>1. 0 % d = 0
    BY <1>1
  <2>2. u # 0
    BY <2>1 DEF CrossReduces, Divides
  <2> QED
    BY <2>2 DEF Inverts
<1>3. Divides(n, v) => left \in Vals /\ left \in Nat /\ v = left * n
  BY <1>1, <1>2, Quotient
<1>4. Divides(u, d) => right \in Vals /\ right \in Nat /\ d = right * u
  BY <1>1, <1>2, Quotient
<1>5. Overflowed(n, MaxVal) \in Products /\ Product(0, d) \in Products
  BY <1>1, ProductType, Saturates, ValsAreNat
<1>6. CASE ~Divides(u, d)
  <2>1. Divides(n, v)
    BY <1>6 DEF Inverts
  <2>2. p \in {Overflowed(n, MaxVal), Product(0, d)}
    BY <1>6, <2>1 DEF Inverted
  <2>3. HalfInverts(a, b)
    BY <1>6 DEF HalfInverts
  <2> QED
    BY <1>5, <2>2, <2>3
<1>7. CASE Divides(u, d) /\ ~Divides(n, v)
  <2>1. p \in {Overflowed(n, MaxVal), Product(Wrap(n * right), v)}
    BY <1>7 DEF Inverted
  <2>2. Product(Wrap(n * right), v) \in Products
    <3>1. n * right \in Nat
      BY <1>1, <1>4, <1>7
    <3>2. Wrap(n * right) \in Vals
      BY <3>1, WrapType
    <3> QED
      BY <1>1, <3>2, ProductType
  <2>3. HalfInverts(a, b)
    BY <1>7 DEF HalfInverts
  <2> QED
    BY <1>5, <2>1, <2>2, <2>3
<1>8. CASE Divides(u, d) /\ Divides(n, v)
  <2>1. p = IF MultiOverflow(left, right) THEN Overflowed(n, MaxVal)
                                          ELSE Product(1, left * right)
    BY <1>8 DEF Inverted
  <2> HIDE DEF p, n, d, u, v, left, right
  <2>2. left # 0 /\ right # 0
    BY <1>1, <1>3, <1>4, <1>8
  <2>3. CASE MultiOverflow(left, right)
    <3>1. left * right > MaxVal
      BY <1>3, <1>4, <1>8, <2>3, OverflowIsExact
    <3>2. left * right <= (left * n) * (right * u)
      BY <1>1, <1>2, <1>3, <1>4, <1>8, LeftOut
    <3>3. left * right <= v * d
      BY <1>3, <1>4, <1>8, <3>2
    <3>4. d * v > MaxVal
      <4>1. v * d = d * v /\ d * v \in Nat /\ left * right \in Nat /\ MaxVal \in Nat
        BY <1>1, <1>3, <1>4, <1>8, ValsAreNat
      <4> QED
        BY <3>1, <3>3, <4>1
    <3>5. p = Overflowed(n, MaxVal)
      BY <2>1, <2>3
    <3> QED
      BY <1>5, <3>4, <3>5 DEF ExactOrFlagged, Overflowed, p, d, v
  <2>4. CASE ~MultiOverflow(left, right)
    <3>1. p = Product(1, left * right)
      BY <2>1, <2>4
    <3>2. left * right \in Vals /\ left * right # 0
      BY <1>3, <1>4, <1>8, <2>2, <2>4, Fits
    <3>3. p \in Products
      BY <3>1, <3>2, ProductType, Saturates
    <3>4. 1 * d * v = n * u * (left * right)
      <4>1. 1 * (right * u) * (left * n) = n * u * (left * right)
        BY <1>1, <1>3, <1>4, <1>8
      <4> QED
        BY <1>3, <1>4, <1>8, <4>1
    <3> QED
      BY <3>1, <3>3, <3>4 DEF ExactOrFlagged, Product, p, n, d, u, v
  <2> QED
    BY <2>3, <2>4 DEF p
<1> QED
  BY <1>6, <1>7, <1>8

LEMMA MultipliedIsExact ==
    ASSUME NEW a, NEW b, Factors(a, b)
    PROVE  Multiplied(a, b) \in Products /\ ExactOrFlagged(Multiplied(a, b), a, b)
<1> DEFINE p == Multiplied(a, b)
           n == a.num
           d == a.denom
           u == b.num
           v == b.denom
<1>1. /\ n \in Vals /\ d \in Vals /\ u \in Vals /\ v \in Vals
      /\ n \in Nat /\ d \in Nat /\ u \in Nat /\ v \in Nat /\ d > 0 /\ v > 0
  BY Members
<1>2. CASE MultiOverflow(n, u) \/ MultiOverflow(d, v)
  <2>1. p = Overflowed(IF MultiOverflow(n, u) THEN MaxVal ELSE n,
                       IF MultiOverflow(d, v) THEN MaxVal ELSE d)
    BY <1>2 DEF Multiplied
  <2>2. n * u > MaxVal \/ d * v > MaxVal
    BY <1>1, <1>2, OverflowIsExact
  <2> HIDE DEF p, n, d, u, v
  <2>3. p \in Products /\ p.overflow
    BY <1>1, <2>1, ProductType, Saturates DEF Overflowed
  <2> QED
    BY <2>2, <2>3 DEF ExactOrFlagged, p, n, d, u, v
<1>3. CASE ~MultiOverflow(n, u) /\ ~MultiOverflow(d, v)
  <2>1. p = Product(n * u, d * v)
    BY <1>3 DEF Multiplied
  <2>2. n * u \in Vals /\ d * v \in Vals /\ d * v # 0
    BY <1>1, <1>3, Fits
  <2> HIDE DEF p, n, d, u, v
  <2>3. p \in Products
    BY <2>1, <2>2, ProductType
  <2>4. (n * u) * d * v = n * u * (d * v)
    BY <1>1
  <2> QED
    BY <2>1, <2>3, <2>4 DEF ExactOrFlagged, Product, p, n, d, u, v
<1> QED
  BY <1>2, <1>3

LEMMA MultiplyIsExact ==
    ASSUME NEW a, NEW b, Factors(a, b)
    PROVE  /\ Multiply(a, b) \in Products
           /\ ~HalfInverts(a, b) => ExactOrFlagged(Multiply(a, b), a, b)
<1>1. CASE CrossReduces(a, b)
  <2>1. Multiply(a, b) = CrossReduced(a, b)
    BY <1>1 DEF Multiply, General
  <2> QED
    BY <1>1, <2>1, CrossReducedIsExact
<1>2. CASE ~CrossReduces(a, b) /\ Inverts(a, b)
  <2>1. Multiply(a, b) = Inverted(a, b)
    BY <1>2 DEF Multiply, General
  <2> QED
    BY <1>2, <2>1, InvertedIsExact
<1>3. CASE General(a, b)
  <2>1. Multiply(a, b) = Multiplied(a, b)
    BY <1>3 DEF Multiply, General
  <2> QED
    BY <2>1, MultipliedIsExact
<1> QED
  BY <1>1, <1>2, <1>3 DEF General
-----------------------------------------------------------------------------
(* A new object of an operator: nothing, or a fraction in lowest terms.    *)
NewObject(c) == c = Crash \/ (c \in Numbers /\ LowestTerms(c))

LEMMA SignOfProduct ==
    ASSUME NEW s \in {-1, 0, 1}, NEW t \in {-1, 0, 1}
    PROVE  s * t \in {-1, 0, 1}
OBVIOUS

LEMMA ErroneousType ==
    ASSUME NEW n \in Vals, NEW d \in Vals, NEW e
    PROVE  Erroneous(n, d, e).num \in Vals /\ Erroneous(n, d, e).denom \in Vals
BY Saturates, ValsAreNat DEF Erroneous

LEMMA SignOfInteger ==
    ASSUME NEW v \in Int, Abs(v) <= MaxVal
    PROVE  Sgn(v) \in {-1, 0, 1} /\ Abs(v) \in Vals /\ (v # 0 => Abs(v) # 0)
BY MaxValAssumption DEF Sgn, Abs, Vals

LEMMA TimesType ==
    ASSUME NEW a \in Numbers, NEW b \in Numbers, NEW c \in Times(a, b)
    PROVE  NewObject(c)
<1> DEFINE e == a.err \cup b.err
           bad == Erroneous(0, 0, e)
           p == Multiply(a, b)
           s == a.sgn * b.sgn
<1>1. s \in {-1, 0, 1} /\ e \in SUBSET Flags
  BY SignOfProduct DEF Numbers
<1>2. CASE e # {}
  <2>1. c = Construct(bad.num, bad.denom, s, e)
    BY <1>2 DEF Times
  <2>2. bad.num \in Vals /\ bad.denom \in Vals
    BY ErroneousType, ValsAreNat
  <2> HIDE DEF bad, s, e
  <2> QED
    BY <1>1, <2>1, <2>2, Constructed DEF NewObject
<1>3. CASE e = {} /\ 0 \in {a.denom, b.denom}
  BY <1>3 DEF Times, NewObject
<1>4. CASE e = {} /\ 0 \notin {a.denom, b.denom}
  <2>1. c \in {Crash, Construct(p.num, p.denom, s, Flagged({}, p))}
    BY <1>4 DEF Times, Outcomes
  <2>2. p.num \in Vals /\ p.denom \in Vals /\ Flagged({}, p) \in SUBSET Flags
    <3>1. p \in Products
      BY <1>4, MultiplyIsExact DEF Factors
    <3> HIDE DEF p
    <3> QED
      BY <3>1 DEF Products, Flagged, Flags
  <2> HIDE DEF p, s, e
  <2> QED
    BY <1>1, <2>1, <2>2, Constructed DEF NewObject
<1> QED
  BY <1>2, <1>3, <1>4

LEMMA ScaledType ==
    ASSUME NEW a \in Numbers, NEW v \in Int, Abs(v) <= MaxVal, NEW c \in Scaled(a, v)
    PROVE  NewObject(c)
<1> DEFINE overflow == MultiOverflow(a.num, Abs(v))
           n == IF overflow THEN MaxVal ELSE a.num * Abs(v)
           s == a.sgn * Sgn(v)
           e == IF overflow THEN {"Overflow"} ELSE {}
<1>1. c \in {Crash, Construct(n, a.denom, s, e)}
  BY DEF Scaled, Outcomes
<1>2. a.num \in Vals /\ a.denom \in Vals /\ a.sgn \in {-1, 0, 1}
  BY DEF Numbers
<1>3. Sgn(v) \in {-1, 0, 1} /\ Abs(v) \in Vals
  BY SignOfInteger
<1>4. n \in Vals /\ e \in SUBSET Flags
  BY <1>2, <1>3, Fits, Saturates DEF Flags
<1>5. s \in {-1, 0, 1}
  BY <1>2, <1>3, SignOfProduct
<1> HIDE DEF n, s, e
<1> QED
  BY <1>1, <1>2, <1>4, <1>5, Constructed DEF NewObject

LEMMA TimesIntoType ==
    ASSUME NEW a \in Numbers, NEW b \in Numbers, NEW c \in TimesInto(a, b)
    PROVE  c = Crash \/ c \in Numbers
<1> DEFINE e == a.err \cup b.err
           bad == Erroneous(a.num, a.denom, e)
           p == Multiply(a, b)
           s == a.sgn * b.sgn
           reduces == General(a, b) /\ ~p.overflow
           m == IF reduces THEN Gcd(p.num, p.denom) ELSE 1
<1>1. /\ s \in {-1, 0, 1} /\ e \in SUBSET Flags /\ a.sgn \in {-1, 0, 1}
      /\ a.num \in Vals /\ a.denom \in Vals
  BY SignOfProduct DEF Numbers
<1>2. CASE e # {}
  <2>1. c = [num |-> bad.num, denom |-> bad.denom, sgn |-> s, err |-> e]
    BY <1>2 DEF TimesInto
  <2>2. bad.num \in Vals /\ bad.denom \in Vals
    BY <1>1, ErroneousType
  <2> HIDE DEF bad, s, e
  <2> QED
    BY <1>1, <2>1, <2>2 DEF Numbers
<1>3. CASE e = {} /\ 0 \in {a.denom, b.denom}
  BY <1>3 DEF TimesInto
<1>4. CASE e = {} /\ 0 \notin {a.denom, b.denom}
  <2>1. c \in {Crash, [num |-> p.num \div m, denom |-> p.denom \div m,
                      sgn |-> a.sgn, err |-> Flagged({}, p)]}
    BY <1>4 DEF TimesInto, Outcomes
  <2>2. p \in Products
    BY <1>4, MultiplyIsExact DEF Factors
  <2> HIDE DEF p, reduces
  <2>3. /\ p.num \in Vals /\ p.denom \in Vals /\ p.denom # 0
        /\ Flagged({}, p) \in SUBSET Flags
    BY <2>2 DEF Products, Flagged, Flags
  <2>4. p.num \div m \in Vals /\ p.denom \div m \in Vals
    <3>1. CASE reduces
      <4>1. Gcd(p.num, p.denom) # 0
        BY <2>3, GcdNotZero
      <4> QED
        BY <2>3, <3>1, <4>1, Reduced
    <3>2. CASE ~reduces
      <4>1. \A x \in Vals : x \div 1 = x
        BY ValsAreNat
      <4> QED
        BY <2>3, <3>2, <4>1
    <3> QED
      BY <3>1, <3>2
  <2> HIDE DEF m
  <2> QED
    BY <1>1, <2>1, <2>3, <2>4 DEF Numbers
<1> QED
  BY <1>2, <1>3, <1>4

LEMMA ScaledIntoType ==
    ASSUME NEW a \in Numbers, NEW v \in Int, Abs(v) <= MaxVal, NEW c \in ScaledInto(a, v)
    PROVE  c = Crash \/ c \in Numbers
<1> DEFINE n == a.num * Abs(v)
           m == Gcd(n, a.denom)
           s == a.sgn * Sgn(v)
<1>1. /\ a.num \in Vals /\ a.denom \in Vals /\ a.sgn \in {-1, 0, 1}
      /\ a.err \in SUBSET Flags
      /\ a = [num |-> a.num, denom |-> a.denom, sgn |-> a.sgn, err |-> a.err]
  BY DEF Numbers
<1>2. Sgn(v) \in {-1, 0, 1} /\ Abs(v) \in Vals
  BY SignOfInteger
<1>3. s \in {-1, 0, 1}
  BY <1>1, <1>2, SignOfProduct
<1> HIDE DEF n, m, s
<1>4. CASE v = 0
  <2>1. c = [a EXCEPT !.num = 0, !.denom = 1, !.sgn = 0]
    BY <1>4 DEF ScaledInto
  <2> QED
    BY <2>1, Saturates, ValsAreNat DEF Numbers
<1>5. CASE v # 0 /\ MultiOverflow(a.num, Abs(v))
  <2>1. c = [a EXCEPT !.num = MaxVal, !.sgn = s]
    BY <1>5 DEF ScaledInto, s
  <2> QED
    BY <1>3, <2>1, Saturates DEF Numbers
<1>6. CASE v # 0 /\ ~MultiOverflow(a.num, Abs(v))
  <2>1. c \in {Crash, IF m > 1
                     THEN [a EXCEPT !.num = n \div m, !.denom = @ \div m, !.sgn = s]
                     ELSE [a EXCEPT !.sgn = s]}
    BY <1>6 DEF ScaledInto, Outcomes, n, m, s
  <2>2. n \in Vals
    BY <1>1, <1>2, <1>6, Fits DEF n
  <2>3. CASE m > 1
    <3>1. m # 0
      BY <1>1, <2>2, <2>3, GcdIsGcd DEF IsGcd, m
    <3>2. n \div m \in Vals /\ a.denom \div m \in Vals
      BY <1>1, <2>2, <3>1, Reduced DEF m
    <3> QED
      BY <1>3, <2>1, <2>3, <3>2 DEF Numbers
  <2>4. CASE ~(m > 1)
    BY <1>3, <2>1, <2>4 DEF Numbers
  <2> QED
    BY <2>3, <2>4
<1> QED
  BY <1>4, <1>5, <1>6
-----------------------------------------------------------------------------
LEMMA TimesIsExact ==
    ASSUME NEW a \in Numbers, NEW b \in Numbers, Sound(a, b), ~HalfInverts(a, b),
           NEW c \in Times(a, b)
    PROVE  IsProduct(c, a, b)
<1> DEFINE p == Multiply(a, b)
           s == a.sgn * b.sgn
<1>1. c = Construct(p.num, p.denom, s, Flagged({}, p))
  BY DEF Times, Sound, HasZero, Outcomes
<1>2. Factors(a, b)
  BY DEF Sound, Factors
<1>3. p \in Products /\ ExactOrFlagged(p, a, b)
  BY <1>2, MultiplyIsExact
<1> HIDE DEF p, s
<1>4. /\ p.num \in Vals /\ p.denom \in Vals /\ p.denom # 0
      /\ Flagged({}, p) \in SUBSET Flags
  BY <1>3 DEF Products, Flagged, Flags
<1>5. s \in {-1, 0, 1}
  BY SignOfProduct DEF Numbers, s
<1>6. /\ c.err = Flagged({}, p) /\ c.sgn = s /\ c \in Numbers
      /\ c.num * p.denom = p.num * c.denom
  BY <1>1, <1>4, <1>5, Constructed
<1>7. CASE p.overflow
  <2>1. c.err = {"Overflow"}
    BY <1>6, <1>7 DEF Flagged
  <2> QED
    BY <1>3, <1>7, <2>1 DEF ExactOrFlagged, IsProduct
<1>8. CASE ~p.overflow
  <2>1. c.err = {}
    BY <1>6, <1>8 DEF Flagged
  <2>2. p.num * a.denom * b.denom = a.num * b.num * p.denom
    BY <1>3, <1>8 DEF ExactOrFlagged
  <2>3. c.num * a.denom * b.denom = a.num * b.num * c.denom
    <3>1. c.num \in Vals /\ c.denom \in Vals
      BY <1>6 DEF Numbers
    <3>2. /\ c.num \in Nat /\ c.denom \in Nat /\ p.num \in Nat /\ p.denom \in Nat
          /\ a.num \in Nat /\ a.denom \in Nat /\ b.num \in Nat /\ b.denom \in Nat
      <4>1. \A x \in Vals : x \in Nat
        BY ValsAreNat
      <4> QED
        BY <1>2, <1>4, <3>1, <4>1, Members
    <3> DEFINE n == a.num
               d == a.denom
               u == b.num
               v == b.denom
               x == p.num
               y == p.denom
               cn == c.num
               cd == c.denom
    <3>3. y # 0 /\ x * d * v = n * u * y /\ cn * y = x * cd
      BY <1>4, <1>6, <2>2
    <3> HIDE DEF n, d, u, v, x, y, cn, cd
    <3>4. (cn * d * v) * y = (n * u * cd) * y
      <4>1. (cn * d * v) * y = (cn * y) * (d * v)
        BY <3>2 DEF d, v, y, cn
      <4>2. (x * cd) * (d * v) = (x * d * v) * cd
        BY <3>2 DEF d, v, x, cd
      <4>3. (n * u * y) * cd = (n * u * cd) * y
        BY <3>2 DEF n, u, y, cd
      <4> QED
        BY <3>3, <4>1, <4>2, <4>3
    <3>5. cn * d * v \in Int /\ n * u * cd \in Int /\ y \in Int /\ y > 0
      BY <3>2, <3>3 DEF n, d, u, v, y, cn, cd
    <3>6. cn * d * v = n * u * cd
      BY <3>4, <3>5, Cancelled
    <3> QED
      BY <3>6 DEF n, d, u, v, cn, cd
  <2> QED
    BY <1>6, <2>1, <2>3 DEF IsProduct, s
<1> QED
  BY <1>7, <1>8

LEMMA ScaledIsExact ==
    ASSUME NEW a \in Numbers, NEW v \in Int, Abs(v) <= MaxVal, Sound(a, AsFraction(v)),
           NEW c \in Scaled(a, v)
    PROVE  IsProduct(c, a, AsFraction(v))
<1> DEFINE overflow == MultiOverflow(a.num, Abs(v))
           n == IF overflow THEN MaxVal ELSE a.num * Abs(v)
           s == a.sgn * Sgn(v)
           e == IF overflow THEN {"Overflow"} ELSE {}
<1>1. a.num # 0 /\ a.denom # 0 /\ v # 0
  BY DEF Sound, AsFraction, Abs
<1>2. c = Construct(n, a.denom, s, e)
  BY <1>1 DEF Scaled, Outcomes
<1>3. /\ AsFraction(v).num = Abs(v) /\ AsFraction(v).denom = 1
      /\ AsFraction(v).sgn = Sgn(v)
  BY DEF AsFraction
<1>4. a.num \in Vals /\ a.denom \in Vals /\ a.sgn \in {-1, 0, 1}
  BY DEF Numbers
<1>5. Sgn(v) \in {-1, 0, 1} /\ Abs(v) \in Vals
  BY SignOfInteger
<1>6. n \in Vals /\ e \in SUBSET Flags
  BY <1>4, <1>5, Fits, Saturates DEF Flags
<1>7. s \in {-1, 0, 1}
  BY <1>4, <1>5, SignOfProduct
<1>8. /\ c.err = e /\ c.sgn = s /\ c \in Numbers
      /\ c.num * a.denom = n * c.denom
  <2> HIDE DEF n, s, e
  <2> QED
    BY <1>1, <1>2, <1>4, <1>6, <1>7, Constructed
<1>9. CASE overflow
  <2>1. a.num * Abs(v) > MaxVal
    BY <1>4, <1>5, <1>9, OverflowIsExact
  <2> QED
    BY <1>3, <1>8, <1>9, <2>1 DEF IsProduct
<1>10. CASE ~overflow
  <2>1. c.num * a.denom = a.num * Abs(v) * c.denom
    BY <1>8, <1>10
  <2>2. c.num * a.denom * 1 = c.num * a.denom
    <3>1. c.num \in Vals
      BY <1>8 DEF Numbers
    <3>2. \A x, y \in Vals : x * y * 1 = x * y
      BY ValsAreNat
    <3> QED
      BY <1>4, <3>1, <3>2
  <2> QED
    BY <1>3, <1>8, <1>10, <2>1, <2>2 DEF IsProduct
<1> QED
  BY <1>9, <1>10

-----------------------------------------------------------------------------
(* f is any fraction, it is changed in place; g and h come from the        *)
(* constructor.                                                            *)
CalcInv ==
    /\ f = Crash \/ f \in Numbers
    /\ g \in Numbers /\ LowestTerms(g) /\ g.sgn \in {-1, 1}
    /\ h = NoObject \/ NewObject(h)

LEMMA BuiltInv == CalcInit => CalcInv
<1>1. ASSUME NEW q \in Built
      PROVE  q \in Numbers /\ LowestTerms(q) /\ q.sgn \in {-1, 1}
  <2>1. PICK n \in 0 .. MaxInput, d \in 0 .. MaxInput, s \in {-1, 1} :
            q = Construct(n, d, s, {})
    BY DEF Built
  <2>2. n \in Vals /\ d \in Vals /\ s \in {-1, 0, 1}
    BY InputsAssumption, MaxValAssumption DEF Vals
  <2>3. q.sgn = s
    BY <2>1 DEF Construct
  <2> QED
    BY <2>1, <2>2, <2>3, Constructed
<1> QED
  BY <1>1 DEF CalcInit, CalcInv

LEMMA IntegralsFit ==
    ASSUME NEW v \in Integrals
    PROVE  v \in Int /\ Abs(v) <= MaxVal
BY InputsAssumption

LEMMA CalcInvStep == CalcInv /\ [CalcNext]_calcVars => CalcInv'
<1> SUFFICES ASSUME CalcInv, [CalcNext]_calcVars PROVE CalcInv'
  OBVIOUS
<1>1. CASE Called
  <2>1. f \in Numbers /\ h # Crash
    BY <1>1 DEF Called, Running, CalcInv
  <2>2. CASE NewProduct
    BY <2>1, <2>2, TimesType DEF NewProduct, CalcInv
  <2>3. CASE MultiplyBy
    BY <2>1, <2>3, TimesIntoType DEF MultiplyBy, CalcInv
  <2>4. CASE Assign
    <3>1. h \in Numbers
      BY <2>1, <2>4 DEF Assign, CalcInv, NewObject
    <3>2. f' \in Numbers
      BY <2>1, <2>4, <3>1 DEF Assign, Assigned, Numbers
    <3> QED
      BY <2>4, <3>2 DEF Assign, CalcInv
  <2>5. CASE \E v \in Integrals : NewScaled(v)
    BY <2>1, <2>5, IntegralsFit, ScaledType DEF NewScaled, CalcInv
  <2>6. CASE \E v \in Integrals : ScaleBy(v)
    BY <2>1, <2>6, IntegralsFit, ScaledIntoType DEF ScaleBy, CalcInv
  <2>7. CASE UNCHANGED calcVars
    BY <2>7 DEF calcVars, CalcInv
  <2> QED
    BY <2>2, <2>3, <2>4, <2>5, <2>6, <2>7 DEF CalcNext
<1>2. CASE UNCHANGED calcVars
  BY <1>2 DEF calcVars, CalcInv
<1> QED
  BY <1>1, <1>2
     DEF CalcNext, NewProduct, MultiplyBy, Assign, NewScaled, ScaleBy

THEOREM CalcInvariant == CalcSpec => []CalcInv
  BY BuiltInv, CalcInvStep, PTL DEF CalcSpec
-----------------------------------------------------------------------------
(* Two fractions in lowest terms that are the same number have the same    *)
(* numerator: each divides the other, since it has no factor in common     *)
(* with the denominator.                                                   *)
LEMMA DividesOther ==
    ASSUME NEW n \in Nat, NEW d \in Nat, NEW u \in Nat, NEW v \in Nat,
           n * v = u * d, Combination(1, n, d)
    PROVE  \E z \in Int : u = z * n
<1>1. PICK x \in Int, y \in Int : 1 = x * n + y * d
  BY DEF Combination
<1>2. u = (u * x + y * v) * n
  <2>1. u = u * (x * n + y * d)
    BY <1>1
  <2>2. u * (x * n + y * d) = (u * x) * n + y * (u * d)
    BY <1>1
  <2>3. y * (u * d) = y * (n * v)
    OBVIOUS
  <2>4. (u * x) * n + y * (n * v) = (u * x + y * v) * n
    OBVIOUS
  <2> QED
    BY <2>1, <2>2, <2>3, <2>4
<1>3. u * x + y * v \in Int
  OBVIOUS
<1> QED
  BY <1>2, <1>3

LEMMA LowestTermsAreUnique ==
    ASSUME NEW n \in Nat, NEW d \in Nat, NEW u \in Nat, NEW v \in Nat,
           n > 0, u > 0, n * v = u * d, Combination(1, n, d), Combination(1, u, v)
    PROVE  n = u /\ d = v
<1>1. PICK z \in Int : u = z * n
  BY DividesOther
<1>2. PICK w \in Int : n = w * u
  BY DividesOther
<1>3. n = u
  BY <1>1, <1>2, FactorBelow
<1>4. v * n = d * n
  BY <1>3
<1> QED
  BY <1>3, <1>4, Cancelled

LEMMA EqualIsExact ==
    ASSUME NEW q \in Numbers, NEW r \in Numbers, LowestTerms(q), LowestTerms(r),
           q.err = {}, r.err = {}, q.num # 0, r.num # 0, q.sgn \in {-1, 1}
    PROVE  Equal(q, r) <=> q.sgn * q.num * r.denom = r.sgn * r.num * q.denom
<1> DEFINE n == q.num
           d == q.denom
           s == q.sgn
           u == r.num
           v == r.denom
           t == r.sgn
<1>1. /\ n \in Nat /\ d \in Nat /\ u \in Nat /\ v \in Nat
      /\ n > 0 /\ d > 0 /\ u > 0 /\ v > 0 /\ t \in {-1, 0, 1}
  <2>1. /\ n \in Vals /\ d \in Vals /\ u \in Vals /\ v \in Vals
        /\ n # 0 /\ d # 0 /\ u # 0 /\ v # 0 /\ t \in {-1, 0, 1}
    BY DEF Numbers, LowestTerms
  <2>2. \A x \in Vals : x \in Nat /\ (x # 0 => x > 0)
    BY ValsAreNat
  <2> QED
    BY <2>1, <2>2
<1>2. s \in {-1, 1} /\ Combination(1, n, d) /\ Combination(1, u, v)
  BY DEF LowestTerms
<1>3. Equal(q, r) <=> n = u /\ d = v /\ s = t
  BY DEF Equal
<1> HIDE DEF n, d, s, u, v, t
<1>4. ASSUME s * n * v = t * u * d PROVE n = u /\ d = v /\ s = t
  <2>1. n * v \in Nat /\ u * d \in Nat /\ n * v > 0 /\ u * d > 0
    BY <1>1
  <2>2. s * (n * v) = t * (u * d)
    <3>1. s * n * v = s * (n * v) /\ t * u * d = t * (u * d)
      BY <1>1, <1>2
    <3> QED
      BY <1>4, <3>1
  <2>3. s = t /\ n * v = u * d
    BY <1>1, <1>2, <2>1, <2>2
  <2> QED
    BY <1>1, <1>2, <2>3, LowestTermsAreUnique
<1>5. ASSUME n = u, d = v, s = t PROVE s * n * v = t * u * d
  BY <1>5
<1> QED
  BY <1>3, <1>4, <1>5 DEF n, d, s, u, v, t

(* operator== is right about objects the constructor made (EqualIsSameValue*)
(* of the runs), for numbers of any width and any sequence of calls.       *)
THEOREM EqualityIsSound == CalcSpec => []EqualIsSameValue
<1>1. CalcInv => EqualIsSameValue
  BY EqualIsExact DEF CalcInv, EqualIsSameValue, NewObject
<1> QED
  BY <1>1, CalcInvariant, PTL

(* operator* computes the product or says that it overflowed, but for the  *)
(* shortcut that is wrong (ProductExact of the runs), for numbers of any   *)
(* width.                                                                  *)
THEOREM ProductsAreExact == CalcSpec => ProductExact
<1>1. CalcInv /\ [CalcNext]_calcVars =>
        [/\ NewProduct /\ Sound(f, g) /\ ~HalfInverts(f, g) => IsProduct(h', f, g)
         /\ \A v \in Integrals :
               NewScaled(v) /\ Sound(f, AsFraction(v)) =>
                   IsProduct(h', f, AsFraction(v))]_calcVars
  <2> SUFFICES ASSUME CalcInv
               PROVE  /\ NewProduct /\ Sound(f, g) /\ ~HalfInverts(f, g)
                              => IsProduct(h', f, g)
                      /\ \A v \in Integrals :
                            NewScaled(v) /\ Sound(f, AsFraction(v)) =>
                                IsProduct(h', f, AsFraction(v))
    OBVIOUS
  <2>1. Called => f \in Numbers /\ g \in Numbers
    BY DEF Called, Running, CalcInv
  <2>2. ASSUME NewProduct, Sound(f, g), ~HalfInverts(f, g) PROVE IsProduct(h', f, g)
    BY <2>1, <2>2, TimesIsExact DEF NewProduct
  <2>3. ASSUME NEW v \in Integrals, NewScaled(v), Sound(f, AsFraction(v))
        PROVE  IsProduct(h', f, AsFraction(v))
    BY <2>1, <2>3, ScaledIsExact, IntegralsFit DEF NewScaled
  <2> QED
    BY <2>2, <2>3
<1> QED
  BY <1>1, CalcInvariant, PTL DEF CalcSpec, ProductExact
=============================================================================

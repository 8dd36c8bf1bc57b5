-------------------------- MODULE EchoServerProofs --------------------------
(***************************************************************************)
(* Proofs about EchoServer, for any number of clients, bytes and failures, *)
(* and any sizes of the buffer and the window.  First the sessions: one    *)
(* operation or handler each, one accept, sockets of their own (IInv).     *)
(* On top of that the bytes (ByteInv): what was taken from a client and    *)
(* not returned yet is in its session's buffer, which gives the refinement *)
(* of Echo.                                                                *)
(***************************************************************************)
EXTENDS EchoServer, FiniteSetTheorems, TLAPS

Operations == [kind : {"accept", "read", "write"}, session : Sessions,
               bytes : 0 .. MaxLength, done : 0 .. MaxLength]
Entries == [kind : {"accept", "read", "write"}, session : Sessions,
            failed : BOOLEAN, bytes : 0 .. MaxLength]

(* What OneHandler counts: a live session has an operation or a handler,   *)
(* and no two of them have the same session.                               *)
HandlerInv ==
    /\ \A op, other \in pending : op.session = other.session => op = other
    /\ \A i, j \in DOMAIN ready : ready[i].session = ready[j].session => i = j
    /\ \A op \in pending, i \in DOMAIN ready : op.session # ready[i].session
    /\ \A op \in pending : op.session \in live
    /\ \A i \in DOMAIN ready : ready[i].session \in live
    /\ \A s \in live : \/ \E op \in pending : op.session = s
                       \/ \E i \in DOMAIN ready : ready[i].session = s

(* One accept is pending or has its handler queued.                        *)
AcceptInv ==
    /\ \/ \E op \in pending : op.kind = "accept"
       \/ \E i \in DOMAIN ready : ready[i].kind = "accept"
    /\ \A op, other \in pending :
          op.kind = "accept" /\ other.kind = "accept" => op = other
    /\ \A i, j \in DOMAIN ready :
          ready[i].kind = "accept" /\ ready[j].kind = "accept" => i = j
    /\ \A op \in pending, i \in DOMAIN ready :
          ~(op.kind = "accept" /\ ready[i].kind = "accept")

(* A session's socket is connected from the moment its accept succeeds     *)
(* until it is deleted, to a client no other session is connected to.      *)
SocketInv ==
    /\ \A s \in Sessions : s \notin live => socket[s] = NoClient
    /\ \A op \in pending : op.kind = "accept" <=> socket[op.session] = NoClient
    /\ \A i \in DOMAIN ready :
          ready[i].kind = "accept" /\ ready[i].failed <=>
              socket[ready[i].session] = NoClient
    /\ \A s, u \in Sessions : socket[s] = socket[u] => s = u \/ socket[s] = NoClient
    /\ \A s \in Sessions : socket[s] # NoClient => client[socket[s]] # "idle"
    /\ \A i \in DOMAIN backlog : client[backlog[i]] # "idle"
    /\ \A i \in DOMAIN backlog, s \in Sessions : socket[s] # backlog[i]
    /\ \A i, j \in DOMAIN backlog : backlog[i] = backlog[j] => i = j

IInv == TypeOK /\ HandlerInv /\ AcceptInv /\ SocketInv

-----------------------------------------------------------------------------
LEMMA ConstantTypes ==
    /\ NoClient \notin Clients
    /\ MaxLength \in Nat \ {0} /\ Window \in Nat \ {0}
    /\ MaxBytes \in [Clients -> Nat] /\ MaxFailures \in Nat
  BY SessionsAssumption, BoundsAssumption

LEMMA AppendFacts ==
    ASSUME NEW S, NEW s \in Seq(S), NEW e \in S
    PROVE  /\ Append(s, e) \in Seq(S)
           /\ DOMAIN s = 1 .. Len(s) /\ Len(s) \in Nat
           /\ DOMAIN Append(s, e) = 1 .. Len(s) + 1
           /\ \A i \in 1 .. Len(s) : Append(s, e)[i] = s[i]
           /\ Append(s, e)[Len(s) + 1] = e
  OBVIOUS

LEMMA TailFacts ==
    ASSUME NEW S, NEW s \in Seq(S), s # <<>>
    PROVE  /\ Tail(s) \in Seq(S)
           /\ DOMAIN s = 1 .. Len(s) /\ Len(s) \in Nat \ {0}
           /\ DOMAIN Tail(s) = 1 .. Len(s) - 1
           /\ \A i \in 1 .. Len(s) - 1 : Tail(s)[i] = s[i + 1]
           /\ Head(s) = s[1] /\ Head(s) \in S
  OBVIOUS

(* The entries of the tail are those of the sequence, but for the first.   *)
LEMMA TailEntries ==
    ASSUME NEW S, NEW s \in Seq(S), s # <<>>
    PROVE  /\ Tail(s) \in Seq(S)
           /\ 1 \in DOMAIN s /\ Head(s) = s[1] /\ Head(s) \in S
           /\ \A i \in DOMAIN Tail(s) : /\ i + 1 \in DOMAIN s /\ i + 1 # 1
                                       /\ Tail(s)[i] = s[i + 1]
           /\ \A i, j \in DOMAIN Tail(s) : i + 1 = j + 1 => i = j
           /\ \A i \in DOMAIN s : i # 1 => /\ i - 1 \in DOMAIN Tail(s)
                                         /\ Tail(s)[i - 1] = s[i]
<1>1. /\ Tail(s) \in Seq(S)
      /\ DOMAIN s = 1 .. Len(s) /\ Len(s) \in Nat \ {0}
      /\ DOMAIN Tail(s) = 1 .. Len(s) - 1
      /\ \A i \in 1 .. Len(s) - 1 : Tail(s)[i] = s[i + 1]
      /\ Head(s) = s[1] /\ Head(s) \in S
  BY TailFacts
<1>2. \A i \in DOMAIN s : i # 1 => i - 1 \in DOMAIN Tail(s) /\ Tail(s)[i - 1] = s[(i - 1) + 1]
  BY <1>1
<1>3. \A i \in DOMAIN s : (i - 1) + 1 = i
  BY <1>1
<1> QED
  BY <1>1, <1>2, <1>3

(* Nothing is pending on a session whose handler is called: deleting it    *)
(* cancels nothing.                                                        *)
LEMMA NothingCancelled ==
    ASSUME TypeOK, HandlerInv, ready # <<>>
    PROVE  /\ Of(Head(ready).session) = {}
           /\ Tail(ready) \o Cancelled(Head(ready).session) = Tail(ready)
<1> DEFINE s == Head(ready).session
<1>1. ready \in Seq(Entries)
  BY DEF TypeOK, Entries
<1>2. Head(ready) = ready[1] /\ 1 \in DOMAIN ready /\ Tail(ready) \in Seq(Entries)
  BY <1>1, TailFacts
<1>3. Of(s) = {}
  BY <1>2 DEF HandlerInv, Of
<1>4. {Handler(op, TRUE, 0) : op \in Of(s)} = {}
  BY <1>3
<1>5. SetToSeq({}) = <<>>
  <2>1. Cardinality({}) = 0
    BY FS_EmptySet
  <2>2. [1 .. 0 -> {}] = {<<>>}
    <3>1. ASSUME NEW f \in [1 .. 0 -> {}] PROVE f = <<>>
      <4>1. f \in Seq({}) /\ Len(f) = 0
        OBVIOUS
      <4> QED
        BY <4>1
    <3>2. <<>> \in [1 .. 0 -> {}]
      OBVIOUS
    <3> QED
      BY <3>1, <3>2
  <2>3. IsInjective(<<>>)
    BY DEF IsInjective
  <2> QED
    BY <2>1, <2>2, <2>3 DEF SetToSeq
<1>6. Cancelled(s) = <<>>
  BY <1>4, <1>5 DEF Cancelled
<1> QED
  BY <1>2, <1>3, <1>6

-----------------------------------------------------------------------------
(* Initial states.                                                         *)
LEMMA InitIInv == Init => IInv
<1> SUFFICES ASSUME Init PROVE IInv
  OBVIOUS
<1>1. PICK s \in Sessions : live = {s} /\ pending = {Accept(s)}
  BY DEF Init
<1>2. TypeOK
  BY <1>1, ConstantTypes DEF Init, TypeOK, Accept
<1>3. HandlerInv /\ AcceptInv
  BY <1>1 DEF Init, HandlerInv, AcceptInv, Accept
<1>4. SocketInv
  BY <1>1, ConstantTypes DEF Init, SocketInv, Accept
<1> QED
  BY <1>2, <1>3, <1>4 DEF IInv

-----------------------------------------------------------------------------
(* How sessions keep one operation or handler.  An operation completes:    *)
(* its handler takes its place.                                            *)
LEMMA CompleteKeeps ==
    ASSUME TypeOK, HandlerInv, AcceptInv, NEW op \in pending,
           NEW error \in BOOLEAN, NEW n \in 0 .. MaxLength,
           Complete(op, error, n), live' = live
    PROVE  /\ HandlerInv' /\ AcceptInv'
           /\ ready' \in Seq(Entries) /\ pending' \subseteq pending
           /\ \A i \in DOMAIN ready' : \/ i \in DOMAIN ready /\ ready'[i] = ready[i]
                                       \/ ready'[i] = Handler(op, error, n)
<1> DEFINE e == Handler(op, error, n)
<1>1. e \in Entries /\ e.session = op.session /\ e.kind = op.kind
  BY DEF TypeOK, Entries, Handler
<1>2. ready \in Seq(Entries) /\ ready' = Append(ready, e) /\ pending' = pending \ {op}
  BY DEF TypeOK, Entries, Complete
<1>3. /\ ready' \in Seq(Entries)
      /\ DOMAIN ready = 1 .. Len(ready) /\ Len(ready) \in Nat
      /\ DOMAIN ready' = 1 .. Len(ready) + 1
      /\ \A i \in 1 .. Len(ready) : ready'[i] = ready[i]
      /\ ready'[Len(ready) + 1] = e
  BY <1>1, <1>2, AppendFacts
<1>4. HandlerInv'
  BY <1>1, <1>2, <1>3 DEF HandlerInv
<1>5. AcceptInv'
  BY <1>1, <1>2, <1>3 DEF AcceptInv
<1> QED
  BY <1>2, <1>3, <1>4, <1>5

(* A handler is called: it starts some operations, each of its own session *)
(* or of a new one, and its session lives on only if it is one of theirs.  *)
LEMMA HandlerKeeps ==
    ASSUME TypeOK, HandlerInv, AcceptInv, ready # <<>>, ready' = Tail(ready),
           NEW Started, pending' = pending \cup Started,
           \A op, other \in Started : op.session = other.session => op = other,
           \A op \in Started : op.session = Head(ready).session \/ op.session \notin live,
           live' = (live \ {Head(ready).session}) \cup {op.session : op \in Started},
           \A op, other \in Started :
              op.kind = "accept" /\ other.kind = "accept" => op = other,
           (\E op \in Started : op.kind = "accept") <=> Head(ready).kind = "accept"
    PROVE  HandlerInv' /\ AcceptInv'
<1> DEFINE u == Head(ready).session
<1>1. ready \in Seq(Entries)
  BY DEF TypeOK, Entries
<1>2. /\ 1 \in DOMAIN ready /\ Head(ready) = ready[1]
      /\ \A i \in DOMAIN ready' : i + 1 \in DOMAIN ready /\ i + 1 # 1 /\ ready'[i] = ready[i + 1]
      /\ \A i, j \in DOMAIN ready' : i + 1 = j + 1 => i = j
      /\ \A i \in DOMAIN ready : i # 1 => i - 1 \in DOMAIN ready' /\ ready'[i - 1] = ready[i]
  BY <1>1, TailEntries
<1>3. \A i \in DOMAIN ready' : ready'[i].session # u /\ ready'[i].session \in live
  BY <1>2 DEF HandlerInv
<1>4. \A op \in pending : op.session # u /\ op.session \in live
  BY <1>2 DEF HandlerInv
<1>5. HandlerInv'
  <2>1. \A op, other \in pending' : op.session = other.session => op = other
    BY <1>4 DEF HandlerInv
  <2>2. \A i, j \in DOMAIN ready' : ready'[i].session = ready'[j].session => i = j
    BY <1>2 DEF HandlerInv
  <2>3. \A op \in pending', i \in DOMAIN ready' : op.session # ready'[i].session
    BY <1>2, <1>3 DEF HandlerInv
  <2>4. /\ \A op \in pending' : op.session \in live'
        /\ \A i \in DOMAIN ready' : ready'[i].session \in live'
    BY <1>3, <1>4
  <2>5. ASSUME NEW s \in live'
        PROVE  \/ \E op \in pending' : op.session = s
               \/ \E i \in DOMAIN ready' : ready'[i].session = s
    <3>1. CASE \E op \in Started : op.session = s
      BY <3>1
    <3>2. CASE s \in live /\ s # u
      <4>1. CASE \E op \in pending : op.session = s
        BY <4>1
      <4>2. CASE \E i \in DOMAIN ready : ready[i].session = s
        <5>1. PICK i \in DOMAIN ready : ready[i].session = s
          BY <4>2
        <5> QED
          BY <1>2, <3>2, <5>1
      <4> QED
        BY <3>2, <4>1, <4>2 DEF HandlerInv
    <3> QED
      BY <3>1, <3>2
  <2> QED
    BY <2>1, <2>2, <2>3, <2>4, <2>5 DEF HandlerInv
<1>6. AcceptInv'
  <2>1. CASE Head(ready).kind = "accept"
    <3>1. /\ \A op \in pending : op.kind # "accept"
          /\ \A i \in DOMAIN ready' : ready'[i].kind # "accept"
      BY <1>2, <2>1 DEF AcceptInv
    <3> QED
      BY <2>1, <3>1 DEF AcceptInv
  <2>2. CASE Head(ready).kind # "accept"
    <3>1. \/ \E op \in pending' : op.kind = "accept"
          \/ \E i \in DOMAIN ready' : ready'[i].kind = "accept"
      <4>1. CASE \E i \in DOMAIN ready : ready[i].kind = "accept"
        BY <1>2, <2>2, <4>1
      <4> QED
        BY <4>1 DEF AcceptInv
    <3>2. \A i, j \in DOMAIN ready' :
             ready'[i].kind = "accept" /\ ready'[j].kind = "accept" => i = j
      BY <1>2 DEF AcceptInv
    <3> QED
      BY <1>2, <2>2, <3>1, <3>2 DEF AcceptInv
  <2> QED
    BY <2>1, <2>2
<1> QED
  BY <1>5, <1>6

(* A session that is deleted starts nothing and cancels nothing.           *)
LEMMA DeleteKeeps ==
    ASSUME TypeOK, HandlerInv, AcceptInv, ready # <<>>,
           Head(ready).kind # "accept", Delete(Head(ready).session)
    PROVE  HandlerInv' /\ AcceptInv' /\ pending' = pending /\ ready' = Tail(ready)
<1> DEFINE Started == {}
<1>1. /\ ready' = Tail(ready) /\ pending' = pending /\ pending' = pending \cup Started
      /\ live' = (live \ {Head(ready).session}) \cup {op.session : op \in Started}
  BY NothingCancelled DEF Delete
<1>2. \A op \in Started : FALSE
  OBVIOUS
<1> HIDE DEF Started
<1>3. (\E op \in Started : op.kind = "accept") <=> Head(ready).kind = "accept"
  BY <1>2
<1> QED
  BY <1>1, <1>2, <1>3, HandlerKeeps

LEMMA StartKeeps ==
    ASSUME TypeOK, HandlerInv, AcceptInv, ready # <<>>, NEW op, Start(op), live' = live,
           op.session = Head(ready).session, op.kind # "accept", Head(ready).kind # "accept"
    PROVE  HandlerInv' /\ AcceptInv'
<1>1. ready \in Seq(Entries)
  BY DEF TypeOK, Entries
<1>2. op.session \in live
  BY <1>1, TailEntries DEF HandlerInv
<1>3. ready' = Tail(ready) /\ pending' = pending \cup {op}
  BY DEF Start
<1>4. live' = (live \ {Head(ready).session}) \cup {o.session : o \in {op}}
  BY <1>2
<1> QED
  BY <1>3, <1>4, HandlerKeeps

LEMMA HandleAcceptKeeps ==
    ASSUME TypeOK, HandlerInv, AcceptInv, HandleAccept
    PROVE  HandlerInv' /\ AcceptInv'
<1> DEFINE u == Head(ready).session
<1>1. ready # <<>> /\ Head(ready).kind = "accept" /\ ready' = Tail(ready)
  BY DEF HandleAccept, Called
<1>2. PICK s \in Sessions \ live :
         live' = live \cup {s} /\ pending' = (pending \cup {Read(u)}) \cup {Accept(s)}
  BY DEF HandleAccept, StartAccept
<1>3. u \in live
  BY <1>1, TailEntries DEF HandlerInv, TypeOK
<1>4. /\ Read(u).session = u /\ Read(u).kind = "read"
      /\ Accept(s).session = s /\ Accept(s).kind = "accept"
  BY DEF Read, Accept
<1> DEFINE Started == {Read(u), Accept(s)}
<1>5. pending' = pending \cup Started
  BY <1>2
<1>6. live' = (live \ {u}) \cup {op.session : op \in Started}
  BY <1>2, <1>3, <1>4
<1>7. /\ \A op, other \in Started : op.session = other.session => op = other
      /\ \A op \in Started : op.session = u \/ op.session \notin live
      /\ \A op, other \in Started :
            op.kind = "accept" /\ other.kind = "accept" => op = other
      /\ \E op \in Started : op.kind = "accept"
  BY <1>2, <1>3, <1>4
<1> HIDE DEF Started
<1> QED
  BY <1>1, <1>5, <1>6, <1>7, HandlerKeeps

LEMMA HandleAcceptFailedKeeps ==
    ASSUME TypeOK, HandlerInv, AcceptInv, HandleAcceptFailed
    PROVE  /\ HandlerInv' /\ AcceptInv'
           /\ ready' = Tail(ready)
           /\ \E s \in Sessions \ (live \ {Head(ready).session}) :
                 /\ live' = (live \ {Head(ready).session}) \cup {s}
                 /\ pending' = pending \cup {Accept(s)}
<1> DEFINE u == Head(ready).session
<1>1. ready # <<>> /\ Head(ready).kind = "accept"
  BY DEF HandleAcceptFailed, Called
<1>2. ready' = Tail(ready) /\ pending \ Of(u) = pending
  BY <1>1, NothingCancelled DEF HandleAcceptFailed
<1>3. PICK s \in Sessions \ (live \ {u}) :
         live' = (live \ {u}) \cup {s} /\ pending' = pending \cup {Accept(s)}
  BY <1>2 DEF HandleAcceptFailed, StartAccept
<1>4. Accept(s).session = s /\ Accept(s).kind = "accept"
  BY DEF Accept
<1> DEFINE Started == {Accept(s)}
<1>5. live' = (live \ {u}) \cup {op.session : op \in Started}
  BY <1>3, <1>4
<1>6. pending' = pending \cup Started
  BY <1>3
<1>7. /\ \A op, other \in Started : op.session = other.session => op = other
      /\ \A op \in Started : op.session = u \/ op.session \notin live
      /\ \A op, other \in Started :
            op.kind = "accept" /\ other.kind = "accept" => op = other
      /\ \E op \in Started : op.kind = "accept"
  BY <1>3, <1>4
<1>8. HandlerInv' /\ AcceptInv'
  <2> HIDE DEF Started
  <2> QED
    BY <1>1, <1>2, <1>5, <1>6, <1>7, HandlerKeeps
<1> QED
  BY <1>2, <1>3, <1>8

(* Every step keeps one operation or handler per session, and one accept.  *)
LEMMA HandlerStep == IInv /\ [Next]_vars => HandlerInv' /\ AcceptInv'
<1> SUFFICES ASSUME IInv, [Next]_vars PROVE HandlerInv' /\ AcceptInv'
  OBVIOUS
<1> USE ConstantTypes DEF IInv
<1>1. ASSUME UNCHANGED <<live, pending, ready>> PROVE HandlerInv' /\ AcceptInv'
  BY <1>1 DEF HandlerInv, AcceptInv
<1>2. ASSUME NEW op \in pending, Progress(op) \/ AcceptFails(op)
      PROVE  HandlerInv' /\ AcceptInv'
  <2>1. op.done \in 0 .. MaxLength /\ op.bytes \in 0 .. MaxLength /\ op.session \in Sessions
    BY DEF TypeOK
  <2> DEFINE Completes == live' = live /\ \E error \in BOOLEAN, n \in 0 .. MaxLength :
                                             Complete(op, error, n)
  <2>c. Completes => HandlerInv' /\ AcceptInv'
    BY CompleteKeeps
  <2>z. 0 \in 0 .. MaxLength /\ \A n \in 1 .. MaxLength : n \in 0 .. MaxLength
    OBVIOUS
  <2>2. CASE Accepted(op)
    BY <2>2, <2>z, <2>c, Zenon DEF Accepted
  <2>3. CASE AcceptFails(op)
    BY <2>3, <2>z, <2>c, Zenon DEF AcceptFails
  <2>4. CASE Receive(op)
    <3>1. PICK n \in 1 .. MaxLength : Complete(op, FALSE, n)
      BY <2>4 DEF Receive
    <3> QED
      BY <2>4, <3>1, <2>z, <2>c, Zenon DEF Receive
  <2>5. CASE ReceiveFails(op)
    BY <2>5, <2>z, <2>c, Zenon DEF ReceiveFails
  <2>6. CASE WriteFails(op)
    BY <2>1, <2>6, <2>c, Zenon DEF WriteFails
  <2>7. CASE WriteSome(op)
    <3>1. PICK n \in 1 .. op.bytes - op.done :
             IF op.done + n = op.bytes
             THEN Complete(op, FALSE, op.bytes)
             ELSE /\ pending' = (pending \ {op}) \cup {[op EXCEPT !.done = @ + n]}
                  /\ UNCHANGED ready
      BY <2>7 DEF WriteSome
    <3>2. CASE op.done + n = op.bytes
      BY <2>1, <2>7, <3>1, <3>2, <2>c, Zenon DEF WriteSome
    <3>3. CASE op.done + n # op.bytes
      <4> DEFINE rest == [op EXCEPT !.done = @ + n]
      <4>1. rest.session = op.session /\ rest.kind = op.kind
        BY DEF TypeOK
      <4>2. pending' = (pending \ {op}) \cup {rest} /\ UNCHANGED <<live, ready>>
        BY <2>7, <3>1, <3>3 DEF WriteSome
      <4> HIDE DEF rest
      <4> QED
        BY <4>1, <4>2 DEF HandlerInv, AcceptInv
    <3> QED
      BY <3>2, <3>3
  <2> QED
    BY <1>2, <2>2, <2>3, <2>4, <2>5, <2>6, <2>7 DEF Progress
<1>3. CASE HandleAccept
  BY <1>3, HandleAcceptKeeps
<1>4. CASE HandleAcceptFailed
  BY <1>4, HandleAcceptFailedKeeps
<1>5. CASE HandleRead
  BY <1>5, StartKeeps DEF HandleRead, Called, Write
<1>6. CASE HandleReadFailed
  BY <1>6, DeleteKeeps DEF HandleReadFailed, Called
<1>7. CASE HandleWrite
  BY <1>7, StartKeeps DEF HandleWrite, Called, Read
<1>8. CASE HandleWriteFailed
  BY <1>8, DeleteKeeps DEF HandleWriteFailed, Called
<1>9. ASSUME NEW c \in Clients, Connect(c) \/ Send(c) \/ GetEcho(c) \/ Shutdown(c) \/ Reset(c)
      PROVE  UNCHANGED <<live, pending, ready>>
  BY <1>9 DEF Connect, Send, GetEcho, Shutdown, Reset, server
<1>10. CASE UNCHANGED vars
  BY <1>1, <1>10 DEF vars
<1> QED
  BY <1>1, <1>2, <1>3, <1>4, <1>5, <1>6, <1>7, <1>8, <1>9, <1>10 DEF Next, RunOne
-----------------------------------------------------------------------------
(* An operation that is pending, and the handler that is called next.      *)
LEMMA OperationType ==
    ASSUME IInv, NEW op \in pending
    PROVE  /\ op \in Operations /\ op.session \in Sessions /\ op.session \in live
           /\ op.bytes \in 0 .. MaxLength /\ op.done \in 0 .. MaxLength
           /\ op.kind # "accept" => socket[op.session] \in Clients
<1>1. op \in Operations
  BY DEF IInv, TypeOK, Operations
<1>2. /\ op.session \in Sessions
      /\ op.bytes \in 0 .. MaxLength /\ op.done \in 0 .. MaxLength
  BY <1>1 DEF Operations
<1> QED
  BY <1>1, <1>2 DEF IInv, TypeOK, HandlerInv, SocketInv

LEMMA EntryType ==
    ASSUME IInv, ready # <<>>
    PROVE  /\ ready \in Seq(Entries) /\ Tail(ready) \in Seq(Entries)
           /\ Head(ready) \in Entries
           /\ Head(ready).session \in Sessions /\ Head(ready).session \in live
           /\ Head(ready).bytes \in 0 .. MaxLength
           /\ socket[Head(ready).session] = NoClient <=>
                 Head(ready).kind = "accept" /\ Head(ready).failed
<1>1. ready \in Seq(Entries)
  BY DEF IInv, TypeOK, Entries
<1>2. /\ Tail(ready) \in Seq(Entries) /\ Head(ready) \in Entries
      /\ 1 \in DOMAIN ready /\ Head(ready) = ready[1]
  BY <1>1, TailEntries
<1> QED
  BY <1>1, <1>2 DEF IInv, HandlerInv, SocketInv, Entries

LEMMA CompleteTypes ==
    ASSUME IInv, NEW op \in pending, NEW error \in BOOLEAN, NEW n \in 0 .. MaxLength,
           Complete(op, error, n)
    PROVE  pending' \subseteq Operations /\ ready' \in Seq(Entries)
<1>1. Handler(op, error, n) \in Entries
  BY DEF IInv, TypeOK, Entries, Handler
<1> QED
  BY <1>1, AppendFacts DEF IInv, TypeOK, Operations, Entries, Complete

(* The types of what the server and of what the network keeps.             *)
ServerTypes ==
    /\ live \subseteq Sessions
    /\ socket \in [Sessions -> Clients \cup {NoClient}]
    /\ data \in [Sessions -> [1 .. MaxLength -> Nat]]
    /\ pending \subseteq Operations
    /\ ready \in Seq(Entries)

NetworkTypes ==
    /\ client \in [Clients -> {"idle", "connected", "shut", "reset"}]
    /\ backlog \in Seq(Clients)
    /\ sent \in [Clients -> Nat] /\ \A c \in Clients : sent[c] <= MaxBytes[c]
    /\ toServer \in [Clients -> Seq(Nat)] /\ toClient \in [Clients -> Seq(Nat)]
    /\ received \in [Clients -> Seq(Nat)]
    /\ failures \in 0 .. MaxFailures

LEMMA TypeParts == TypeOK <=> ServerTypes /\ NetworkTypes
  BY DEF TypeOK, ServerTypes, NetworkTypes, Operations, Entries

LEMMA ClientTypes ==
    ASSUME IInv, NEW c \in Clients,
           Connect(c) \/ Send(c) \/ GetEcho(c) \/ Shutdown(c) \/ Reset(c)
    PROVE  ServerTypes' /\ NetworkTypes'
<1>1. ServerTypes /\ NetworkTypes
  BY TypeParts DEF IInv
<1>2. ServerTypes'
  BY <1>1 DEF Connect, Send, GetEcho, Shutdown, Reset, server, ServerTypes
<1>3. CASE Connect(c)
  BY <1>1, <1>2, <1>3 DEF Connect, NetworkTypes
<1>4. CASE Send(c)
  <2>1. sent[c] + 1 \in Nat /\ sent[c] + 1 <= MaxBytes[c]
    <3>1. sent[c] \in Nat /\ sent[c] < MaxBytes[c] /\ MaxBytes[c] \in Nat
      BY <1>1, <1>4, ConstantTypes DEF Send, NetworkTypes
    <3> QED
      BY <3>1
  <2>2. Append(toServer[c], sent[c] + 1) \in Seq(Nat)
    BY <1>1, <2>1 DEF NetworkTypes
  <2> QED
    BY <1>1, <1>2, <1>4, <2>1, <2>2 DEF Send, NetworkTypes
<1>5. CASE GetEcho(c)
  <2>1. Append(received[c], Head(toClient[c])) \in Seq(Nat) /\ Tail(toClient[c]) \in Seq(Nat)
    BY <1>1, <1>5 DEF GetEcho, server, NetworkTypes
  <2> QED
    BY <1>1, <1>2, <1>5, <2>1 DEF GetEcho, NetworkTypes
<1>6. CASE Shutdown(c)
  BY <1>1, <1>2, <1>6 DEF Shutdown, NetworkTypes
<1>7. CASE Reset(c)
  BY <1>1, <1>2, <1>7 DEF Reset, NetworkTypes
<1> QED
  BY <1>2, <1>3, <1>4, <1>5, <1>6, <1>7

LEMMA SubSeqType ==
    ASSUME NEW f, NEW m \in Nat, NEW n \in Nat, \A i \in m .. n : f[i] \in Nat
    PROVE  SubSeq(f, m, n) \in Seq(Nat)
<1>1. SubSeq(f, m, n) = [i \in 1 .. (1 + n - m) |-> f[i + m - 1]]
  OBVIOUS
<1>2. \A i \in 1 .. (1 + n - m) : i + m - 1 \in m .. n
  OBVIOUS
<1>3. CASE m <= n
  BY <1>1, <1>2, <1>3
<1>4. CASE m > n
  BY <1>1, <1>2, <1>4
<1> QED
  BY <1>3, <1>4

LEMMA OperationTypes ==
    ASSUME IInv, NEW op \in pending, Progress(op) \/ AcceptFails(op)
    PROVE  ServerTypes' /\ NetworkTypes'
<1> DEFINE s == op.session
           c == socket[s]
<1>1. ServerTypes /\ NetworkTypes
  BY TypeParts DEF IInv
<1>2. /\ op \in Operations /\ s \in Sessions /\ op.bytes \in 0 .. MaxLength
      /\ op.done \in 0 .. MaxLength /\ (op.kind # "accept" => c \in Clients)
  BY OperationType
<1> DEFINE Completes == \E error \in BOOLEAN, n \in 0 .. MaxLength : Complete(op, error, n)
<1>3. Completes => pending' \subseteq Operations /\ ready' \in Seq(Entries)
  BY CompleteTypes
<1>4. 0 \in 0 .. MaxLength /\ \A n \in 1 .. MaxLength : n \in 0 .. MaxLength
  BY ConstantTypes
<1>5. CASE Accepted(op)
  <2>1. Completes
    BY <1>4, <1>5, Zenon DEF Accepted
  <2>2. Head(backlog) \in Clients /\ Tail(backlog) \in Seq(Clients)
    BY <1>1, <1>5 DEF Accepted, NetworkTypes
  <2> HIDE DEF Completes
  <2> QED
    BY <1>1, <1>3, <1>5, <2>1, <2>2 DEF Accepted, ServerTypes, NetworkTypes
<1>6. CASE AcceptFails(op)
  <2>1. Completes
    BY <1>4, <1>6, Zenon DEF AcceptFails
  <2> HIDE DEF Completes
  <2> QED
    BY <1>1, <1>3, <1>6, <2>1, ConstantTypes DEF AcceptFails, ServerTypes, NetworkTypes
<1>7. CASE Receive(op)
  <2>1. PICK n \in 1 .. MaxLength :
           /\ n <= Len(toServer[c])
           /\ data' = [data EXCEPT ![s] = [i \in 1 .. MaxLength |->
                          IF i <= n THEN toServer[c][i] ELSE @[i]]]
           /\ toServer' = [toServer EXCEPT ![c] = SubSeq(@, n + 1, Len(@))]
           /\ Complete(op, FALSE, n)
    BY <1>7 DEF Receive
  <2>2. Completes
    BY <1>4, <2>1, Zenon
  <2>3. c \in Clients /\ toServer[c] \in Seq(Nat)
    BY <1>1, <1>2, <1>7 DEF Receive, NetworkTypes
  <2>4. SubSeq(toServer[c], n + 1, Len(toServer[c])) \in Seq(Nat)
    BY <2>1, <2>3
  <2>5. [i \in 1 .. MaxLength |-> IF i <= n THEN toServer[c][i] ELSE data[s][i]]
           \in [1 .. MaxLength -> Nat]
    <3>1. \A i \in 1 .. MaxLength : data[s][i] \in Nat
      BY <1>1, <1>2 DEF ServerTypes
    <3>2. \A i \in 1 .. MaxLength : i <= n => toServer[c][i] \in Nat
      <4>1. \A i \in 1 .. Len(toServer[c]) : toServer[c][i] \in Nat
        BY <2>3
      <4>2. Len(toServer[c]) \in Nat /\ n \in Nat /\ n <= Len(toServer[c]) /\ MaxLength \in Nat
        BY <2>1, <2>3, ConstantTypes
      <4> QED
        BY <4>1, <4>2
    <3> QED
      BY <3>1, <3>2
  <2> HIDE DEF Completes
  <2> QED
    BY <1>1, <1>3, <1>7, <2>1, <2>2, <2>3, <2>4, <2>5 DEF Receive, ServerTypes, NetworkTypes
<1>8. CASE ReceiveFails(op)
  <2>1. Completes
    BY <1>4, <1>8, Zenon DEF ReceiveFails
  <2> HIDE DEF Completes
  <2> QED
    BY <1>1, <1>3, <1>8, <2>1 DEF ReceiveFails, ServerTypes, NetworkTypes, network
<1>9. CASE WriteFails(op)
  <2>1. Completes
    BY <1>2, <1>9, Zenon DEF WriteFails
  <2> HIDE DEF Completes
  <2> QED
    BY <1>1, <1>3, <1>9, <2>1 DEF WriteFails, ServerTypes, NetworkTypes, network
<1>10. CASE WriteSome(op)
  <2>1. PICK n \in 1 .. op.bytes - op.done :
           /\ toClient' = [toClient EXCEPT ![c] =
                              @ \o SubSeq(data[s], op.done + 1, op.done + n)]
           /\ IF op.done + n = op.bytes
              THEN Complete(op, FALSE, op.bytes)
              ELSE /\ pending' = (pending \ {op}) \cup {[op EXCEPT !.done = @ + n]}
                   /\ UNCHANGED ready
    BY <1>10 DEF WriteSome
  <2>2. pending' \subseteq Operations /\ ready' \in Seq(Entries)
    <3>1. CASE op.done + n = op.bytes
      BY <1>2, <1>3, <2>1, <3>1, Zenon
    <3>2. CASE op.done + n # op.bytes
      <4>1. op.done + n \in 0 .. MaxLength
        BY <1>2, <2>1, ConstantTypes
      <4>2. [op EXCEPT !.done = @ + n] \in Operations
        BY <1>2, <4>1 DEF Operations
      <4> QED
        BY <1>1, <2>1, <3>2, <4>2 DEF ServerTypes
    <3> QED
      BY <3>1, <3>2
  <2>3. c \in Clients /\ toClient[c] \in Seq(Nat)
    BY <1>1, <1>2, <1>10 DEF WriteSome, NetworkTypes
  <2>4. SubSeq(data[s], op.done + 1, op.done + n) \in Seq(Nat)
    <3>1. data[s] \in [1 .. MaxLength -> Nat]
      BY <1>1, <1>2 DEF ServerTypes
    <3>2. op.done + n <= MaxLength /\ op.done + 1 \in Nat /\ op.done + n \in Nat
      BY <1>2, <2>1, ConstantTypes
    <3>3. \A i \in op.done + 1 .. op.done + n : data[s][i] \in Nat
      BY <1>2, <3>1, <3>2, ConstantTypes
    <3> QED
      BY <3>2, <3>3, SubSeqType
  <2>5. toClient[c] \o SubSeq(data[s], op.done + 1, op.done + n) \in Seq(Nat)
    BY <2>3, <2>4
  <2>6. toClient' \in [Clients -> Seq(Nat)]
    BY <1>1, <2>1, <2>3, <2>5 DEF NetworkTypes
  <2> QED
    BY <1>1, <1>10, <2>2, <2>6 DEF WriteSome, ServerTypes, NetworkTypes
<1> QED
  BY <1>5, <1>6, <1>7, <1>8, <1>9, <1>10 DEF Progress

LEMMA HandlerTypes ==
    ASSUME IInv, RunOne
    PROVE  ServerTypes' /\ NetworkTypes'
<1> DEFINE u == Head(ready).session
<1>1. ServerTypes /\ NetworkTypes
  BY TypeParts DEF IInv
<1>2. ready # <<>>
  BY DEF RunOne, HandleAccept, HandleAcceptFailed, HandleRead, HandleReadFailed,
         HandleWrite, HandleWriteFailed, Called
<1>3. /\ Tail(ready) \in Seq(Entries) /\ u \in Sessions
      /\ Head(ready).bytes \in 0 .. MaxLength
  BY <1>2, EntryType
<1>4. /\ \A s \in Sessions : Accept(s) \in Operations /\ Read(s) \in Operations
      /\ Write(u, Head(ready).bytes) \in Operations
  BY <1>3, ConstantTypes DEF Operations, Accept, Read, Write
<1>5. NetworkTypes'
  BY <1>1 DEF RunOne, HandleAccept, HandleAcceptFailed, HandleRead, HandleReadFailed,
              HandleWrite, HandleWriteFailed, network, NetworkTypes
<1>6. CASE HandleAccept
  BY <1>1, <1>3, <1>4, <1>5, <1>6 DEF HandleAccept, StartAccept, ServerTypes
<1>7. CASE HandleAcceptFailed
  <2>1. /\ ready' = Tail(ready)
        /\ \E s \in Sessions \ (live \ {u}) :
              live' = (live \ {u}) \cup {s} /\ pending' = pending \cup {Accept(s)}
    BY <1>7, HandleAcceptFailedKeeps DEF IInv
  <2> QED
    BY <1>1, <1>3, <1>4, <1>5, <1>7, <2>1 DEF HandleAcceptFailed, Closed, ServerTypes
<1>8. CASE HandleRead
  BY <1>1, <1>3, <1>4, <1>5, <1>8 DEF HandleRead, Start, ServerTypes
<1>9. CASE HandleWrite
  BY <1>1, <1>3, <1>4, <1>5, <1>9 DEF HandleWrite, Start, ServerTypes
<1>10. CASE HandleReadFailed \/ HandleWriteFailed
  <2>1. Head(ready).kind # "accept" /\ Delete(u) /\ UNCHANGED data
    BY <1>10 DEF HandleReadFailed, HandleWriteFailed, Called
  <2>2. pending' = pending /\ ready' = Tail(ready)
    BY <1>2, <2>1, DeleteKeeps DEF IInv
  <2> QED
    BY <1>1, <1>3, <1>5, <2>1, <2>2 DEF Delete, Closed, ServerTypes
<1> QED
  BY <1>6, <1>7, <1>8, <1>9, <1>10 DEF RunOne

LEMMA TypeStep == IInv /\ [Next]_vars => TypeOK'
<1> SUFFICES ASSUME IInv, [Next]_vars PROVE ServerTypes' /\ NetworkTypes'
  BY TypeParts DEF TypeOK, ServerTypes, NetworkTypes, Operations, Entries
<1>1. CASE UNCHANGED vars
  BY <1>1, TypeParts DEF IInv, vars, ServerTypes, NetworkTypes
<1> QED
  BY <1>1, ClientTypes, OperationTypes, HandlerTypes DEF Next
-----------------------------------------------------------------------------
(* Sockets.  Only a client nobody is connected to joins the backlog.       *)
LEMMA ClientSockets ==
    ASSUME IInv, NEW c \in Clients,
           Connect(c) \/ Send(c) \/ GetEcho(c) \/ Shutdown(c) \/ Reset(c)
    PROVE  SocketInv'
<1>1. /\ UNCHANGED <<live, socket, pending, ready>>
      /\ \A d \in Clients : client[d] # "idle" => client'[d] # "idle"
  BY DEF Connect, Send, GetEcho, Shutdown, Reset, server, IInv, TypeOK
<1>2. /\ socket \in [Sessions -> Clients \cup {NoClient}] /\ backlog \in Seq(Clients)
      /\ client \in [Clients -> {"idle", "connected", "shut", "reset"}]
  BY DEF IInv, TypeOK
<1>3. /\ \A s \in Sessions : s \notin live' => socket'[s] = NoClient
      /\ \A op \in pending' : op.kind = "accept" <=> socket'[op.session] = NoClient
      /\ \A i \in DOMAIN ready' :
            ready'[i].kind = "accept" /\ ready'[i].failed <=>
                socket'[ready'[i].session] = NoClient
      /\ \A s, u \in Sessions : socket'[s] = socket'[u] => s = u \/ socket'[s] = NoClient
      /\ \A s \in Sessions : socket'[s] # NoClient => client'[socket'[s]] # "idle"
  BY <1>1, <1>2 DEF IInv, SocketInv
<1>4. CASE Connect(c)
  <2>1. /\ client[c] = "idle" /\ client'[c] = "connected" /\ backlog' = Append(backlog, c)
        /\ \A d \in Clients : d # c => client'[d] = client[d]
    BY <1>2, <1>4 DEF Connect
  <2>2. /\ DOMAIN backlog = 1 .. Len(backlog) /\ Len(backlog) \in Nat
        /\ DOMAIN backlog' = 1 .. Len(backlog) + 1
        /\ \A i \in 1 .. Len(backlog) : backlog'[i] = backlog[i]
        /\ backlog'[Len(backlog) + 1] = c
    BY <1>2, <2>1, AppendFacts
  <2>3. \A i \in DOMAIN backlog : backlog[i] # c /\ backlog[i] \in Clients
    BY <1>2, <2>1 DEF IInv, SocketInv
  <2>4. \A s \in Sessions : socket[s] # c
    BY <1>2, <2>1, ConstantTypes DEF IInv, SocketInv
  <2>5. \A i \in DOMAIN backlog' : i \in DOMAIN backlog \/ i = Len(backlog) + 1
    BY <2>2
  <2>6. \A i \in DOMAIN backlog' : client'[backlog'[i]] # "idle"
    BY <2>1, <2>2, <2>3, <2>5 DEF IInv, SocketInv
  <2>7. \A i \in DOMAIN backlog', s \in Sessions : socket'[s] # backlog'[i]
    BY <1>1, <2>2, <2>4, <2>5 DEF IInv, SocketInv
  <2>8. \A i, j \in DOMAIN backlog' : backlog'[i] = backlog'[j] => i = j
    BY <2>2, <2>3, <2>5 DEF IInv, SocketInv
  <2> QED
    BY <1>3, <2>6, <2>7, <2>8 DEF SocketInv
<1>5. CASE Send(c) \/ GetEcho(c) \/ Shutdown(c) \/ Reset(c)
  <2>1. backlog' = backlog /\ \A i \in DOMAIN backlog : backlog[i] \in Clients
    BY <1>2, <1>5 DEF Send, GetEcho, Shutdown, Reset
  <2> QED
    BY <1>1, <1>3, <2>1 DEF IInv, SocketInv
<1> QED
  BY <1>4, <1>5

(* An operation other than an accept that succeeds leaves sockets alone.   *)
LEMMA CompleteSockets ==
    ASSUME IInv, NEW op \in pending, NEW error \in BOOLEAN, NEW n \in 0 .. MaxLength,
           Complete(op, error, n), op.kind = "accept" <=> op.kind = "accept" /\ error,
           UNCHANGED <<live, socket, client, backlog>>
    PROVE  SocketInv'
<1>1. /\ pending' \subseteq pending
      /\ \A i \in DOMAIN ready' : \/ i \in DOMAIN ready /\ ready'[i] = ready[i]
                                  \/ ready'[i] = Handler(op, error, n)
  BY CompleteKeeps DEF IInv
<1>2. LET e == Handler(op, error, n)
      IN  e.kind = op.kind /\ e.session = op.session /\ e.failed = error
  BY DEF Handler
<1>3. (Handler(op, error, n).kind = "accept" /\ Handler(op, error, n).failed) <=>
          socket[Handler(op, error, n).session] = NoClient
  BY <1>2, Zenon DEF IInv, SocketInv
<1> HIDE DEF Handler
<1> QED
  BY <1>1, <1>3 DEF IInv, SocketInv

LEMMA OperationSockets ==
    ASSUME IInv, NEW op \in pending, Progress(op) \/ AcceptFails(op)
    PROVE  SocketInv'
<1> DEFINE s == op.session
<1>1. /\ s \in Sessions /\ s \in live /\ op.bytes \in 0 .. MaxLength /\ op.done \in 0 .. MaxLength
  BY OperationType
<1>2. 0 \in 0 .. MaxLength /\ \A n \in 1 .. MaxLength : n \in 0 .. MaxLength
  BY ConstantTypes
<1>3. CASE Accepted(op)
  <2>1. /\ op.kind = "accept" /\ backlog # <<>> /\ Complete(op, FALSE, 0)
        /\ socket' = [socket EXCEPT ![s] = Head(backlog)] /\ backlog' = Tail(backlog)
        /\ UNCHANGED <<live, client>>
    BY <1>3 DEF Accepted
  <2>2. /\ backlog \in Seq(Clients) /\ socket \in [Sessions -> Clients \cup {NoClient}]
    BY DEF IInv, TypeOK
  <2>3. /\ 1 \in DOMAIN backlog /\ Head(backlog) = backlog[1] /\ Head(backlog) \in Clients
        /\ \A i \in DOMAIN backlog' : /\ i + 1 \in DOMAIN backlog /\ i + 1 # 1
                                      /\ backlog'[i] = backlog[i + 1]
        /\ \A i, j \in DOMAIN backlog' : i + 1 = j + 1 => i = j
    BY <2>1, <2>2, TailEntries
  <2>4. /\ socket'[s] = Head(backlog) /\ Head(backlog) # NoClient
        /\ \A u \in Sessions : u # s => socket'[u] = socket[u]
    BY <1>1, <2>1, <2>2, <2>3, ConstantTypes
  <2>5. /\ pending' = pending \ {op}
        /\ \A i \in DOMAIN ready' : \/ i \in DOMAIN ready /\ ready'[i] = ready[i]
                                    \/ ready'[i] = Handler(op, FALSE, 0)
    BY <1>2, <2>1, CompleteKeeps DEF IInv, Complete
  <2>6. \A u \in Sessions : u \notin live' => socket'[u] = NoClient
    BY <1>1, <2>1, <2>4 DEF IInv, SocketInv
  <2>7. \A o \in pending' : o.kind = "accept" <=> socket'[o.session] = NoClient
    <3>1. \A o \in pending' : o.session # s /\ o.session \in Sessions
      BY <2>5, OperationType DEF IInv, HandlerInv
    <3> QED
      BY <2>4, <2>5, <3>1 DEF IInv, SocketInv
  <2>8. \A i \in DOMAIN ready' :
           ready'[i].kind = "accept" /\ ready'[i].failed <=>
               socket'[ready'[i].session] = NoClient
    <3>1. \A i \in DOMAIN ready : ready[i].session # s /\ ready[i].session \in Sessions
      BY DEF IInv, HandlerInv, TypeOK
    <3>2. /\ Handler(op, FALSE, 0).failed = FALSE
          /\ Handler(op, FALSE, 0).session = s
      BY DEF Handler
    <3>3. ASSUME NEW i \in DOMAIN ready, ready'[i] = ready[i]
          PROVE  ready'[i].kind = "accept" /\ ready'[i].failed <=>
                     socket'[ready'[i].session] = NoClient
      <4>1. socket'[ready[i].session] = socket[ready[i].session]
        BY <2>4, <3>1
      <4>2. ready[i].kind = "accept" /\ ready[i].failed <=>
                socket[ready[i].session] = NoClient
        BY DEF IInv, SocketInv
      <4> QED
        BY <3>3, <4>1, <4>2, Zenon
    <3>4. ASSUME NEW i \in DOMAIN ready', ready'[i] = Handler(op, FALSE, 0)
          PROVE  ready'[i].kind = "accept" /\ ready'[i].failed <=>
                     socket'[ready'[i].session] = NoClient
      <4>1. ~ready'[i].failed /\ ready'[i].session = s
        BY <3>2, <3>4, Zenon
      <4>2. socket'[s] # NoClient
        BY <2>4
      <4> QED
        BY <4>1, <4>2, Zenon
    <3> QED
      BY <2>5, <3>3, <3>4
  <2>9. \A v, u \in Sessions : socket'[v] = socket'[u] => v = u \/ socket'[v] = NoClient
    BY <2>3, <2>4 DEF IInv, SocketInv
  <2>10. \A u \in Sessions : socket'[u] # NoClient => client'[socket'[u]] # "idle"
    BY <2>1, <2>3, <2>4 DEF IInv, SocketInv
  <2>11. /\ \A i \in DOMAIN backlog' : client'[backlog'[i]] # "idle"
         /\ \A i \in DOMAIN backlog', u \in Sessions : socket'[u] # backlog'[i]
         /\ \A i, j \in DOMAIN backlog' : backlog'[i] = backlog'[j] => i = j
    BY <2>1, <2>3, <2>4 DEF IInv, SocketInv
  <2> QED
    BY <2>6, <2>7, <2>8, <2>9, <2>10, <2>11 DEF SocketInv
<1>4. CASE AcceptFails(op)
  <2>1. Complete(op, TRUE, 0) /\ UNCHANGED <<live, socket, client, backlog>>
    BY <1>4 DEF AcceptFails
  <2> QED
    BY <1>2, <2>1, CompleteSockets
<1>5. CASE Receive(op)
  <2>1. /\ op.kind = "read" /\ UNCHANGED <<live, socket, client, backlog>>
        /\ \E n \in 0 .. MaxLength : Complete(op, FALSE, n)
    BY <1>2, <1>5, Zenon DEF Receive
  <2> QED
    BY <2>1, CompleteSockets
<1>6. CASE ReceiveFails(op) \/ WriteFails(op)
  <2>1. /\ op.kind # "accept" /\ UNCHANGED <<live, socket, client, backlog>>
        /\ \E n \in 0 .. MaxLength : Complete(op, TRUE, n)
    BY <1>1, <1>2, <1>6, Zenon DEF ReceiveFails, WriteFails, network
  <2>2. PICK n \in 0 .. MaxLength : Complete(op, TRUE, n)
    BY <2>1
  <2>3. op.kind = "accept" <=> op.kind = "accept" /\ TRUE
    OBVIOUS
  <2> QED
    BY <2>1, <2>2, <2>3, CompleteSockets
<1>7. CASE WriteSome(op)
  <2>1. /\ op.kind = "write" /\ UNCHANGED <<live, socket, client, backlog>>
        /\ \E n \in 1 .. op.bytes - op.done :
              IF op.done + n = op.bytes
              THEN Complete(op, FALSE, op.bytes)
              ELSE /\ pending' = (pending \ {op}) \cup {[op EXCEPT !.done = @ + n]}
                   /\ UNCHANGED ready
    BY <1>7 DEF WriteSome
  <2>2. CASE Complete(op, FALSE, op.bytes)
    BY <1>1, <2>1, <2>2, CompleteSockets
  <2>3. ASSUME NEW n, pending' = (pending \ {op}) \cup {[op EXCEPT !.done = @ + n]},
               UNCHANGED ready
        PROVE  SocketInv'
    <3> DEFINE rest == [op EXCEPT !.done = @ + n]
    <3>1. rest.session = op.session /\ rest.kind = op.kind
      BY OperationType DEF Operations
    <3>2. pending' = (pending \ {op}) \cup {rest}
      BY <2>3
    <3> HIDE DEF rest
    <3> QED
      BY <2>1, <2>3, <3>1, <3>2 DEF IInv, SocketInv
  <2> QED
    BY <2>1, <2>2, <2>3
<1> QED
  BY <1>3, <1>4, <1>5, <1>6, <1>7 DEF Progress

(* The handler of a session that is deleted closes its socket.             *)
LEMMA HandlerSockets ==
    ASSUME IInv, RunOne
    PROVE  SocketInv'
<1> DEFINE u == Head(ready).session
<1>1. ready # <<>> /\ UNCHANGED <<client, backlog>>
  BY DEF RunOne, HandleAccept, HandleAcceptFailed, HandleRead, HandleReadFailed,
         HandleWrite, HandleWriteFailed, Called, network
<1>2. /\ u \in Sessions /\ u \in live
      /\ socket[u] = NoClient <=> Head(ready).kind = "accept" /\ Head(ready).failed
  BY <1>1, EntryType
<1>3. socket \in [Sessions -> Clients \cup {NoClient}] /\ ready \in Seq(Entries)
  BY DEF IInv, TypeOK, Entries
<1>4. /\ 1 \in DOMAIN ready /\ Head(ready) = ready[1]
      /\ \A i \in DOMAIN Tail(ready) : /\ i + 1 \in DOMAIN ready /\ i + 1 # 1
                                       /\ Tail(ready)[i] = ready[i + 1]
  BY <1>1, <1>3, TailEntries
<1>5. /\ \A op \in pending : op.session # u /\ op.session \in Sessions
      /\ \A i \in DOMAIN Tail(ready) : Tail(ready)[i].session # u
      /\ \A i \in DOMAIN Tail(ready) : Tail(ready)[i].session \in Sessions
  BY <1>3, <1>4 DEF IInv, HandlerInv, TypeOK
<1>6. \A i \in DOMAIN Tail(ready) :
         Tail(ready)[i].kind = "accept" /\ Tail(ready)[i].failed <=>
             socket[Tail(ready)[i].session] = NoClient
  BY <1>4 DEF IInv, SocketInv
<1>7. /\ \A s, v \in Sessions : socket[s] = socket[v] => s = v \/ socket[s] = NoClient
      /\ \A s \in Sessions : socket[s] # NoClient => client[socket[s]] # "idle"
      /\ \A i \in DOMAIN backlog : client[backlog[i]] # "idle"
      /\ \A i \in DOMAIN backlog, s \in Sessions : socket[s] # backlog[i]
      /\ \A i, j \in DOMAIN backlog : backlog[i] = backlog[j] => i = j
      /\ \A i \in DOMAIN backlog : backlog[i] \in Clients
      /\ \A s \in Sessions : s \notin live => socket[s] = NoClient
      /\ \A op \in pending : op.kind = "accept" <=> socket[op.session] = NoClient
  BY DEF IInv, SocketInv, TypeOK
<1>8. CASE HandleAccept
  <2>1. PICK s \in Sessions \ live :
           /\ live' = live \cup {s} /\ pending' = pending \cup {Read(u), Accept(s)}
           /\ ready' = Tail(ready) /\ socket' = socket
    BY <1>8 DEF HandleAccept, StartAccept
  <2>2. socket[u] # NoClient /\ socket[s] = NoClient
    BY <1>2, <1>7, <1>8, <2>1 DEF HandleAccept, Called
  <2>3. \A op \in pending' : op.kind = "accept" <=> socket'[op.session] = NoClient
    BY <1>7, <2>1, <2>2 DEF Read, Accept
  <2> QED
    BY <1>1, <1>6, <1>7, <2>1, <2>3 DEF SocketInv
<1>9. CASE HandleRead \/ HandleWrite
  <2>1. PICK op \in {Write(u, Head(ready).bytes), Read(u)} :
           /\ pending' = pending \cup {op} /\ ready' = Tail(ready)
           /\ live' = live /\ socket' = socket
    BY <1>9 DEF HandleRead, HandleWrite, Start
  <2>2. op.session = u /\ op.kind # "accept" /\ socket[u] # NoClient
    BY <1>2, <1>9, <2>1 DEF HandleRead, HandleWrite, Called, Write, Read
  <2>3. \A o \in pending' : o.kind = "accept" <=> socket'[o.session] = NoClient
    BY <1>7, <2>1, <2>2
  <2> QED
    BY <1>1, <1>6, <1>7, <2>1, <2>3 DEF SocketInv
<1> DEFINE Closing(started) ==
       /\ ready' = Tail(ready) /\ socket' = [socket EXCEPT ![u] = NoClient]
       /\ pending' = pending \cup started
       /\ \A s \in Sessions : s \notin live' => s \notin live \/ s = u
       /\ \A op \in started : op.kind = "accept" /\ op.session \in Sessions
                              /\ op.session \notin live \ {u}
<1>10. ASSUME NEW started, Closing(started) PROVE SocketInv'
  <2>1. socket'[u] = NoClient /\ \A s \in Sessions : s # u => socket'[s] = socket[s]
    BY <1>2, <1>3, <1>10
  <2>2. \A s \in Sessions : s \notin live' => socket'[s] = NoClient
    BY <1>7, <1>10, <2>1
  <2>3. \A op \in pending' : op.kind = "accept" <=> socket'[op.session] = NoClient
    BY <1>5, <1>7, <1>10, <2>1
  <2>4. \A i \in DOMAIN ready' :
           ready'[i].kind = "accept" /\ ready'[i].failed <=>
               socket'[ready'[i].session] = NoClient
    BY <1>5, <1>6, <1>10, <2>1
  <2>5. /\ \A s, v \in Sessions : socket'[s] = socket'[v] => s = v \/ socket'[s] = NoClient
        /\ \A s \in Sessions : socket'[s] # NoClient => client'[socket'[s]] # "idle"
    BY <1>1, <1>7, <2>1
  <2>6. /\ \A i \in DOMAIN backlog' : client'[backlog'[i]] # "idle"
        /\ \A i \in DOMAIN backlog', s \in Sessions : socket'[s] # backlog'[i]
        /\ \A i, j \in DOMAIN backlog' : backlog'[i] = backlog'[j] => i = j
    BY <1>1, <1>7, <2>1, ConstantTypes
  <2> QED
    BY <2>2, <2>3, <2>4, <2>5, <2>6 DEF SocketInv
<1>11. CASE HandleAcceptFailed
  <2>1. PICK s \in Sessions \ (live \ {u}) :
           /\ ready' = Tail(ready) /\ live' = (live \ {u}) \cup {s}
           /\ pending' = pending \cup {Accept(s)}
    BY <1>11, HandleAcceptFailedKeeps DEF IInv
  <2>2. socket' = [socket EXCEPT ![u] = NoClient]
    BY <1>11 DEF HandleAcceptFailed, Closed
  <2>3. Closing({Accept(s)})
    BY <2>1, <2>2 DEF Accept
  <2> HIDE DEF Closing
  <2> QED
    BY <1>10, <2>3
<1>12. CASE HandleReadFailed \/ HandleWriteFailed
  <2>1. Head(ready).kind # "accept" /\ Delete(u)
    BY <1>12 DEF HandleReadFailed, HandleWriteFailed, Called
  <2>2. pending' = pending /\ ready' = Tail(ready)
    BY <1>1, <2>1, DeleteKeeps DEF IInv
  <2>3. Closing({})
    BY <2>1, <2>2 DEF Delete, Closed
  <2> HIDE DEF Closing
  <2> QED
    BY <1>10, <2>3
<1> QED
  BY <1>8, <1>9, <1>11, <1>12 DEF RunOne

LEMMA SocketStep == IInv /\ [Next]_vars => SocketInv'
<1> SUFFICES ASSUME IInv, [Next]_vars PROVE SocketInv'
  OBVIOUS
<1>1. CASE UNCHANGED vars
  BY <1>1 DEF IInv, vars, SocketInv
<1> QED
  BY <1>1, ClientSockets, OperationSockets, HandlerSockets DEF Next

-----------------------------------------------------------------------------
(* The invariant holds in every state: one operation or handler for each   *)
(* live session, one accept, and sockets of their own.                     *)
THEOREM Inductive == Spec => []IInv
<1>1. IInv /\ [Next]_vars => IInv'
  BY TypeStep, HandlerStep, SocketStep DEF IInv
<1> QED
  BY InitIInv, <1>1, PTL DEF Spec

(* Every variable holds a value of its type: no read fills more than the   *)
(* buffer, no write sends more than it holds.                              *)
THEOREM TypeCorrect == Spec => []TypeOK
<1>1. IInv => TypeOK
  BY DEF IInv
<1> QED
  BY Inductive, <1>1, PTL

(* At most one element, by what the elements have in common.               *)
LEMMA AtMostOne ==
    ASSUME NEW S, \A x, y \in S : x = y
    PROVE  Cardinality(S) = IF S = {} THEN 0 ELSE 1
<1>1. CASE S = {}
  BY <1>1, FS_EmptySet
<1>2. CASE S # {}
  <2>1. PICK x \in S : TRUE
    BY <1>2
  <2>2. S = {x}
    BY <2>1
  <2> QED
    BY <1>2, <2>2, FS_Singleton
<1> QED
  BY <1>1, <1>2

(* No handler is called on a deleted session, none is forgotten, and no    *)
(* two operations share a buffer: delete this and the chain of handlers    *)
(* keep exactly one operation or handler for every session.                *)
THEOREM HandlersPaired == Spec => []OneHandler
<1>1. ASSUME IInv PROVE OneHandler
  <2> SUFFICES ASSUME NEW s \in Sessions
               PROVE  Cardinality(Of(s)) + Cardinality(InReady(s)) = IF s \in live THEN 1 ELSE 0
    BY DEF OneHandler
  <2>1. /\ \A x, y \in Of(s) : x = y
        /\ \A i, j \in InReady(s) : i = j
        /\ Of(s) = {} \/ InReady(s) = {}
        /\ (Of(s) # {} \/ InReady(s) # {}) <=> s \in live
    BY <1>1 DEF IInv, HandlerInv, Of, InReady
  <2>2. /\ Cardinality(Of(s)) = IF Of(s) = {} THEN 0 ELSE 1
        /\ Cardinality(InReady(s)) = IF InReady(s) = {} THEN 0 ELSE 1
    BY <2>1, AtMostOne
  <2> QED
    BY <2>1, <2>2
<1> QED
  BY Inductive, <1>1, PTL

(* start_accept after every accept, failed or not: one is always waiting,  *)
(* and a connection belongs to one session.                                *)
THEOREM ServerAccepts == Spec => []AlwaysAccepting
<1>1. ASSUME IInv PROVE AlwaysAccepting
  <2> DEFINE A == {op \in pending : op.kind = "accept"}
             B == {i \in DOMAIN ready : ready[i].kind = "accept"}
  <2>1. /\ \A x, y \in A : x = y
        /\ \A i, j \in B : i = j
        /\ A # {} \/ B # {}
        /\ A = {} \/ B = {}
    BY <1>1 DEF IInv, AcceptInv
  <2>2. /\ Cardinality(A) = IF A = {} THEN 0 ELSE 1
        /\ Cardinality(B) = IF B = {} THEN 0 ELSE 1
    BY <2>1, AtMostOne
  <2>3. Cardinality(A) + Cardinality(B) = 1
    BY <2>1, <2>2
  <2>4. \A s, u \in live : socket[s] = socket[u] => s = u \/ socket[s] = NoClient
    BY <1>1 DEF IInv, TypeOK, SocketInv
  <2> QED
    BY <2>3, <2>4 DEF AlwaysAccepting
<1> QED
  BY Inductive, <1>1, PTL
-----------------------------------------------------------------------------
(* The bytes.  Taken are those the server read from c, Returned those it   *)
(* wrote to c; what lies between them is in the buffer of c's session.     *)
Taken(c) == sent[c] - Len(toServer[c])
Returned(c) == Len(received[c]) + Len(toClient[c])

(* The session s still has n bytes to write, at data[s][from + 1] and on.  *)
Holds(s, from, n) ==
    LET c == socket[s]
    IN  client[c] # "reset" =>
            /\ Taken(c) = Returned(c) + n
            /\ \A i \in 1 .. n : data[s][from + i] = Returned(c) + i

OperationHolds(op) ==
    /\ op.kind = "read" => Holds(op.session, 0, 0)
    /\ op.kind = "write" => /\ op.done <= op.bytes
                            /\ Holds(op.session, op.done, op.bytes - op.done)

EntryHolds(e) ==
    ~e.failed => Holds(e.session, 0, IF e.kind = "read" THEN e.bytes ELSE 0)

SessionBytes == /\ \A op \in pending : OperationHolds(op)
                /\ \A e \in ToSet(ready) : EntryHolds(e)

(* What is on its way continues what was received, or taken, before.       *)
ClientBytes(c) ==
    /\ client[c] = "reset" => toClient[c] = <<>>
    /\ client[c] # "reset" =>
          /\ \A i \in DOMAIN toClient[c] : toClient[c][i] = Len(received[c]) + i
          /\ \A i \in DOMAIN toServer[c] : toServer[c][i] = Taken(c) + i
          /\ Returned(c) <= Taken(c)
    /\ client[c] = "idle" => Taken(c) = Returned(c)

BacklogBytes ==
    \A c \in ToSet(backlog) : client[c] # "reset" => Taken(c) = Returned(c)

ByteInv == SessionBytes /\ BacklogBytes /\ \A c \in Clients : ClientBytes(c)

LEMMA InitByteInv == Init => ByteInv
<1> SUFFICES ASSUME Init PROVE ByteInv
  OBVIOUS
<1>1. PICK s \in Sessions : pending = {Accept(s)}
  BY DEF Init
<1>2. SessionBytes
  BY <1>1 DEF Init, SessionBytes, OperationHolds, Accept, ToSet
<1>3. BacklogBytes
  BY DEF Init, BacklogBytes, ToSet
<1>4. \A c \in Clients : ClientBytes(c)
  BY DEF Init, ClientBytes, Taken, Returned
<1> QED
  BY <1>2, <1>3, <1>4 DEF ByteInv

(* Nothing is read from c or written to it, or c is reset.                 *)
Keeps(c) ==
    \/ client'[c] = "reset"
    \/ client[c] # "reset" /\ Taken(c)' = Taken(c) /\ Returned(c)' = Returned(c)

LEMMA HoldsKept ==
    ASSUME NEW s \in Sessions, NEW from, NEW n, NEW c,
           socket[s] = c, socket'[s] = c, data'[s] = data[s], Keeps(c), Holds(s, from, n)
    PROVE  Holds(s, from, n)'
<1>1. CASE client'[c] = "reset"
  BY <1>1 DEF Holds
<1>2. CASE client[c] # "reset" /\ Taken(c)' = Taken(c) /\ Returned(c)' = Returned(c)
  <2>1. Taken(c) = Returned(c) + n /\ \A i \in 1 .. n : data[s][from + i] = Returned(c) + i
    BY <1>2 DEF Holds
  <2> QED
    BY <1>2, <2>1 DEF Holds, Taken, Returned
<1> QED
  BY <1>1, <1>2 DEF Keeps

(* A step keeps what it says of the sessions it leaves alone; those in X   *)
(* are its own business.                                                   *)
LEMMA SessionBytesKept ==
    ASSUME IInv, ByteInv, NEW X,
           \A s \in Sessions, c \in Clients :
              s \notin X /\ socket[s] = c =>
                  socket'[s] = c /\ data'[s] = data[s] /\ Keeps(c),
           \A op \in pending' :
              (op \in pending /\ op.session \notin X) \/ OperationHolds(op)',
           \A e \in ToSet(ready') :
              (e \in ToSet(ready) /\ e.session \notin X) \/ EntryHolds(e)'
    PROVE  SessionBytes'
<1>1. ASSUME NEW op \in pending, op.session \notin X PROVE OperationHolds(op)'
  <2>1. op.session \in Sessions /\ (op.kind # "accept" => socket[op.session] \in Clients)
    BY OperationType
  <2>2. OperationHolds(op)
    BY DEF ByteInv, SessionBytes
  <2>3. ASSUME op.kind # "accept"
        PROVE  \A from, n : Holds(op.session, from, n) => Holds(op.session, from, n)'
    <3> DEFINE c == socket[op.session]
    <3>1. socket'[op.session] = c /\ data'[op.session] = data[op.session]
      BY <1>1, <2>1, <2>3
    <3>2. PICK d \in Clients : d = c
      BY <2>1, <2>3
    <3>3. Keeps(d)
      BY <1>1, <2>1, <3>2
    <3> QED
      BY <2>1, <3>1, <3>2, <3>3, HoldsKept
  <2> QED
    BY <2>2, <2>3 DEF OperationHolds
<1>2. ASSUME NEW e \in ToSet(ready), e.session \notin X PROVE EntryHolds(e)'
  <2>1. PICK i \in DOMAIN ready : e = ready[i]
    BY DEF ToSet
  <2>2. e.session \in Sessions
    <3>1. ready \in Seq(Entries)
      BY DEF IInv, TypeOK, Entries
    <3>2. e \in Entries
      BY <2>1, <3>1
    <3> QED
      BY <3>2 DEF Entries
  <2>3. EntryHolds(e)
    BY DEF ByteInv, SessionBytes
  <2>4. ASSUME ~e.failed
        PROVE  \A from, n : Holds(e.session, from, n) => Holds(e.session, from, n)'
    <3> DEFINE c == socket[e.session]
    <3>1. c # NoClient
      BY <2>1, <2>4, Zenon DEF IInv, SocketInv
    <3>2. c \in Clients
      BY <2>2, <3>1 DEF IInv, TypeOK
    <3>3. socket'[e.session] = c /\ data'[e.session] = data[e.session]
      BY <1>2, <2>2, <3>2
    <3>4. PICK d \in Clients : d = c
      BY <3>2
    <3>5. Keeps(d)
      BY <1>2, <2>2, <3>4
    <3> QED
      BY <2>2, <3>3, <3>4, <3>5, HoldsKept
  <2> QED
    BY <2>3, <2>4, Zenon DEF EntryHolds
<1> QED
  BY <1>1, <1>2 DEF SessionBytes

(* What a step that leaves c's connection alone keeps of it.               *)
SameBytes(c) ==
    /\ client'[c] = client[c] /\ sent'[c] = sent[c] /\ received'[c] = received[c]
    /\ toServer'[c] = toServer[c] /\ toClient'[c] = toClient[c]

LEMMA SameBytesKept ==
    ASSUME NEW c \in Clients, ClientBytes(c), SameBytes(c)
    PROVE  ClientBytes(c)' /\ Keeps(c)
  BY DEF SameBytes, ClientBytes, Keeps, Taken, Returned

LEMMA Counting ==
    ASSUME NEW a \in Nat, NEW b \in Nat
    PROVE  /\ (a + 1) - (b + 1) = a - b
           /\ (a + 1) + (b - 1) = a + b
           /\ a + (b + 1) = (a + 1) + b
           /\ a + b \in Nat /\ a - b \in Int
  OBVIOUS

LEMMA ClientStepBytes ==
    ASSUME IInv, ByteInv, NEW c \in Clients,
           Connect(c) \/ Send(c) \/ GetEcho(c) \/ Shutdown(c) \/ Reset(c)
    PROVE  ByteInv'
<1>1. UNCHANGED <<live, socket, data, pending, ready>>
  BY DEF Connect, Send, GetEcho, Shutdown, Reset, server
<1>2. NetworkTypes
  BY TypeParts DEF IInv
<1>3. \A d \in Clients : d # c => SameBytes(d)
  BY <1>2 DEF Connect, Send, GetEcho, Shutdown, Reset, NetworkTypes, SameBytes
<1>4. \A d \in Clients : ClientBytes(d)
  BY DEF ByteInv
<1>5. ClientBytes(c)' /\ Keeps(c)
  <2>1. CASE Connect(c) \/ Shutdown(c)
    BY <1>2, <1>4, <2>1 DEF Connect, Shutdown, NetworkTypes, ClientBytes, Keeps, Taken, Returned
  <2>2. CASE Send(c)
    <3>1. /\ client[c] = "connected" /\ UNCHANGED <<client, toClient, received>>
          /\ sent'[c] = sent[c] + 1 /\ toServer'[c] = Append(toServer[c], sent[c] + 1)
          /\ sent[c] \in Nat /\ toServer[c] \in Seq(Nat)
          /\ toClient[c] \in Seq(Nat) /\ received[c] \in Seq(Nat)
      BY <1>2, <2>2 DEF Send, NetworkTypes
    <3>2. /\ DOMAIN toServer[c] = 1 .. Len(toServer[c]) /\ Len(toServer[c]) \in Nat
          /\ DOMAIN toServer'[c] = 1 .. Len(toServer[c]) + 1
          /\ Len(toServer'[c]) = Len(toServer[c]) + 1
          /\ \A i \in 1 .. Len(toServer[c]) : toServer'[c][i] = toServer[c][i]
          /\ toServer'[c][Len(toServer[c]) + 1] = sent[c] + 1
      BY <3>1, AppendFacts
    <3>3. Taken(c)' = Taken(c) /\ Returned(c)' = Returned(c)
      <4>1. (sent[c] + 1) - (Len(toServer[c]) + 1) = sent[c] - Len(toServer[c])
        BY <3>1, <3>2, Counting, Zenon
      <4>2. Taken(c)' = (sent[c] + 1) - (Len(toServer[c]) + 1)
        BY <3>1, <3>2, Zenon DEF Taken
      <4>3. Returned(c)' = Returned(c)
        BY <3>1, Zenon DEF Returned
      <4> QED
        BY <4>1, <4>2, <4>3, Zenon DEF Taken
    <3>4. \A i \in DOMAIN toServer'[c] : toServer'[c][i] = Taken(c) + i
      <4>1. \A i \in 1 .. Len(toServer[c]) : toServer'[c][i] = Taken(c) + i
        BY <1>4, <3>1, <3>2 DEF ClientBytes
      <4>2. Taken(c) + (Len(toServer[c]) + 1) = sent[c] + 1
        BY <3>1, <3>2 DEF Taken
      <4> QED
        BY <3>2, <4>1, <4>2
    <3>5. /\ \A i \in DOMAIN toClient[c] : toClient[c][i] = Len(received[c]) + i
          /\ Returned(c) <= Taken(c)
      BY <1>4, <3>1 DEF ClientBytes
    <3> QED
      BY <3>1, <3>3, <3>4, <3>5 DEF ClientBytes, Keeps
  <2>3. CASE GetEcho(c)
    <3>1. /\ toClient[c] # <<>> /\ UNCHANGED <<client, sent, toServer>>
          /\ received'[c] = Append(received[c], Head(toClient[c]))
          /\ toClient'[c] = Tail(toClient[c])
          /\ sent[c] \in Nat /\ toServer[c] \in Seq(Nat)
          /\ toClient[c] \in Seq(Nat) /\ received[c] \in Seq(Nat)
      BY <1>2, <2>3 DEF GetEcho, NetworkTypes
    <3>2. /\ Len(received'[c]) = Len(received[c]) + 1
          /\ Len(toClient'[c]) = Len(toClient[c]) - 1
          /\ Len(toClient[c]) \in Nat /\ Len(received[c]) \in Nat
      BY <3>1
    <3>3. Taken(c)' = Taken(c) /\ Returned(c)' = Returned(c)
      <4>1. (Len(received[c]) + 1) + (Len(toClient[c]) - 1) = Len(received[c]) + Len(toClient[c])
        BY <3>2, Counting, Zenon
      <4>2. Returned(c)' = (Len(received[c]) + 1) + (Len(toClient[c]) - 1)
        BY <3>2, Zenon DEF Returned
      <4>3. Taken(c)' = Taken(c)
        BY <3>1, Zenon DEF Taken
      <4> QED
        BY <4>1, <4>2, <4>3, Zenon DEF Returned
    <3>4. \A i \in DOMAIN toClient'[c] : toClient'[c][i] = toClient[c][i + 1]
                                         /\ i + 1 \in DOMAIN toClient[c]
                                         /\ i \in Nat
      BY <3>1, TailFacts
    <3>5. client[c] # "reset" /\ ClientBytes(c)
      BY <1>4, <3>1 DEF ClientBytes
    <3>6. \A i \in DOMAIN toClient'[c] : toClient'[c][i] = Len(received'[c]) + i
      <4>1. ASSUME NEW i \in DOMAIN toClient'[c]
            PROVE  toClient'[c][i] = Len(received[c]) + (i + 1) /\ i \in Nat
        BY <3>4, <3>5 DEF ClientBytes
      <4>2. \A i \in Nat : Len(received[c]) + (i + 1) = (Len(received[c]) + 1) + i
        BY <3>2, Counting, Zenon
      <4> QED
        BY <3>2, <4>1, <4>2, Zenon
    <3>7. /\ client'[c] = client[c] /\ toServer'[c] = toServer[c]
          /\ \A i \in DOMAIN toServer[c] : toServer[c][i] = Taken(c) + i
          /\ Returned(c) <= Taken(c)
          /\ client[c] = "idle" => Taken(c) = Returned(c)
      BY <3>1, <3>5 DEF ClientBytes
    <3> QED
      BY <3>3, <3>5, <3>6, <3>7 DEF ClientBytes, Keeps
  <2>4. CASE Reset(c)
    BY <1>2, <2>4 DEF Reset, NetworkTypes, ClientBytes, Keeps
  <2> QED
    BY <2>1, <2>2, <2>3, <2>4
<1>6. \A d \in Clients : ClientBytes(d)' /\ Keeps(d)
  BY <1>3, <1>4, <1>5, SameBytesKept
<1>7. SessionBytes'
  <2> DEFINE X == {}
  <2>1. /\ \A s \in Sessions, d \in Clients : s \notin X /\ socket[s] = d =>
              socket'[s] = d /\ data'[s] = data[s] /\ Keeps(d)
        /\ \A op \in pending' : op \in pending /\ op.session \notin X
        /\ \A e \in ToSet(ready') : e \in ToSet(ready) /\ e.session \notin X
    BY <1>1, <1>6 DEF ToSet
  <2> HIDE DEF X
  <2> QED
    BY <2>1, SessionBytesKept
<1>8. BacklogBytes'
  <2>1. \A d \in ToSet(backlog') : d \in Clients /\ (d \in ToSet(backlog) \/ (d = c /\ Connect(c)))
    <3>1. CASE Connect(c)
      <4>1. backlog' = Append(backlog, c) /\ backlog \in Seq(Clients)
        BY <1>2, <3>1 DEF Connect, NetworkTypes
      <4> QED
        BY <3>1, <4>1, AppendFacts DEF ToSet
    <3>2. CASE ~Connect(c)
      BY <1>2, <3>2 DEF Send, GetEcho, Shutdown, Reset, NetworkTypes, ToSet
    <3> QED
      BY <3>1, <3>2
  <2>2. ASSUME NEW d \in Clients, client'[d] # "reset", client[d] # "reset" => Taken(d) = Returned(d)
        PROVE  Taken(d)' = Returned(d)'
    BY <1>6, <2>2 DEF Keeps
  <2>3. Connect(c) => Taken(c) = Returned(c)
    BY <1>4 DEF Connect, ClientBytes
  <2> QED
    BY <2>1, <2>2, <2>3 DEF ByteInv, BacklogBytes
<1> QED
  BY <1>6, <1>7, <1>8 DEF ByteInv

(* An operation completes: its handler takes over what it held.            *)
LEMMA CompleteBytes ==
    ASSUME IInv, ByteInv, NEW op \in pending, NEW error \in BOOLEAN,
           NEW n \in 0 .. MaxLength, Complete(op, error, n), live' = live,
           error \/ Holds(op.session, 0, IF op.kind = "read" THEN n ELSE 0)',
           \A s \in Sessions, c \in Clients :
              s # op.session /\ socket[s] = c =>
                  socket'[s] = c /\ data'[s] = data[s] /\ Keeps(c)
    PROVE  SessionBytes'
<1> DEFINE X == {op.session}
           e == Handler(op, error, n)
<1>1. \A o \in pending' : o \in pending /\ o.session \notin X
  BY DEF IInv, HandlerInv, Complete
<1>2. \A f \in ToSet(ready') : (f \in ToSet(ready) /\ f.session \notin X) \/ f = e
  <2>1. \A i \in DOMAIN ready' : \/ i \in DOMAIN ready /\ ready'[i] = ready[i]
                                 \/ ready'[i] = e
    BY CompleteKeeps DEF IInv
  <2>2. \A i \in DOMAIN ready : ready[i].session # op.session
    BY DEF IInv, HandlerInv
  <2> QED
    BY <2>1, <2>2 DEF ToSet
<1>3. e.failed = error /\ e.session = op.session /\ e.kind = op.kind /\ e.bytes = n
  BY DEF Handler
<1>4. EntryHolds(e)'
  BY <1>3, Zenon DEF EntryHolds
<1>5. \A s \in Sessions, c \in Clients :
         s \notin X /\ socket[s] = c =>
             socket'[s] = c /\ data'[s] = data[s] /\ Keeps(c)
  OBVIOUS
<1>6. \A f \in ToSet(ready') : (f \in ToSet(ready) /\ f.session \notin X) \/ EntryHolds(f)'
  BY <1>2, <1>4
<1> HIDE DEF X, e
<1> QED
  BY <1>1, <1>5, <1>6, SessionBytesKept

(* A step that changes none of what is counted.                            *)
LEMMA CountsKept ==
    ASSUME ByteInv, \A c \in Clients : SameBytes(c),
           backlog \in Seq(Clients), \A c \in ToSet(backlog') : c \in ToSet(backlog)
    PROVE  BacklogBytes' /\ \A c \in Clients : ClientBytes(c)' /\ Keeps(c)
<1>1. \A c \in Clients : ClientBytes(c)' /\ Keeps(c)
  BY SameBytesKept DEF ByteInv
<1>2. ASSUME NEW c \in ToSet(backlog) PROVE SameBytes(c)
  BY DEF ToSet
<1>3. BacklogBytes'
  BY <1>2 DEF ByteInv, BacklogBytes, SameBytes, Taken, Returned
<1> QED
  BY <1>1, <1>3

LEMMA AcceptedBytes ==
    ASSUME IInv, ByteInv, NEW op \in pending, Accepted(op)
    PROVE  ByteInv'
<1> DEFINE s == op.session
<1>c. PICK c : c = Head(backlog)
  OBVIOUS
<1>1. /\ op.kind = "accept" /\ backlog # <<>> /\ Complete(op, FALSE, 0)
      /\ socket' = [socket EXCEPT ![s] = c] /\ backlog' = Tail(backlog)
      /\ UNCHANGED <<live, data, client, sent, toServer, toClient, received>>
  BY <1>c DEF Accepted
<1>2. /\ backlog \in Seq(Clients) /\ socket \in [Sessions -> Clients \cup {NoClient}]
      /\ s \in Sessions
  BY OperationType DEF IInv, TypeOK
<1>3. /\ 1 \in DOMAIN backlog /\ c = backlog[1] /\ c \in Clients
      /\ \A i \in DOMAIN Tail(backlog) : i + 1 \in DOMAIN backlog /\ Tail(backlog)[i] = backlog[i + 1]
  BY <1>c, <1>1, <1>2, TailEntries
<1>4. c \in ToSet(backlog) /\ \A d \in ToSet(backlog') : d \in ToSet(backlog)
  BY <1>1, <1>3 DEF ToSet
<1>5. \A d \in Clients : SameBytes(d)
  BY <1>1 DEF SameBytes
<1>6. BacklogBytes' /\ \A d \in Clients : ClientBytes(d)' /\ Keeps(d)
  BY <1>2, <1>4, <1>5, CountsKept
<1>7. \A u \in Sessions, d \in Clients :
         u # s /\ socket[u] = d => socket'[u] = d /\ data'[u] = data[u] /\ Keeps(d)
  BY <1>1, <1>2, <1>6
<1>8. Holds(s, 0, 0)'
  <2>1. client[c] # "reset" => Taken(c) = Returned(c)
    BY <1>4 DEF ByteInv, BacklogBytes
  <2>2. Returned(c) + 0 = Returned(c)
    BY <1>3 DEF Returned, IInv, TypeOK
  <2>3. socket'[s] = c
    BY <1>1, <1>2
  <2>4. Taken(c)' = Taken(c) /\ Returned(c)' = Returned(c) /\ client'[c] = client[c]
    BY <1>1, Zenon DEF Taken, Returned
  <2>5. client'[c] # "reset" => /\ Taken(c)' = Returned(c)' + 0
                                /\ \A i \in 1 .. 0 : data'[s][0 + i] = Returned(c)' + i
    BY <2>1, <2>2, <2>4
  <2> QED
    BY <2>3, <2>5, Zenon DEF Holds
<1>9. FALSE \in BOOLEAN /\ 0 \in 0 .. MaxLength
  BY ConstantTypes
<1>10. SessionBytes'
  BY <1>1, <1>7, <1>8, <1>9, CompleteBytes
<1> QED
  BY <1>6, <1>10 DEF ByteInv

LEMMA FailedBytes ==
    ASSUME IInv, ByteInv, NEW op \in pending,
           AcceptFails(op) \/ ReceiveFails(op) \/ WriteFails(op)
    PROVE  ByteInv'
<1>1. /\ UNCHANGED <<live, socket, data, backlog, client, sent, toServer, toClient, received>>
      /\ \E n \in 0 .. MaxLength : Complete(op, TRUE, n)
  <2>1. op.done \in 0 .. MaxLength /\ 0 \in 0 .. MaxLength
    BY OperationType, ConstantTypes
  <2> QED
    BY <2>1, Zenon DEF AcceptFails, ReceiveFails, WriteFails, network
<1>2. \A d \in Clients : SameBytes(d)
  BY <1>1 DEF SameBytes
<1>3. backlog \in Seq(Clients) /\ \A d \in ToSet(backlog') : d \in ToSet(backlog)
  BY <1>1 DEF IInv, TypeOK, ToSet
<1>4. BacklogBytes' /\ \A d \in Clients : ClientBytes(d)' /\ Keeps(d)
  BY <1>2, <1>3, CountsKept
<1>5. PICK n \in 0 .. MaxLength : Complete(op, TRUE, n)
  BY <1>1
<1>6. \A u \in Sessions, d \in Clients :
         u # op.session /\ socket[u] = d => socket'[u] = d /\ data'[u] = data[u] /\ Keeps(d)
  BY <1>1, <1>4
<1>7. TRUE \in BOOLEAN
  OBVIOUS
<1>8. SessionBytes'
  BY <1>1, <1>5, <1>6, <1>7, CompleteBytes
<1> QED
  BY <1>4, <1>8 DEF ByteInv

(* The session s reads from or writes to its own client c only.            *)
LEMMA OthersKept ==
    ASSUME IInv, ByteInv, NEW s \in Sessions, NEW c \in Clients, socket[s] = c,
           UNCHANGED <<socket, backlog>>,
           \A d \in Clients : d # c => SameBytes(d),
           \A u \in Sessions : u # s => data'[u] = data[u],
           ClientBytes(c)'
    PROVE  /\ BacklogBytes' /\ \A d \in Clients : ClientBytes(d)'
           /\ \A u \in Sessions, d \in Clients :
                 u # s /\ socket[u] = d => socket'[u] = d /\ data'[u] = data[u] /\ Keeps(d)
<1>1. \A d \in Clients : d # c => ClientBytes(d)' /\ Keeps(d)
  BY SameBytesKept DEF ByteInv
<1>2. \A u \in Sessions, d \in Clients : u # s /\ socket[u] = d => d # c
  BY ConstantTypes DEF IInv, SocketInv
<1>3. ASSUME NEW d \in ToSet(backlog) PROVE d \in Clients /\ d # c
  BY DEF ToSet, IInv, TypeOK, SocketInv
<1>4. BacklogBytes'
  <2>1. \A d \in ToSet(backlog) : SameBytes(d)
    BY <1>3
  <2> QED
    BY <2>1 DEF ByteInv, BacklogBytes, SameBytes, Taken, Returned
<1> QED
  BY <1>1, <1>2, <1>4

LEMMA FunctionIsSequence ==
    ASSUME NEW m \in Nat, NEW r \in [1 .. m -> Nat]
    PROVE  r \in Seq(Nat) /\ Len(r) = m
  OBVIOUS

LEMMA DropFacts ==
    ASSUME NEW q \in Seq(Nat), NEW n \in Nat, n <= Len(q)
    PROVE  /\ SubSeq(q, n + 1, Len(q)) \in Seq(Nat)
           /\ Len(SubSeq(q, n + 1, Len(q))) = Len(q) - n
           /\ \A i \in DOMAIN SubSeq(q, n + 1, Len(q)) :
                 /\ SubSeq(q, n + 1, Len(q))[i] = q[n + i]
                 /\ n + i \in DOMAIN q /\ i \in Nat
<1> DEFINE r == SubSeq(q, n + 1, Len(q))
<1>1. Len(q) \in Nat /\ DOMAIN q = 1 .. Len(q) /\ \A i \in 1 .. Len(q) : q[i] \in Nat
  OBVIOUS
<1>2. r = [i \in 1 .. (1 + Len(q) - (n + 1)) |-> q[i + (n + 1) - 1]]
  OBVIOUS
<1>3. 1 + Len(q) - (n + 1) = Len(q) - n /\ Len(q) - n \in Nat
  BY <1>1
<1>4. \A i \in 1 .. Len(q) - n : i + (n + 1) - 1 = n + i /\ n + i \in 1 .. Len(q)
  BY <1>1
<1>5. r = [i \in 1 .. Len(q) - n |-> q[i + (n + 1) - 1]]
  BY <1>2, <1>3, Zenon
<1>6. \A i \in 1 .. Len(q) - n : r[i] = q[n + i]
  BY <1>4, <1>5
<1>7. DOMAIN r = 1 .. Len(q) - n
  BY <1>5
<1>8. r \in [1 .. Len(q) - n -> Nat]
  BY <1>1, <1>4, <1>5
<1>9. r \in Seq(Nat) /\ Len(r) = Len(q) - n
  BY <1>3, <1>8, FunctionIsSequence, Zenon
<1>10. \A i \in 1 .. Len(q) - n : i \in Nat
  OBVIOUS
<1>11. \A i \in DOMAIN r : r[i] = q[n + i] /\ n + i \in DOMAIN q /\ i \in Nat
  BY <1>1, <1>4, <1>6, <1>7, <1>10, Zenon
<1> QED
  BY <1>9, <1>11, Zenon

LEMMA ReceiveBytes ==
    ASSUME IInv, ByteInv, NEW op \in pending, Receive(op)
    PROVE  ByteInv'
<1> DEFINE s == op.session
           c == socket[s]
<1>1. PICK n \in 1 .. MaxLength :
         /\ n <= Len(toServer[c])
         /\ data' = [data EXCEPT ![s] = [i \in 1 .. MaxLength |->
                        IF i <= n THEN toServer[c][i] ELSE @[i]]]
         /\ toServer' = [toServer EXCEPT ![c] = SubSeq(@, n + 1, Len(@))]
         /\ Complete(op, FALSE, n)
  BY DEF Receive
<1>2. op.kind = "read" /\ UNCHANGED <<live, socket, client, backlog, sent, toClient, received>>
  BY DEF Receive
<1>3. PICK d \in Clients : d = c
  BY <1>2, OperationType
<1>4. /\ s \in Sessions /\ sent[d] \in Nat /\ toServer[d] \in Seq(Nat)
      /\ toClient[d] \in Seq(Nat) /\ received[d] \in Seq(Nat)
      /\ data \in [Sessions -> [1 .. MaxLength -> Nat]]
      /\ toServer \in [Clients -> Seq(Nat)]
  BY OperationType DEF IInv, TypeOK
<1>5. /\ toServer'[d] = SubSeq(toServer[d], n + 1, Len(toServer[d]))
      /\ \A x \in Clients : x # d => toServer'[x] = toServer[x]
      /\ \A i \in 1 .. MaxLength : i <= n => data'[s][i] = toServer[d][i]
      /\ \A u \in Sessions : u # s => data'[u] = data[u]
  BY <1>1, <1>3, <1>4
<1>6. n \in Nat /\ n <= MaxLength /\ MaxLength \in Nat /\ n <= Len(toServer[d])
  BY <1>1, <1>3, ConstantTypes
<1>7. /\ Len(toServer'[d]) = Len(toServer[d]) - n
      /\ \A i \in DOMAIN toServer'[d] : /\ toServer'[d][i] = toServer[d][n + i]
                                        /\ n + i \in DOMAIN toServer[d] /\ i \in Nat
  BY <1>4, <1>5, <1>6, DropFacts
<1>8. Returned(d)' = Returned(d) /\ Returned(d) \in Nat /\ Taken(d) \in Int
  <2>1. Len(received[d]) \in Nat /\ Len(toClient[d]) \in Nat /\ Len(toServer[d]) \in Nat
    BY <1>4
  <2>2. Returned(d)' = Returned(d)
    BY <1>2, Zenon DEF Returned
  <2> QED
    BY <1>4, <2>1, <2>2, Counting, Zenon DEF Returned, Taken
<1>9. Taken(d)' = Taken(d) + n
  <2>1. \A a, b \in Nat : a - (b - n) = (a - b) + n
    BY <1>6
  <2>2. Taken(d)' = sent[d] - (Len(toServer[d]) - n)
    BY <1>2, <1>7, Zenon DEF Taken
  <2>3. Len(toServer[d]) \in Nat
    BY <1>4
  <2> QED
    BY <1>4, <2>1, <2>2, <2>3, Zenon DEF Taken
<1>10. ClientBytes(d) /\ OperationHolds(op)
  BY DEF ByteInv, SessionBytes
<1>11. ClientBytes(d)'
  <2>1. CASE client[d] = "reset"
    BY <1>2, <1>10, <2>1 DEF ClientBytes
  <2>2. CASE client[d] # "reset"
    <3>1. \A i \in DOMAIN toServer'[d] : toServer'[d][i] = Taken(d)' + i
      <4>1. ASSUME NEW i \in DOMAIN toServer'[d]
            PROVE  toServer'[d][i] = Taken(d) + (n + i) /\ i \in Nat
        BY <1>7, <1>10, <2>2 DEF ClientBytes
      <4>2. \A i \in Nat : Taken(d) + (n + i) = (Taken(d) + n) + i
        BY <1>6, <1>8
      <4> QED
        BY <1>9, <4>1, <4>2, Zenon
    <3>2. Returned(d)' <= Taken(d)'
      BY <1>6, <1>8, <1>9, <1>10, <2>2 DEF ClientBytes
    <3>3. client[d] # "idle"
      BY <1>3, <1>4, ConstantTypes DEF IInv, SocketInv
    <3>4. \A i \in DOMAIN toClient'[d] : toClient'[d][i] = Len(received'[d]) + i
      BY <1>2, <1>10, <2>2 DEF ClientBytes
    <3> QED
      BY <1>2, <2>2, <3>1, <3>2, <3>3, <3>4 DEF ClientBytes
  <2> QED
    BY <2>1, <2>2
<1>12. Holds(s, 0, n)'
  <2>1. ASSUME client[d] # "reset"
        PROVE  /\ Taken(d)' = Returned(d)' + n
               /\ \A i \in 1 .. n : data'[s][0 + i] = Returned(d)' + i
    <3>1. Taken(d) = Returned(d) + 0
      BY <1>2, <1>3, <1>10, <2>1 DEF OperationHolds, Holds
    <3>2. Taken(d) = Returned(d)
      BY <1>8, <3>1
    <3>3. ASSUME NEW i \in 1 .. n PROVE data'[s][0 + i] = Returned(d)' + i
      <4>1. i \in DOMAIN toServer[d] /\ i \in 1 .. MaxLength /\ i <= n /\ 0 + i = i
        BY <1>4, <1>6
      <4>2. data'[s][i] = Taken(d) + i
        BY <1>5, <1>10, <2>1, <4>1 DEF ClientBytes
      <4> QED
        BY <1>8, <3>2, <4>1, <4>2, Zenon
    <3> QED
      BY <1>8, <1>9, <3>2, <3>3, Zenon
  <2>2. socket'[s] = d
    BY <1>2, <1>3
  <2> QED
    BY <1>2, <2>1, <2>2, Zenon DEF Holds
<1>13. \A x \in Clients : x # d => SameBytes(x)
  BY <1>2, <1>5 DEF SameBytes
<1>14. /\ BacklogBytes' /\ \A x \in Clients : ClientBytes(x)'
       /\ \A u \in Sessions, x \in Clients :
             u # s /\ socket[u] = x => socket'[u] = x /\ data'[u] = data[u] /\ Keeps(x)
  BY <1>2, <1>3, <1>4, <1>5, <1>11, <1>13, OthersKept
<1>15. SessionBytes'
  <2>1. FALSE \in BOOLEAN /\ n \in 0 .. MaxLength
    BY <1>6
  <2>2. Holds(s, 0, IF op.kind = "read" THEN n ELSE 0)'
    BY <1>2, <1>12
  <2> QED
    BY <1>1, <1>2, <1>14, <2>1, <2>2, CompleteBytes
<1> QED
  BY <1>14, <1>15 DEF ByteInv

LEMMA ConcatElements ==
    ASSUME NEW q \in Seq(Nat), NEW p \in Seq(Nat)
    PROVE  /\ Len(q \o p) = Len(q) + Len(p) /\ DOMAIN (q \o p) = 1 .. Len(q) + Len(p)
           /\ \A i \in 1 .. Len(q) : (q \o p)[i] = q[i]
           /\ \A i \in 1 .. Len(p) : (q \o p)[Len(q) + i] = p[i]
  OBVIOUS

(* The sequence r is q followed by f[m + 1], ..., f[m + n].                *)
Continues(r, q, f, m, n) ==
    /\ Len(r) = Len(q) + n /\ DOMAIN r = 1 .. Len(q) + n
    /\ \A i \in 1 .. Len(q) : r[i] = q[i]
    /\ \A i \in 1 .. n : r[Len(q) + i] = f[m + i]

LEMMA ConcatFacts ==
    ASSUME NEW q \in Seq(Nat), NEW l \in Nat, NEW f \in [1 .. l -> Nat],
           NEW m \in Nat, NEW n \in Nat, m + n <= l,
           NEW r, r = q \o SubSeq(f, m + 1, m + n)
    PROVE  Continues(r, q, f, m, n)
<1> DEFINE p == SubSeq(f, m + 1, m + n)
<1>1. p = [i \in 1 .. (1 + (m + n) - (m + 1)) |-> f[i + (m + 1) - 1]]
  OBVIOUS
<1>2. 1 + (m + n) - (m + 1) = n
  OBVIOUS
<1>3. p = [i \in 1 .. n |-> f[i + (m + 1) - 1]]
  BY <1>1, <1>2, Zenon
<1>4. \A i \in 1 .. n : i + (m + 1) - 1 = m + i /\ m + i \in 1 .. l
  OBVIOUS
<1>5. \A i \in 1 .. n : p[i] = f[m + i]
  BY <1>3, <1>4
<1>6. p \in [1 .. n -> Nat]
  BY <1>3, <1>4
<1>7. p \in Seq(Nat) /\ Len(p) = n
  BY <1>6, FunctionIsSequence, Zenon
<1>r. r = q \o p
  OBVIOUS
<1> HIDE DEF p
<1>8. /\ Len(r) = Len(q) + n /\ DOMAIN r = 1 .. Len(q) + n
      /\ \A i \in 1 .. Len(q) : r[i] = q[i]
      /\ \A i \in 1 .. n : r[Len(q) + i] = p[i]
  <2>1. /\ Len(q \o p) = Len(q) + n /\ DOMAIN (q \o p) = 1 .. Len(q) + n
        /\ \A i \in 1 .. Len(q) : (q \o p)[i] = q[i]
        /\ \A i \in 1 .. n : (q \o p)[Len(q) + i] = p[i]
    BY <1>7, ConcatElements, Zenon
  <2> QED
    BY <1>r, <2>1, Zenon
<1>9. \A i \in 1 .. n : r[Len(q) + i] = f[m + i]
  BY <1>5, <1>8, Zenon
<1> QED
  BY <1>8, <1>9, Zenon DEF p, Continues

(* What a write that makes progress does to the counts.                    *)
LEMMA WriteCounts ==
    ASSUME NEW taken \in Int, NEW back \in Nat, NEW bytes \in Nat, NEW done \in Nat,
           NEW n \in 1 .. bytes - done, taken = back + (bytes - done)
    PROVE  /\ taken = (back + n) + (bytes - (done + n)) /\ back + n <= taken
           /\ done + n = bytes => taken = (back + n) + 0
           /\ done + n <= bytes /\ n \in 1 .. bytes /\ back + n \in Nat
           /\ \A i \in 1 .. bytes - (done + n) : /\ n + i \in 1 .. bytes - done
                                                 /\ done + (n + i) = (done + n) + i
                                                 /\ back + (n + i) = (back + n) + i
  OBVIOUS

LEMMA WriteSomeBytes ==
    ASSUME IInv, ByteInv, NEW op \in pending, WriteSome(op)
    PROVE  ByteInv'
<1> DEFINE s == op.session
           c == socket[s]
           rest(n) == [op EXCEPT !.done = op.done + n]
<1>1. PICK n \in 1 .. op.bytes - op.done :
         /\ toClient' = [toClient EXCEPT ![c] =
                            @ \o SubSeq(data[s], op.done + 1, op.done + n)]
         /\ IF op.done + n = op.bytes
            THEN Complete(op, FALSE, op.bytes)
            ELSE pending' = (pending \ {op}) \cup {rest(n)} /\ UNCHANGED ready
  BY DEF WriteSome
<1>2. /\ op.kind = "write" /\ client[c] # "reset"
      /\ UNCHANGED <<live, socket, data, client, backlog, sent, toServer, received>>
  BY DEF WriteSome
<1>3. PICK d \in Clients : d = c
  BY <1>2, OperationType
<1>4. /\ s \in Sessions /\ sent[d] \in Nat /\ toServer[d] \in Seq(Nat)
      /\ toClient[d] \in Seq(Nat) /\ received[d] \in Seq(Nat)
      /\ data[s] \in [1 .. MaxLength -> Nat]
      /\ toClient \in [Clients -> Seq(Nat)]
      /\ op.bytes \in 0 .. MaxLength /\ op.done \in 0 .. MaxLength
  BY OperationType DEF IInv, TypeOK
<1>5. op.bytes \in Nat /\ op.bytes <= MaxLength /\ op.done \in Nat /\ MaxLength \in Nat
  BY <1>4, ConstantTypes
<1>6. /\ Len(toServer[d]) \in Nat /\ Len(toClient[d]) \in Nat /\ Len(received[d]) \in Nat
  BY <1>4
<1>7. Returned(d) \in Nat /\ Taken(d) \in Int
  BY <1>4, <1>6, Counting, Zenon DEF Returned, Taken
<1>8. ClientBytes(d) /\ OperationHolds(op)
  BY DEF ByteInv, SessionBytes
<1>9. /\ Taken(d) = Returned(d) + (op.bytes - op.done)
      /\ \A i \in 1 .. op.bytes - op.done : data[s][op.done + i] = Returned(d) + i
  BY <1>2, <1>3, <1>8, Zenon DEF OperationHolds, Holds
<1>10. /\ Taken(d) = (Returned(d) + n) + (op.bytes - (op.done + n))
       /\ Returned(d) + n <= Taken(d)
       /\ op.done + n = op.bytes => Taken(d) = (Returned(d) + n) + 0
       /\ op.done + n <= op.bytes /\ n \in 1 .. op.bytes /\ Returned(d) + n \in Nat
       /\ \A i \in 1 .. op.bytes - (op.done + n) :
             /\ n + i \in 1 .. op.bytes - op.done
             /\ op.done + (n + i) = (op.done + n) + i
             /\ Returned(d) + (n + i) = (Returned(d) + n) + i
  BY <1>5, <1>7, <1>9, WriteCounts
<1>11. n \in Nat /\ op.done + n <= MaxLength
  BY <1>5, <1>10
<1>12. /\ toClient'[d] = toClient[d] \o SubSeq(data[s], op.done + 1, op.done + n)
       /\ \A x \in Clients : x # d => toClient'[x] = toClient[x]
  BY <1>1, <1>3, <1>4
<1>13. /\ Len(toClient'[d]) = Len(toClient[d]) + n
       /\ DOMAIN toClient'[d] = 1 .. Len(toClient[d]) + n
       /\ \A i \in 1 .. Len(toClient[d]) : toClient'[d][i] = toClient[d][i]
       /\ \A i \in 1 .. n : toClient'[d][Len(toClient[d]) + i] = data[s][op.done + i]
  <2>1. PICK q \in Seq(Nat), f \in [1 .. MaxLength -> Nat], m \in Nat :
           q = toClient[d] /\ f = data[s] /\ m = op.done
    BY <1>4, <1>5
  <2>2. PICK r : r = toClient'[d]
    OBVIOUS
  <2>3. m + n <= MaxLength /\ r = q \o SubSeq(f, m + 1, m + n)
    BY <1>11, <1>12, <2>1, <2>2, Zenon
  <2>4. Continues(r, q, f, m, n)
    BY <1>5, <1>11, <2>3, ConcatFacts
  <2> QED
    BY <2>1, <2>2, <2>4, Zenon DEF Continues
<1>14. Taken(d)' = Taken(d)
  BY <1>2, Zenon DEF Taken
<1>15. Returned(d)' = Returned(d) + n
  <2>1. \A a, b \in Nat : a + (b + n) = (a + b) + n
    BY <1>11
  <2>2. Returned(d)' = Len(received[d]) + (Len(toClient[d]) + n)
    BY <1>2, <1>13, Zenon DEF Returned
  <2> QED
    BY <1>6, <2>1, <2>2, Zenon DEF Returned
<1>16. ClientBytes(d)'
  <2>1. \A i \in DOMAIN toClient'[d] : toClient'[d][i] = Len(received[d]) + i
    <3>1. \A i \in 1 .. Len(toClient[d]) : toClient'[d][i] = Len(received[d]) + i
      <4>1. DOMAIN toClient[d] = 1 .. Len(toClient[d])
        BY <1>4
      <4> QED
        BY <1>2, <1>3, <1>8, <1>13, <4>1, Zenon DEF ClientBytes
    <3>2. \A i \in 1 .. n :
             toClient'[d][Len(toClient[d]) + i] = Len(received[d]) + (Len(toClient[d]) + i)
      <4>1. ASSUME NEW i \in 1 .. n PROVE i \in 1 .. op.bytes - op.done /\ i \in Nat
        BY <1>1, <1>5
      <4>2. \A a, b, i \in Nat : a + (b + i) = (a + b) + i
        OBVIOUS
      <4> QED
        BY <1>6, <1>9, <1>13, <4>1, <4>2, Zenon DEF Returned
    <3>3. \A l \in Nat : \A i \in 1 .. l + n : i \in 1 .. l \/ \E j \in 1 .. n : i = l + j
      <4>1. ASSUME NEW l \in Nat, NEW i \in 1 .. l + n, ~(i \in 1 .. l)
            PROVE  i - l \in 1 .. n /\ i = l + (i - l)
        BY <1>11, <4>1
      <4> QED
        BY <4>1
    <3>4. ASSUME NEW i \in DOMAIN toClient'[d]
          PROVE  toClient'[d][i] = Len(received[d]) + i
      <4>1. i \in 1 .. Len(toClient[d]) \/ \E j \in 1 .. n : i = Len(toClient[d]) + j
        BY <1>6, <1>13, <3>3, Zenon
      <4> QED
        BY <3>1, <3>2, <4>1, Zenon
    <3> QED
      BY <3>4, Zenon
  <2>2. client[d] # "idle"
    BY <1>3, <1>4, ConstantTypes DEF IInv, SocketInv
  <2>3. \A i \in DOMAIN toServer[d] : toServer[d][i] = Taken(d) + i
    BY <1>2, <1>3, <1>8, Zenon DEF ClientBytes
  <2> QED
    BY <1>2, <1>3, <1>10, <1>14, <1>15, <2>1, <2>2, <2>3, Zenon DEF ClientBytes
<1>17. \A x \in Clients : x # d => SameBytes(x)
  BY <1>2, <1>12 DEF SameBytes
<1>18. /\ BacklogBytes' /\ \A x \in Clients : ClientBytes(x)'
       /\ \A u \in Sessions, x \in Clients :
             u # s /\ socket[u] = x => socket'[u] = x /\ data'[u] = data[u] /\ Keeps(x)
  <2>1. \A u \in Sessions : u # s => data'[u] = data[u]
    BY <1>2
  <2> QED
    BY <1>2, <1>3, <1>4, <1>16, <1>17, <2>1, OthersKept
<1>19. SessionBytes'
  <2>1. CASE op.done + n = op.bytes
    <3>1. FALSE \in BOOLEAN /\ op.bytes \in 0 .. MaxLength /\ Complete(op, FALSE, op.bytes)
      BY <1>1, <1>4, <2>1
    <3>2. \A i \in 1 .. 0 : FALSE
      OBVIOUS
    <3>3. Holds(s, 0, 0)'
      BY <1>2, <1>3, <1>10, <1>14, <1>15, <2>1, <3>2, Zenon DEF Holds
    <3>4. Holds(s, 0, IF op.kind = "read" THEN op.bytes ELSE 0)'
      BY <1>2, <3>3
    <3> QED
      BY <1>2, <1>18, <3>1, <3>4, CompleteBytes
  <2>2. CASE op.done + n # op.bytes
    <3> DEFINE X == {s}
               after == rest(n)
    <3>1. /\ after.session = s /\ after.kind = "write"
          /\ after.bytes = op.bytes /\ after.done = op.done + n
      BY <1>2, OperationType DEF Operations
    <3>2. pending' = (pending \ {op}) \cup {after} /\ UNCHANGED ready
      BY <1>1, <2>2
    <3> HIDE DEF after
    <3>3. Holds(s, op.done + n, op.bytes - (op.done + n))'
      <4>1. \A i \in 1 .. op.bytes - (op.done + n) :
               data[s][(op.done + n) + i] = (Returned(d) + n) + i
        BY <1>9, <1>10, Zenon
      <4> QED
        BY <1>2, <1>3, <1>10, <1>14, <1>15, <4>1, Zenon DEF Holds
    <3>4. OperationHolds(after)'
      BY <1>10, <3>1, <3>3, Zenon DEF OperationHolds
    <3>5. \A o \in pending' : (o \in pending /\ o.session \notin X) \/ OperationHolds(o)'
      BY <3>2, <3>4 DEF IInv, HandlerInv
    <3>6. \A e \in ToSet(ready') : e \in ToSet(ready) /\ e.session \notin X
      BY <3>2 DEF ToSet, IInv, HandlerInv
    <3>7. \A u \in Sessions, x \in Clients : u \notin X /\ socket[u] = x =>
             socket'[u] = x /\ data'[u] = data[u] /\ Keeps(x)
      BY <1>18
    <3> HIDE DEF X
    <3> QED
      BY <3>5, <3>6, <3>7, SessionBytesKept
  <2> QED
    BY <2>1, <2>2
<1> QED
  BY <1>18, <1>19 DEF ByteInv

(* A handler passes on what it holds, or its session is deleted with it.   *)
LEMMA HandlerBytes ==
    ASSUME IInv, ByteInv, RunOne
    PROVE  ByteInv'
<1>h. PICK h, u : h = Head(ready) /\ u = h.session
  OBVIOUS
<1> DEFINE X == {u}
<1>1. /\ ready # <<>>
      /\ UNCHANGED <<data, backlog, client, sent, toServer, toClient, received>>
  BY DEF RunOne, HandleAccept, HandleAcceptFailed, HandleRead, HandleReadFailed,
         HandleWrite, HandleWriteFailed, Called, network
<1>2. \A d \in Clients : SameBytes(d)
  BY <1>1 DEF SameBytes
<1>3. backlog \in Seq(Clients) /\ \A d \in ToSet(backlog') : d \in ToSet(backlog)
  BY <1>1 DEF IInv, TypeOK, ToSet
<1>4. BacklogBytes' /\ \A d \in Clients : ClientBytes(d)' /\ Keeps(d)
  BY <1>2, <1>3, CountsKept
<1>5. /\ 1 \in DOMAIN ready /\ h = ready[1] /\ h \in Entries /\ h \in ToSet(ready)
      /\ \A i \in DOMAIN Tail(ready) : /\ i + 1 \in DOMAIN ready /\ i + 1 # 1
                                       /\ Tail(ready)[i] = ready[i + 1]
  <2>1. ready \in Seq(Entries)
    BY DEF IInv, TypeOK, Entries
  <2> QED
    BY <1>h, <1>1, <2>1, TailEntries DEF ToSet
<1>6. ready' = Tail(ready) => \A e \in ToSet(ready') : e \in ToSet(ready) /\ e.session \notin X
  BY <1>h, <1>5 DEF ToSet, IInv, HandlerInv
<1>7. \A op \in pending : op.session \notin X
  BY <1>h, <1>5 DEF IInv, HandlerInv
<1>8. u \in Sessions /\ socket \in [Sessions -> Clients \cup {NoClient}]
  BY <1>h, <1>1, EntryType DEF IInv, TypeOK
<1>9. EntryHolds(h)
  BY <1>5 DEF ByteInv, SessionBytes
<1>10. ASSUME socket' = socket \/ socket' = [socket EXCEPT ![u] = NoClient]
       PROVE  \A s \in Sessions, d \in Clients : s \notin X /\ socket[s] = d =>
                 socket'[s] = d /\ data'[s] = data[s] /\ Keeps(d)
  BY <1>1, <1>4, <1>8, <1>10
<1>11. ASSUME NEW from, NEW n, Holds(u, from, n), socket' = socket
       PROVE  Holds(u, from, n)'
  BY <1>1, <1>11 DEF Holds, Taken, Returned
<1>12. SessionBytes'
  <2>1. CASE HandleAccept
    <3>1. PICK s \in Sessions \ live :
             /\ pending' = pending \cup {Read(u), Accept(s)}
             /\ ready' = Tail(ready) /\ socket' = socket
      BY <1>h, <2>1 DEF HandleAccept, StartAccept
    <3>2. Holds(u, 0, 0)'
      BY <1>h, <1>9, <1>11, <2>1, <3>1 DEF EntryHolds, HandleAccept, Called
    <3>3. OperationHolds(Read(u))' /\ OperationHolds(Accept(s))'
      BY <3>2 DEF OperationHolds, Read, Accept
    <3>4. \A op \in pending' : (op \in pending /\ op.session \notin X) \/ OperationHolds(op)'
      BY <1>7, <3>1, <3>3, Zenon
    <3> HIDE DEF X
    <3> QED
      BY <1>6, <1>10, <3>1, <3>4, SessionBytesKept
  <2>2. CASE HandleRead
    <3>a. PICK n, op : n = h.bytes /\ op = Write(u, n)
      OBVIOUS
    <3>1. pending' = pending \cup {op} /\ ready' = Tail(ready) /\ socket' = socket
      BY <1>h, <2>2, <3>a DEF HandleRead, Start
    <3>2. Holds(u, 0, n)'
      <4>1. ~h.failed /\ h.kind = "read"
        BY <1>h, <2>2 DEF HandleRead, Called
      <4>2. Holds(u, 0, n)
        BY <1>h, <1>9, <3>a, <4>1, Zenon DEF EntryHolds
      <4> QED
        BY <1>11, <3>1, <4>2
    <3>3. op.kind = "write" /\ op.session = u /\ op.bytes = n /\ op.done = 0
      BY <3>a DEF Write
    <3>4. n \in Nat /\ n - 0 = n /\ 0 <= n
      BY <1>h, <1>1, <3>a, EntryType, ConstantTypes
    <3>5. OperationHolds(op)'
      BY <3>2, <3>3, <3>4, Zenon DEF OperationHolds
    <3>6. \A o \in pending' : (o \in pending /\ o.session \notin X) \/ OperationHolds(o)'
      BY <1>7, <3>1, <3>5
    <3> HIDE DEF X
    <3> QED
      BY <1>6, <1>10, <3>1, <3>6, SessionBytesKept
  <2>3. CASE HandleWrite
    <3>1. pending' = pending \cup {Read(u)} /\ ready' = Tail(ready) /\ socket' = socket
      BY <1>h, <2>3 DEF HandleWrite, Start
    <3>2. Holds(u, 0, 0)'
      BY <1>h, <1>9, <1>11, <2>3, <3>1 DEF EntryHolds, HandleWrite, Called
    <3>3. OperationHolds(Read(u))'
      BY <3>2 DEF OperationHolds, Read
    <3>4. \A op \in pending' : (op \in pending /\ op.session \notin X) \/ OperationHolds(op)'
      BY <1>7, <3>1, <3>3, Zenon
    <3> HIDE DEF X
    <3> QED
      BY <1>6, <1>10, <3>1, <3>4, SessionBytesKept
  <2>4. CASE HandleAcceptFailed
    <3>1. /\ ready' = Tail(ready) /\ \E s : pending' = pending \cup {Accept(s)}
          /\ socket' = [socket EXCEPT ![u] = NoClient]
      BY <1>h, <2>4, HandleAcceptFailedKeeps DEF IInv, HandleAcceptFailed, Closed
    <3>2. \A s : OperationHolds(Accept(s))'
      BY DEF OperationHolds, Accept
    <3>3. \A op \in pending' : (op \in pending /\ op.session \notin X) \/ OperationHolds(op)'
      BY <1>7, <3>1, <3>2
    <3> HIDE DEF X
    <3> QED
      BY <1>6, <1>10, <3>1, <3>3, SessionBytesKept
  <2>5. CASE HandleReadFailed \/ HandleWriteFailed
    <3>1. h.kind # "accept" /\ Delete(u)
      BY <1>h, <2>5 DEF HandleReadFailed, HandleWriteFailed, Called
    <3>2. /\ pending' = pending /\ ready' = Tail(ready)
          /\ socket' = [socket EXCEPT ![u] = NoClient]
      BY <1>h, <1>1, <3>1, DeleteKeeps DEF IInv, Delete, Closed
    <3>3. \A op \in pending' : (op \in pending /\ op.session \notin X) \/ OperationHolds(op)'
      BY <1>7, <3>2
    <3> HIDE DEF X
    <3> QED
      BY <1>6, <1>10, <3>2, <3>3, SessionBytesKept
  <2> QED
    BY <2>1, <2>2, <2>3, <2>4, <2>5 DEF RunOne
<1> QED
  BY <1>4, <1>12 DEF ByteInv

LEMMA ByteStep == IInv /\ ByteInv /\ [Next]_vars => ByteInv'
<1> SUFFICES ASSUME IInv, ByteInv, [Next]_vars PROVE ByteInv'
  OBVIOUS
<1>1. CASE UNCHANGED vars
  <2> DEFINE X == {}
  <2>1. \A d \in Clients : SameBytes(d)
    BY <1>1 DEF vars, SameBytes
  <2>2. backlog \in Seq(Clients) /\ \A d \in ToSet(backlog') : d \in ToSet(backlog)
    BY <1>1 DEF vars, IInv, TypeOK, ToSet
  <2>3. BacklogBytes' /\ \A d \in Clients : ClientBytes(d)' /\ Keeps(d)
    BY <2>1, <2>2, CountsKept
  <2>4. /\ \A s \in Sessions, d \in Clients : s \notin X /\ socket[s] = d =>
              socket'[s] = d /\ data'[s] = data[s] /\ Keeps(d)
        /\ \A op \in pending' : op \in pending /\ op.session \notin X
        /\ \A e \in ToSet(ready') : e \in ToSet(ready) /\ e.session \notin X
    BY <1>1, <2>3 DEF vars, ToSet
  <2> HIDE DEF X
  <2> QED
    BY <2>3, <2>4, SessionBytesKept DEF ByteInv
<1> QED
  BY <1>1, ClientStepBytes, AcceptedBytes, FailedBytes, ReceiveBytes, WriteSomeBytes,
     HandlerBytes DEF Next, Progress

-----------------------------------------------------------------------------
(* Each step of the server is a step of the promise, or none: the byte a   *)
(* client gets is the next one it sent.                                    *)
LEMMA EchoStep ==
    ASSUME IInv, ByteInv, [Next]_vars
    PROVE  [Promised!Next]_Promised!vars
<1> DEFINE reset == {c \in Clients : client[c] = "reset"}
<1>1. NetworkTypes
  BY TypeParts DEF IInv
<1>2. ASSUME UNCHANGED <<sent, received, client>> PROVE UNCHANGED Promised!vars
  BY <1>2 DEF Promised!vars
<1>3. ASSUME NEW op \in pending, Progress(op) \/ AcceptFails(op)
      PROVE  UNCHANGED <<sent, received, client>>
  BY <1>3 DEF Progress, Accepted, AcceptFails, Receive, ReceiveFails, WriteSome, WriteFails,
              network
<1>4. ASSUME RunOne PROVE UNCHANGED <<sent, received, client>>
  BY <1>4 DEF RunOne, HandleAccept, HandleAcceptFailed, HandleRead, HandleReadFailed,
              HandleWrite, HandleWriteFailed, network
<1>5. ASSUME NEW c \in Clients, Connect(c) \/ Shutdown(c) PROVE UNCHANGED Promised!vars
  <2>1. reset' = reset
    BY <1>1, <1>5 DEF Connect, Shutdown, NetworkTypes
  <2> QED
    BY <1>5, <2>1 DEF Connect, Shutdown, Promised!vars
<1>6. ASSUME NEW c \in Clients, Send(c) PROVE Promised!Send(c)
  BY <1>1, <1>6 DEF Send, NetworkTypes, Promised!Send
<1>7. ASSUME NEW c \in Clients, Reset(c) PROVE Promised!Reset(c)
  <2>1. reset' = reset \cup {c}
    BY <1>1, <1>7 DEF Reset, NetworkTypes
  <2>2. c \notin reset
    BY <1>7 DEF Reset
  <2> QED
    BY <1>7, <2>1, <2>2 DEF Reset, Promised!Reset
<1>8. ASSUME NEW c \in Clients, GetEcho(c) PROVE Promised!Receive(c)
  <2>1. ClientBytes(c)
    BY DEF ByteInv
  <2>2. toClient[c] # <<>> /\ client[c] # "reset"
    BY <1>8, <2>1 DEF GetEcho, ClientBytes
  <2>3. /\ toClient[c] \in Seq(Nat) /\ received[c] \in Seq(Nat)
        /\ toServer[c] \in Seq(Nat) /\ sent[c] \in Nat
    BY <1>1 DEF NetworkTypes
  <2>4. 1 \in DOMAIN toClient[c] /\ Head(toClient[c]) = toClient[c][1]
    BY <2>2, <2>3, TailEntries
  <2>5. Head(toClient[c]) = Len(received[c]) + 1
    BY <2>1, <2>2, <2>4, Zenon DEF ClientBytes
  <2>6. Len(received[c]) < sent[c]
    <3>1. \A r, o, t, n \in Nat : r + o <= n - t /\ o > 0 => r < n
      OBVIOUS
    <3>2. /\ Len(received[c]) \in Nat /\ Len(toClient[c]) \in Nat /\ Len(toServer[c]) \in Nat
          /\ Len(toClient[c]) > 0
      BY <2>2, <2>3
    <3>3. Len(received[c]) + Len(toClient[c]) <= sent[c] - Len(toServer[c])
      BY <2>1, <2>2, Zenon DEF ClientBytes, Taken, Returned
    <3> QED
      BY <2>3, <3>1, <3>2, <3>3, Zenon
  <2>7. UNCHANGED <<sent, client>>
    BY <1>8 DEF GetEcho
  <2>8. received' = [received EXCEPT ![c] = Append(@, Len(@) + 1)]
    BY <1>8, <2>5 DEF GetEcho
  <2> QED
    BY <2>2, <2>6, <2>7, <2>8 DEF Promised!Receive
<1>9. CASE UNCHANGED vars
  BY <1>2, <1>9 DEF vars
<1> QED
  BY <1>2, <1>3, <1>4, <1>5, <1>6, <1>7, <1>8, <1>9 DEF Next, Promised!Next

(* The echo server implements what it promises: whatever the reads and the *)
(* writes are cut into, whenever clients come, stop or reset, each gets    *)
(* back its own bytes in order, none lost and none twice.                  *)
THEOREM EchoImplemented == Spec => ImplementsEcho
<1>1. Init => Promised!Init
  BY DEF Init, Promised!Init
<1>2. IInv /\ ByteInv /\ [Next]_vars => ByteInv'
  BY ByteStep
<1>3. IInv /\ ByteInv /\ [Next]_vars => [Promised!Next]_Promised!vars
  BY EchoStep
<1> QED
  BY <1>1, <1>2, <1>3, InitByteInv, Inductive, PTL DEF Spec, ImplementsEcho, Promised!Spec
=============================================================================

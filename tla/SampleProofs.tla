--------------------------- MODULE SampleProofs ----------------------------
(***************************************************************************)
(* Proofs about the sample programs: EpollReader, for every size of the    *)
(* buffer and any lines; TcpPair, for any number of clients, any lengths   *)
(* and any number of failing calls; Timers, for every delay, period and    *)
(* limit; and Algorithms, for every input.                                 *)
(***************************************************************************)
EXTENDS EpollReader, TcpPair, Timers, Algorithms, FiniteSetTheorems,
        WellFoundedInduction, TLAPS

(* Nothing is open before the descriptor is made.                          *)
DescriptorInv ==
    /\ pc = "create" => epollFd = "none"
    /\ ClosedAtExit

(* While the loop goes on, what the last read left in the buffer would not *)
(* end it: a read that fails finds nothing else there.                     *)
BufferInv == running => ~IsPrefix(StopLine, read_buffer)

ReaderInv == ReaderTypeOK /\ DescriptorInv /\ BufferInv

-----------------------------------------------------------------------------
LEMMA ReaderConstantTypes ==
    /\ ReadSize \in Nat \ {0, 1} /\ Lines \subseteq Seq({"x", "stop"})
    /\ MaxLines \in Nat /\ MaxFailures \in Nat
  BY ReadSizeAssumption, LinesAssumption, BoundsAssumption

(* What a read takes and what it leaves.                                   *)
LEMMA Taken ==
    ASSUME NEW S, NEW s \in Seq(S), NEW n \in 0 .. Len(s)
    PROVE  /\ SubSeq(s, 1, n) \in Seq(S) /\ Len(SubSeq(s, 1, n)) = n
           /\ SubSeq(s, n + 1, Len(s)) \in Seq(S)
           /\ Len(SubSeq(s, n + 1, Len(s))) = Len(s) - n
           /\ \A i \in 1 .. n : SubSeq(s, 1, n)[i] = s[i]
  OBVIOUS

(* A stop line at the start of what was taken is one at the start of what  *)
(* there was, and not nothing.                                             *)
LEMMA StopTaken ==
    ASSUME NEW S, NEW s \in Seq(S), NEW n \in 0 .. Len(s),
           IsPrefix(StopLine, SubSeq(s, 1, n))
    PROVE  IsPrefix(StopLine, s) /\ n > 0
<1> DEFINE t == SubSeq(s, 1, n)
<1>1. t \in Seq(S) /\ Len(t) = n /\ \A i \in 1 .. n : t[i] = s[i]
  BY Taken
<1>2. Len(StopLine) = 2
  BY DEF StopLine
<1>3. 2 <= n /\ SubSeq(StopLine, 1, 2) = SubSeq(t, 1, 2)
  BY <1>1, <1>2 DEF IsPrefix
<1>4. SubSeq(t, 1, 2) = SubSeq(s, 1, 2)
  BY <1>1, <1>3
<1> QED
  BY <1>2, <1>3, <1>4 DEF IsPrefix

LEMMA ReaderInitInv == ReaderInit => ReaderInv
<1> SUFFICES ASSUME ReaderInit PROVE ReaderInv
  OBVIOUS
<1>1. ReaderTypeOK
  BY ReaderConstantTypes DEF ReaderInit, ReaderTypeOK
<1>2. DescriptorInv
  BY DEF ReaderInit, DescriptorInv, ClosedAtExit
<1>3. BufferInv
  BY DEF ReaderInit, BufferInv, IsPrefix, StopLine
<1> QED
  BY <1>1, <1>2, <1>3 DEF ReaderInv

(* Every step keeps every part of the invariant.                           *)
LEMMA ReaderTypeStep == ReaderInv /\ [ReaderNext]_readerVars => ReaderTypeOK'
<1> SUFFICES ASSUME ReaderInv, [ReaderNext]_readerVars PROVE ReaderTypeOK'
  OBVIOUS
<1> USE ReaderConstantTypes DEF ReaderInv, ReaderTypeOK, program, input, Goto, Exit
<1>1. CASE Type
  <2>1. ASSUME NEW l \in Lines PROVE Append(l, "nl") \in Seq(Bytes)
    BY DEF Bytes
  <2>2. unread' \in Seq(Bytes)
    BY <1>1, <2>1 DEF Type
  <2>3. typed' \in 0 .. MaxLines
    BY <1>1 DEF Type
  <2> QED
    BY <1>1, <2>2, <2>3 DEF Type
<1>2. CASE HangUp
  BY <1>2 DEF HangUp
<1>3. CASE CreateFails
  BY <1>3 DEF CreateFails
<1>4. CASE Create
  BY <1>4 DEF Create
<1>5. CASE AddFails
  BY <1>5 DEF AddFails
<1>6. CASE Add
  BY <1>6 DEF Add
<1>7. CASE WaitReady
  BY <1>7 DEF WaitReady, Waited
<1>8. CASE WaitTimesOut
  BY <1>8 DEF WaitTimesOut, Waited
<1>9. CASE WaitInterrupted
  BY <1>9 DEF WaitInterrupted, Waited
<1>10. CASE Read
  <2>1. PICK n \in 0 .. Len(unread) : /\ n <= ReadSize
                                      /\ read_buffer' = SubSeq(unread, 1, n)
                                      /\ unread' = SubSeq(unread, n + 1, Len(unread))
    BY <1>10 DEF Read, Available
  <2>2. /\ read_buffer' \in Seq(Bytes) /\ Len(read_buffer') <= ReadSize
        /\ unread' \in Seq(Bytes)
    BY <2>1, Taken
  <2> QED
    BY <1>10, <2>2 DEF Read, Judge, Loop
<1>11. CASE ReadFails
  <2>1. running' \in BOOLEAN
    BY <1>11, Zenon DEF ReadFails, Judge, Loop
  <2>2. failures' \in 0 .. MaxFailures
    BY <1>11 DEF ReadFails
  <2>3. pc' \in {"wait", "close", "undefined"}
    BY <1>11 DEF ReadFails, Judge, Loop
  <2> QED
    BY <1>11, <2>1, <2>2, <2>3 DEF ReadFails
<1>12. CASE Close
  BY <1>12 DEF Close
<1>13. CASE UNCHANGED readerVars
  BY <1>13 DEF readerVars
<1> QED
  BY <1>1, <1>2, <1>3, <1>4, <1>5, <1>6, <1>7, <1>8, <1>9, <1>10, <1>11, <1>12, <1>13
     DEF ReaderNext, Program, Ended

LEMMA DescriptorStep == ReaderInv /\ [ReaderNext]_readerVars => DescriptorInv'
  BY DEF ReaderInv, DescriptorInv, ClosedAtExit, ReaderNext, Program, Ended, readerVars, Type, HangUp,
         CreateFails, Create, AddFails, Add, WaitReady, WaitTimesOut, WaitInterrupted,
         Waited, Read, ReadFails, Judge, Loop, Close, program, input, Goto, Exit

LEMMA BufferStep == ReaderInv /\ [ReaderNext]_readerVars => BufferInv'
<1> SUFFICES ASSUME ReaderInv, [ReaderNext]_readerVars PROVE BufferInv'
  OBVIOUS
<1>1. CASE Read
  BY <1>1 DEF Read, Judge, Loop, BufferInv
<1>2. CASE ReadFails
  BY <1>2 DEF ReadFails, Judge, Loop, ReaderInv, BufferInv
<1>3. CASE ~Read /\ ~ReadFails
  BY <1>3 DEF ReaderInv, BufferInv, ReaderNext, Program, Ended, readerVars, Type, HangUp, CreateFails,
              Create, AddFails, Add, WaitReady, WaitTimesOut, WaitInterrupted, Waited,
              Close, program
<1> QED
  BY <1>1, <1>2, <1>3

THEOREM ReaderInductive == ReaderSpec => []ReaderInv
<1>1. ReaderInv /\ [ReaderNext]_readerVars => ReaderInv'
  BY ReaderTypeStep, DescriptorStep, BufferStep DEF ReaderInv
<1> QED
  BY <1>1, ReaderInitInv, PTL DEF ReaderSpec

-----------------------------------------------------------------------------
(* Whatever the size of the buffer, a read does not pass its end.          *)
THEOREM ReaderTypeCorrect == ReaderSpec => []ReaderTypeOK
<1>1. ReaderInv => ReaderTypeOK
  BY DEF ReaderInv
<1> QED
  BY <1>1, ReaderInductive, PTL

(* On every way out of the program the descriptor is closed.               *)
THEOREM DescriptorClosed == ReaderSpec => []ClosedAtExit
<1>1. ReaderInv => ClosedAtExit
  BY DEF ReaderInv, DescriptorInv
<1> QED
  BY <1>1, ReaderInductive, PTL

(* Whatever is typed, however it is cut, and whatever fails, only a step   *)
(* that reads bytes that start with those of the stop line ends the loop.  *)
THEOREM OnlyStopEnds == ReaderSpec => EndsOnStopOnly
<1>1. ASSUME ReaderInv, [ReaderNext]_readerVars, running, ~running'
      PROVE  IsPrefix(StopLine, unread) /\ Len(unread') < Len(unread)
  <2>1. CASE Read
    <3>1. PICK n \in 0 .. Len(unread) : /\ read_buffer' = SubSeq(unread, 1, n)
                                        /\ unread' = SubSeq(unread, n + 1, Len(unread))
      BY <2>1 DEF Read, Available
    <3>2. IsPrefix(StopLine, read_buffer')
      BY <1>1, <2>1 DEF Read, Judge, Loop
    <3>3. unread \in Seq(Bytes)
      BY <1>1 DEF ReaderInv, ReaderTypeOK
    <3>4. IsPrefix(StopLine, unread) /\ n > 0
      BY <3>1, <3>2, <3>3, StopTaken
    <3>5. Len(unread') = Len(unread) - n
      BY <3>1, <3>3, Taken
    <3> QED
      BY <3>1, <3>3, <3>4, <3>5
  <2>2. CASE ReadFails
    BY <1>1, <2>2 DEF ReadFails, Judge, Loop, ReaderInv, BufferInv
  <2>3. CASE ~Read /\ ~ReadFails
    BY <1>1, <2>3 DEF ReaderNext, Program, Ended, readerVars, Type, HangUp, CreateFails, Create,
                      AddFails, Add, WaitReady, WaitTimesOut, WaitInterrupted, Waited,
                      Close, program
  <2> QED
    BY <2>1, <2>2, <2>3
<1>2. ReaderInv /\ [ReaderNext]_readerVars =>
         [running /\ ~running' =>
             IsPrefix(StopLine, unread) /\ Len(unread') < Len(unread)]_readerVars
  BY <1>1
<1> QED
  BY <1>2, ReaderInductive, PTL DEF ReaderSpec, EndsOnStopOnly

-----------------------------------------------------------------------------
(* A client is connected once it is in the backlog or accepted, and it is  *)
(* in one of them once.  The server has read nothing before it accepts.    *)
QueueInv ==
    /\ \A c \in ToSet(backlog) : link[c] # "none" /\ c # accepted
    /\ server \in {"setup", "accept"} => accepted = NoClient
    /\ server \in {"setup", "accept", "read"} => received = 0
    /\ received > 0 => accepted # NoClient

(* While the server runs only a client's exit closes a connection.         *)
LinkInv ==
    \A c \in Clients :
        /\ client[c] = "connect" => link[c] = "none"
        /\ link[c] = "none" => client[c] \in {"connect", "exited"} /\ c # accepted
        /\ server # "exited" => /\ link[c] # "reset"
                                /\ link[c] = "closed" => client[c] = "exited"

(* An answer is there only for the accepted client, if the server read     *)
(* something, or if the client has gone.                                   *)
AnswerInv ==
    /\ server = "write" => received > 0 \/ client[accepted] = "exited"
    /\ \A c \in Clients :
          /\ toClient[c] > 0 => /\ accepted = c /\ server = "exited"
                                /\ received > 0 \/ client[c] = "exited"
          /\ printed[c] > 0 => accepted = c /\ server = "exited" /\ received > 0

(* What a client wrote is all there until the server reads from it, and    *)
(* what the server read and what it left make up the message.              *)
NotReadFrom(c) == c = accepted => server = "read"

MessageInv ==
    \A c \in Clients :
        /\ NotReadFrom(c) /\ client[c] = "read" /\ link[c] = "open" =>
              toServer[c] = message[c]
        /\ NotReadFrom(c) /\ toServer[c] > 0 =>
              client[c] \in {"read", "exited"} /\ toServer[c] = message[c]
        /\ c = accepted /\ received > 0 =>
              client[c] \in {"read", "exited"} /\ received + toServer[c] = message[c]

(* If nothing failed, a client that wrote something waits for the answer.  *)
(* If nothing was left unread either, the answer is on its way to it, and  *)
(* a client that ended has printed it.                                     *)
WholeInv ==
    faults = 0 => \A c \in Clients :
        /\ NotReadFrom(c) /\ toServer[c] > 0 /\ server # "exited" => client[c] = "read"
        /\ c = accepted /\ received > 0 /\ received = message[c] =>
              /\ client[c] = "exited" => printed[c] > 0
              /\ client[c] = "read" /\ server = "exited" =>
                    link[c] = "closed" /\ toClient[c] = Answer

IInv == TypeOK /\ QueueInv /\ LinkInv /\ AnswerInv /\ MessageInv /\ WholeInv

-----------------------------------------------------------------------------
LEMMA ConstantTypes ==
    NoClient \notin Clients /\ Lengths \subseteq Nat /\ Answer \in Nat \ {0} /\ MaxFaults \in Nat
  BY ClientsAssumption, LengthsAssumption, MaxFaultsAssumption

LEMMA ToSetEmpty == ToSet(<<>>) = {}
  BY DEF ToSet

LEMMA ToSetAppend ==
    ASSUME NEW S, NEW s \in Seq(S), NEW c \in S
    PROVE  ToSet(Append(s, c)) = ToSet(s) \cup {c}
<1>1. DOMAIN Append(s, c) = 1 .. Len(s) + 1
  OBVIOUS
<1>2. \A i \in 1 .. Len(s) : Append(s, c)[i] = s[i]
  OBVIOUS
<1>3. Append(s, c)[Len(s) + 1] = c
  OBVIOUS
<1> QED
  BY <1>1, <1>2, <1>3 DEF ToSet

(* A queue without repetitions stays one when somebody new joins it, and   *)
(* who leaves it is no longer in it.                                       *)
LEMMA InjectiveAppend ==
    ASSUME NEW S, NEW s \in Seq(S), NEW c \in S, IsInjective(s), c \notin ToSet(s)
    PROVE  IsInjective(Append(s, c))
<1>1. DOMAIN Append(s, c) = 1 .. Len(s) + 1
  OBVIOUS
<1>2. \A i \in 1 .. Len(s) : Append(s, c)[i] = s[i] /\ s[i] \in ToSet(s)
  BY DEF ToSet
<1>3. Append(s, c)[Len(s) + 1] = c
  OBVIOUS
<1> QED
  BY <1>1, <1>2, <1>3 DEF IsInjective

LEMMA InjectiveTail ==
    ASSUME NEW S, NEW s \in Seq(S), s # <<>>, IsInjective(s)
    PROVE  /\ IsInjective(Tail(s))
           /\ ToSet(Tail(s)) \subseteq ToSet(s)
           /\ Head(s) \in ToSet(s) /\ Head(s) \notin ToSet(Tail(s))
<1>1. DOMAIN Tail(s) = 1 .. Len(s) - 1 /\ DOMAIN s = 1 .. Len(s) /\ Len(s) \in Nat \ {0}
  OBVIOUS
<1>2. \A i \in 1 .. Len(s) - 1 : Tail(s)[i] = s[i + 1]
  OBVIOUS
<1>3. Head(s) = s[1]
  OBVIOUS
<1>4. \A i, j \in 1 .. Len(s) : s[i] = s[j] => i = j
  BY <1>1 DEF IsInjective
<1>5. IsInjective(Tail(s))
  BY <1>1, <1>2, <1>4 DEF IsInjective
<1>6. ToSet(Tail(s)) \subseteq ToSet(s)
  BY <1>1, <1>2 DEF ToSet
<1>7. Head(s) \in ToSet(s)
  BY <1>1, <1>3 DEF ToSet
<1>8. Head(s) \notin ToSet(Tail(s))
  BY <1>1, <1>2, <1>3, <1>4 DEF ToSet
<1> QED
  BY <1>5, <1>6, <1>7, <1>8

LEMMA InSeq ==
    ASSUME NEW S, NEW s \in Seq(S)
    PROVE  ToSet(s) \subseteq S
  BY DEF ToSet

LEMMA InitIInv == Init => IInv
<1> SUFFICES ASSUME Init PROVE IInv
  OBVIOUS
<1> USE ConstantTypes DEF Init
<1>1. TypeOK
  BY DEF TypeOK, IsInjective
<1>2. QueueInv
  BY ToSetEmpty DEF QueueInv
<1>3. LinkInv
  BY DEF LinkInv
<1>4. AnswerInv /\ MessageInv /\ WholeInv
  BY DEF AnswerInv, MessageInv, WholeInv
<1> QED
  BY <1>1, <1>2, <1>3, <1>4 DEF IInv
-----------------------------------------------------------------------------
(* Every step keeps every part of the invariant.                           *)
LEMMA TypeStep == IInv /\ [Next]_vars => TypeOK'
<1> SUFFICES ASSUME IInv, [Next]_vars PROVE TypeOK'
  OBVIOUS
<1> USE ConstantTypes DEF IInv, TypeOK, serverVars, streams, users
<1>1. CASE Listen
  BY <1>1 DEF Listen
<1>2. CASE Accept
  <2>1. Tail(backlog) \in Seq(Clients) /\ Head(backlog) \in Clients
    BY <1>2 DEF Accept
  <2>2. IsInjective(Tail(backlog))
    BY <1>2, InjectiveTail DEF Accept
  <2> QED
    BY <1>2, <2>1, <2>2, Zenon DEF Accept
<1>3. CASE ServerRead
  BY <1>3, SMTT(30) DEF ServerRead
<1>4. CASE ServerWrite
  <2>1. backlog' = <<>> /\ link' \in [Clients -> {"none", "open", "closed", "reset"}]
    BY <1>4 DEF ServerWrite, ServerExits
  <2>2. backlog' \in Seq(Clients) /\ IsInjective(backlog')
    BY <2>1 DEF IsInjective
  <2>3. toClient' \in [Clients -> 0 .. Answer]
    BY <1>4 DEF ServerWrite
  <2> QED
    BY <1>4, <2>1, <2>2, <2>3, Zenon DEF ServerWrite, ServerExits
<1>5. CASE ServerFails
  <2>1. backlog' = <<>> /\ link' \in [Clients -> {"none", "open", "closed", "reset"}]
    BY <1>5 DEF ServerFails, ServerExits
  <2>2. backlog' \in Seq(Clients) /\ IsInjective(backlog')
    BY <2>1 DEF IsInjective
  <2>3. faults' \in 0 .. MaxFaults
    BY <1>5 DEF ServerFails, Fault
  <2> QED
    BY <1>5, <2>1, <2>2, <2>3, Zenon DEF ServerFails, ServerExits
<1>6. ASSUME NEW c \in Clients, Connect(c) PROVE TypeOK'
  <2>1. c \notin ToSet(backlog)
    BY <1>6 DEF Connect, ClientAt, QueueInv, LinkInv
  <2>2. backlog' \in Seq(Clients) /\ IsInjective(backlog')
    BY <1>6, <2>1, InjectiveAppend DEF Connect
  <2> QED
    BY <1>6, <2>2 DEF Connect, ClientAt
<1>7. ASSUME NEW c \in Clients, ConnectRefused(c) PROVE TypeOK'
  BY <1>7 DEF ConnectRefused, ClientExits, ClientAt
<1>8. ASSUME NEW c \in Clients, Enter(c) PROVE TypeOK'
  BY <1>8 DEF Enter, ClientAt
<1>9. ASSUME NEW c \in Clients, Interrupt(c) PROVE TypeOK'
  BY <1>9 DEF Interrupt, ClientExits, ClientAt
<1>10. ASSUME NEW c \in Clients, ClientWrite(c) PROVE TypeOK'
  BY <1>10 DEF ClientWrite, ClientAt
<1>11. ASSUME NEW c \in Clients, ClientWriteFails(c) PROVE TypeOK'
  BY <1>11 DEF ClientWriteFails, ClientExits, ClientAt
<1>12. ASSUME NEW c \in Clients, ClientRead(c) PROVE TypeOK'
  <2>1. toClient' \in [Clients -> 0 .. Answer] /\ printed' \in [Clients -> 0 .. Answer]
    <3>1. ASSUME NEW n \in 1 .. toClient[c], printed' = [printed EXCEPT ![c] = n],
                 toClient' = [toClient EXCEPT ![c] = toClient[c] - n]
          PROVE  toClient' \in [Clients -> 0 .. Answer] /\ printed' \in [Clients -> 0 .. Answer]
      <4>1. toClient[c] \in 0 .. Answer /\ n \in 0 .. Answer /\ toClient[c] - n \in 0 .. Answer
        OBVIOUS
      <4> QED
        BY <3>1, <4>1
    <3> QED
      BY <1>12, <3>1 DEF ClientRead
  <2> QED
    BY <1>12, <2>1 DEF ClientRead, ClientExits, ClientAt
<1>13. ASSUME NEW c \in Clients, ClientReadFails(c) PROVE TypeOK'
  BY <1>13 DEF ClientReadFails, ClientExits, ClientAt
<1>14. ASSUME NEW c \in Clients, ClientFails(c) PROVE TypeOK'
  BY <1>14 DEF ClientFails, ClientExits, ClientAt, Fault
<1>15. CASE UNCHANGED vars
  BY <1>15 DEF vars
<1> QED
  BY <1>1, <1>2, <1>3, <1>4, <1>5, <1>6, <1>7, <1>8, <1>9, <1>10, <1>11, <1>12, <1>13, <1>14, <1>15 DEF Next, Server, Client

LEMMA QueueStep == IInv /\ [Next]_vars => QueueInv'
<1> SUFFICES ASSUME IInv, [Next]_vars PROVE QueueInv'
  OBVIOUS
<1> USE ConstantTypes DEF IInv, TypeOK, QueueInv, serverVars, streams, users
<1>1. CASE Listen
  BY <1>1 DEF Listen
<1>2. CASE Accept
  <2>1. /\ ToSet(Tail(backlog)) \subseteq ToSet(backlog)
        /\ Head(backlog) \in Clients /\ Head(backlog) \notin ToSet(Tail(backlog))
    BY <1>2, InjectiveTail DEF Accept
  <2> QED
    BY <1>2, <2>1 DEF Accept
<1>3. CASE ServerRead
  BY <1>3 DEF ServerRead
<1>4. CASE ServerWrite
  BY <1>4, ToSetEmpty DEF ServerWrite, ServerExits
<1>5. CASE ServerFails
  BY <1>5, ToSetEmpty DEF ServerFails, ServerExits, Fault
<1>6. ASSUME NEW c \in Clients, Connect(c) PROVE QueueInv'
  <2>1. ToSet(backlog') = ToSet(backlog) \cup {c} /\ ToSet(backlog) \subseteq Clients
    BY <1>6, ToSetAppend, InSeq DEF Connect
  <2>2. c # accepted
    BY <1>6 DEF Connect, ClientAt, LinkInv
  <2>3. \A d \in ToSet(backlog') : link'[d] # "none" /\ d # accepted'
    BY <1>6, <2>1, <2>2 DEF Connect
  <2> QED
    BY <1>6, <2>3 DEF Connect
<1>7. ASSUME NEW c \in Clients, ConnectRefused(c) PROVE QueueInv'
  BY <1>7 DEF ConnectRefused, ClientExits, ClientAt
<1>8. ASSUME NEW c \in Clients, Enter(c) PROVE QueueInv'
  BY <1>8 DEF Enter, ClientAt
<1>9. ASSUME NEW c \in Clients, Interrupt(c) PROVE QueueInv'
  BY <1>9 DEF Interrupt, ClientExits, ClientAt
<1>10. ASSUME NEW c \in Clients, ClientWrite(c) PROVE QueueInv'
  BY <1>10 DEF ClientWrite, ClientAt
<1>11. ASSUME NEW c \in Clients, ClientWriteFails(c) PROVE QueueInv'
  BY <1>11 DEF ClientWriteFails, ClientExits, ClientAt
<1>12. ASSUME NEW c \in Clients, ClientRead(c) PROVE QueueInv'
  BY <1>12 DEF ClientRead, ClientExits, ClientAt
<1>13. ASSUME NEW c \in Clients, ClientReadFails(c) PROVE QueueInv'
  BY <1>13 DEF ClientReadFails, ClientExits, ClientAt
<1>14. ASSUME NEW c \in Clients, ClientFails(c) PROVE QueueInv'
  BY <1>14 DEF ClientFails, ClientExits, ClientAt, Fault
<1>15. CASE UNCHANGED vars
  BY <1>15 DEF vars
<1> QED
  BY <1>1, <1>2, <1>3, <1>4, <1>5, <1>6, <1>7, <1>8, <1>9, <1>10, <1>11, <1>12, <1>13, <1>14, <1>15 DEF Next, Server, Client

LEMMA LinkStep == IInv /\ [Next]_vars => LinkInv'
<1> SUFFICES ASSUME IInv, [Next]_vars PROVE LinkInv'
  OBVIOUS
<1> USE ConstantTypes DEF IInv, TypeOK, QueueInv, LinkInv, serverVars, streams, users
<1>1. CASE Listen
  BY <1>1 DEF Listen
<1>2. CASE Accept
  <2>1. Head(backlog) \in ToSet(backlog)
    BY <1>2, InjectiveTail DEF Accept
  <2> QED
    BY <1>2, <2>1 DEF Accept
<1>3. CASE ServerRead
  BY <1>3 DEF ServerRead
<1>4. CASE ServerWrite
  BY <1>4 DEF ServerWrite, ServerExits
<1>5. CASE ServerFails
  BY <1>5 DEF ServerFails, ServerExits, Fault
<1>6. ASSUME NEW c \in Clients, Connect(c) PROVE LinkInv'
  BY <1>6 DEF Connect, ClientAt
<1>7. ASSUME NEW c \in Clients, ConnectRefused(c) PROVE LinkInv'
  BY <1>7 DEF ConnectRefused, ClientExits, ClientAt
<1>8. ASSUME NEW c \in Clients, Enter(c) PROVE LinkInv'
  BY <1>8 DEF Enter, ClientAt
<1>9. ASSUME NEW c \in Clients, Interrupt(c) PROVE LinkInv'
  BY <1>9 DEF Interrupt, ClientExits, ClientAt
<1>10. ASSUME NEW c \in Clients, ClientWrite(c) PROVE LinkInv'
  BY <1>10 DEF ClientWrite, ClientAt
<1>11. ASSUME NEW c \in Clients, ClientWriteFails(c) PROVE LinkInv'
  BY <1>11 DEF ClientWriteFails, ClientExits, ClientAt
<1>12. ASSUME NEW c \in Clients, ClientRead(c) PROVE LinkInv'
  BY <1>12 DEF ClientRead, ClientExits, ClientAt
<1>13. ASSUME NEW c \in Clients, ClientReadFails(c) PROVE LinkInv'
  BY <1>13 DEF ClientReadFails, ClientExits, ClientAt
<1>14. ASSUME NEW c \in Clients, ClientFails(c) PROVE LinkInv'
  BY <1>14 DEF ClientFails, ClientExits, ClientAt, Fault
<1>15. CASE UNCHANGED vars
  BY <1>15 DEF vars
<1> QED
  BY <1>1, <1>2, <1>3, <1>4, <1>5, <1>6, <1>7, <1>8, <1>9, <1>10, <1>11, <1>12, <1>13, <1>14, <1>15 DEF Next, Server, Client

LEMMA AnswerStep == IInv /\ [Next]_vars => AnswerInv'
<1> SUFFICES ASSUME IInv, [Next]_vars PROVE AnswerInv'
  OBVIOUS
<1> USE ConstantTypes DEF IInv, TypeOK, LinkInv, AnswerInv, serverVars, streams, users
<1>1. CASE Listen
  BY <1>1 DEF Listen
<1>2. CASE Accept
  BY <1>2 DEF Accept
<1>3. CASE ServerRead
  BY <1>3 DEF ServerRead
<1>4. CASE ServerWrite
  BY <1>4 DEF ServerWrite, ServerExits
<1>5. CASE ServerFails
  BY <1>5 DEF ServerFails, ServerExits, Fault
<1>6. ASSUME NEW c \in Clients, Connect(c) PROVE AnswerInv'
  BY <1>6 DEF Connect, ClientAt
<1>7. ASSUME NEW c \in Clients, ConnectRefused(c) PROVE AnswerInv'
  BY <1>7 DEF ConnectRefused, ClientExits, ClientAt
<1>8. ASSUME NEW c \in Clients, Enter(c) PROVE AnswerInv'
  BY <1>8 DEF Enter, ClientAt
<1>9. ASSUME NEW c \in Clients, Interrupt(c) PROVE AnswerInv'
  BY <1>9 DEF Interrupt, ClientExits, ClientAt
<1>10. ASSUME NEW c \in Clients, ClientWrite(c) PROVE AnswerInv'
  BY <1>10 DEF ClientWrite, ClientAt
<1>11. ASSUME NEW c \in Clients, ClientWriteFails(c) PROVE AnswerInv'
  BY <1>11 DEF ClientWriteFails, ClientExits, ClientAt
<1>12. ASSUME NEW c \in Clients, ClientRead(c) PROVE AnswerInv'
  BY <1>12, SMTT(30) DEF ClientRead, ClientExits, ClientAt
<1>13. ASSUME NEW c \in Clients, ClientReadFails(c) PROVE AnswerInv'
  BY <1>13 DEF ClientReadFails, ClientExits, ClientAt
<1>14. ASSUME NEW c \in Clients, ClientFails(c) PROVE AnswerInv'
  BY <1>14 DEF ClientFails, ClientExits, ClientAt, Fault
<1>15. CASE UNCHANGED vars
  BY <1>15 DEF vars
<1> QED
  BY <1>1, <1>2, <1>3, <1>4, <1>5, <1>6, <1>7, <1>8, <1>9, <1>10, <1>11, <1>12, <1>13, <1>14, <1>15 DEF Next, Server, Client

LEMMA MessageStep == IInv /\ [Next]_vars => MessageInv'
<1> SUFFICES ASSUME IInv, [Next]_vars PROVE MessageInv'
  OBVIOUS
<1> USE ConstantTypes DEF IInv, TypeOK, QueueInv, LinkInv, MessageInv, NotReadFrom, serverVars, streams, users
<1>1. CASE Listen
  BY <1>1 DEF Listen
<1>2. CASE Accept
  BY <1>2, SMTT(30) DEF Accept
<1>3. CASE ServerRead
  BY <1>3 DEF ServerRead
<1>4. CASE ServerWrite
  BY <1>4 DEF ServerWrite, ServerExits
<1>5. CASE ServerFails
  BY <1>5 DEF ServerFails, ServerExits, Fault
<1>6. ASSUME NEW c \in Clients, Connect(c) PROVE MessageInv'
  BY <1>6 DEF Connect, ClientAt
<1>7. ASSUME NEW c \in Clients, ConnectRefused(c) PROVE MessageInv'
  BY <1>7 DEF ConnectRefused, ClientExits, ClientAt
<1>8. ASSUME NEW c \in Clients, Enter(c) PROVE MessageInv'
  BY <1>8, SMTT(30) DEF Enter, ClientAt
<1>9. ASSUME NEW c \in Clients, Interrupt(c) PROVE MessageInv'
  BY <1>9 DEF Interrupt, ClientExits, ClientAt
<1>10. ASSUME NEW c \in Clients, ClientWrite(c) PROVE MessageInv'
  BY <1>10 DEF ClientWrite, ClientAt
<1>11. ASSUME NEW c \in Clients, ClientWriteFails(c) PROVE MessageInv'
  BY <1>11 DEF ClientWriteFails, ClientExits, ClientAt
<1>12. ASSUME NEW c \in Clients, ClientRead(c) PROVE MessageInv'
  BY <1>12 DEF ClientRead, ClientExits, ClientAt
<1>13. ASSUME NEW c \in Clients, ClientReadFails(c) PROVE MessageInv'
  BY <1>13 DEF ClientReadFails, ClientExits, ClientAt
<1>14. ASSUME NEW c \in Clients, ClientFails(c) PROVE MessageInv'
  BY <1>14 DEF ClientFails, ClientExits, ClientAt, Fault
<1>15. CASE UNCHANGED vars
  BY <1>15 DEF vars
<1> QED
  BY <1>1, <1>2, <1>3, <1>4, <1>5, <1>6, <1>7, <1>8, <1>9, <1>10, <1>11, <1>12, <1>13, <1>14, <1>15 DEF Next, Server, Client

LEMMA WholeStep == IInv /\ [Next]_vars => WholeInv'
<1> SUFFICES ASSUME IInv, [Next]_vars PROVE WholeInv'
  OBVIOUS
<1> USE ConstantTypes DEF IInv, TypeOK, QueueInv, LinkInv, AnswerInv, MessageInv, NotReadFrom, WholeInv, serverVars, streams, users
<1>1. CASE Listen
  BY <1>1 DEF Listen
<1>2. CASE Accept
  BY <1>2 DEF Accept
<1>3. CASE ServerRead
  BY <1>3 DEF ServerRead
<1>4. CASE ServerWrite
  BY <1>4 DEF ServerWrite, ServerExits
<1>5. CASE ServerFails
  BY <1>5 DEF ServerFails, ServerExits, Fault
<1>6. ASSUME NEW c \in Clients, Connect(c) PROVE WholeInv'
  BY <1>6 DEF Connect, ClientAt
<1>7. ASSUME NEW c \in Clients, ConnectRefused(c) PROVE WholeInv'
  BY <1>7 DEF ConnectRefused, ClientExits, ClientAt
<1>8. ASSUME NEW c \in Clients, Enter(c) PROVE WholeInv'
  BY <1>8 DEF Enter, ClientAt
<1>9. ASSUME NEW c \in Clients, Interrupt(c) PROVE WholeInv'
  BY <1>9 DEF Interrupt, ClientExits, ClientAt
<1>10. ASSUME NEW c \in Clients, ClientWrite(c) PROVE WholeInv'
  BY <1>10 DEF ClientWrite, ClientAt
<1>11. ASSUME NEW c \in Clients, ClientWriteFails(c) PROVE WholeInv'
  BY <1>11 DEF ClientWriteFails, ClientExits, ClientAt
<1>12. ASSUME NEW c \in Clients, ClientRead(c) PROVE WholeInv'
  <2>1. \A d \in Clients : d # c => /\ printed'[d] = printed[d] /\ toClient'[d] = toClient[d]
                                  /\ client'[d] = client[d] /\ link'[d] = link[d]
    BY <1>12 DEF ClientRead, ClientExits, ClientAt
  <2>2. client[c] = "read" /\ client'[c] = "exited"
    BY <1>12 DEF ClientRead, ClientExits, ClientAt
  <2>3. toClient[c] > 0 => printed'[c] > 0
    BY <1>12 DEF ClientRead
  <2>4. server # "exited" => FALSE
    BY <1>12, <2>2 DEF ClientRead
  <2>5. server' = server /\ accepted' = accepted /\ received' = received
        /\ faults' = faults /\ message' = message /\ toServer' = toServer
    BY <1>12 DEF ClientRead
  <2> QED
    BY <2>1, <2>2, <2>3, <2>4, <2>5, SMTT(30)
<1>13. ASSUME NEW c \in Clients, ClientReadFails(c) PROVE WholeInv'
  BY <1>13 DEF ClientReadFails, ClientExits, ClientAt
<1>14. ASSUME NEW c \in Clients, ClientFails(c) PROVE WholeInv'
  BY <1>14 DEF ClientFails, ClientExits, ClientAt, Fault
<1>15. CASE UNCHANGED vars
  BY <1>15 DEF vars
<1> QED
  BY <1>1, <1>2, <1>3, <1>4, <1>5, <1>6, <1>7, <1>8, <1>9, <1>10, <1>11, <1>12, <1>13, <1>14, <1>15 DEF Next, Server, Client

THEOREM Inductive == Spec => []IInv
<1>1. IInv /\ [Next]_vars => IInv'
  BY TypeStep, QueueStep, LinkStep, AnswerStep, MessageStep, WholeStep DEF IInv
<1> QED
  BY <1>1, InitIInv, PTL DEF Spec

-----------------------------------------------------------------------------
(* Whatever the clients do, the backlog holds each of them once, the       *)
(* server reads only from a connection it accepted, and no client prints   *)
(* more than the answer.                                                   *)
THEOREM TypeCorrect == Spec => []TypeOK
<1>1. IInv => TypeOK
  BY DEF IInv
<1> QED
  BY <1>1, Inductive, PTL

(* However many clients there are and whatever fails, an answer is printed *)
(* only by the client from which the server had read something.            *)
THEOREM AnswersFollowMessages == Spec => []AnswerMeansReceived
<1>1. IInv => AnswerMeansReceived
  BY DEF IInv, AnswerInv, AnswerMeansReceived
<1> QED
  BY <1>1, Inductive, PTL

(* Whatever the lengths of the messages, both sides wait for each other    *)
(* only after an empty one.                                                *)
THEOREM OnlyEmptyMessagesBlock == Spec => []BothWaitOnlyIfEmpty
<1>1. IInv => BothWaitOnlyIfEmpty
  BY DEF IInv, TypeOK, MessageInv, NotReadFrom, BothWaitOnlyIfEmpty, BothWait
<1> QED
  BY <1>1, Inductive, PTL

(* However many clients wait behind it, the accepted one prints an answer  *)
(* if no call failed and its message was read at once.                     *)
THEOREM WholeMessagesAnswered == Spec => []WholeMessageAnswered
<1>1. IInv => WholeMessageAnswered
  BY DEF IInv, WholeInv, WholeMessageAnswered
<1> QED
  BY <1>1, Inductive, PTL

-----------------------------------------------------------------------------
(* Timers.                                                                 *)
Pending == waiting \/ queued

(* How often the handler was called, where main is and what is pending say *)
(* the same: a wait follows every call but the last.                       *)
CallsInv ==
    /\ at = "arm" => ~Pending /\ calls = 0 /\ count = 0 /\ expiry = Delay
    /\ at = "done" => ~Pending
    /\ variant = "sync" => ~Pending /\ calls = 0
    /\ variant = "async" /\ at # "arm" => calls = (IF Pending THEN 0 ELSE 1)
    /\ variant = "bind" /\ at # "arm" =>
          IF Pending THEN calls = count ELSE count = Limit /\ calls = Limit + 1

TimersInv == TimersTypeOK /\ CallsInv /\ NoDrift

LEMMA OnePeriodMore ==
    ASSUME NEW n \in Nat, NEW p \in Nat
    PROVE  n * p + p = (n + 1) * p
  OBVIOUS

LEMMA NoPeriod ==
    ASSUME NEW p \in Nat
    PROVE  0 * p = 0
  OBVIOUS

LEMMA TimesAreNat == Delay \in Nat /\ Period \in Nat /\ Limit \in Nat /\ MaxTime \in Nat
  BY TimesAssumption

LEMMA TimersInitInv == TimersInit => TimersInv
<1> SUFFICES ASSUME TimersInit PROVE TimersInv
  OBVIOUS
<1>1. now \in 0 .. MaxTime /\ expiry \in Nat /\ count \in 0 .. Limit /\ calls \in 0 .. Limit + 1
  BY TimesAreNat DEF TimersInit
<1>2. TimersTypeOK
  BY <1>1, Zenon DEF TimersInit, TimersTypeOK
<1>3. CallsInv
  BY DEF TimersInit, CallsInv, Pending
<1>4. NoDrift
  BY DEF TimersInit, NoDrift
<1> QED
  BY <1>2, <1>3, <1>4 DEF TimersInv

LEMMA TimersStepInv == TimersInv /\ [TimersNext]_timersVars => TimersInv'
<1> SUFFICES ASSUME TimersInv, [TimersNext]_timersVars PROVE TimersInv'
  OBVIOUS
<1> USE TimesAreNat DEF TimersInv, TimersTypeOK, CallsInv, Pending
<1>1. CASE Tick
  BY <1>1 DEF Tick, NoDrift
<1>2. CASE Arm
  BY <1>2, NoPeriod DEF Arm, NoDrift
<1>3. CASE Wait
  BY <1>3 DEF Wait, NoDrift
<1>4. CASE Expire
  BY <1>4 DEF Expire, NoDrift
<1>5. CASE PrintAgain
  <2>1. TimersTypeOK' /\ CallsInv'
    <3>1. count < Limit /\ count \in 0 .. Limit /\ calls = count /\ variant = "bind"
      BY <1>5 DEF PrintAgain, Called, Rearms
    <3>2. expiry' \in Nat
      BY <1>5 DEF PrintAgain
    <3>3. count' \in 0 .. Limit /\ calls' = count'
      BY <1>5, <3>1 DEF PrintAgain, Called
    <3>4. calls' \in 0 .. Limit + 1
      BY <3>3, TimesAreNat
    <3>5. TimersTypeOK'
      <4>1. waiting' = TRUE /\ queued' = FALSE /\ UNCHANGED <<variant, now, at>>
        BY <1>5 DEF PrintAgain, Called
      <4> QED
        BY <3>2, <3>3, <3>4, <4>1, Zenon
    <3> QED
      BY <1>5, <3>1, <3>3, <3>5 DEF PrintAgain, Called
  <2>2. expiry' = Delay + calls * Period + Period
    BY <1>5 DEF PrintAgain, Called, NoDrift
  <2>3. calls' = calls + 1
    BY <1>5 DEF PrintAgain, Called
  <2>4. calls * Period \in Nat /\ calls * Period + Period = calls' * Period
    BY <2>3, OnePeriodMore
  <2>5. NoDrift'
    BY <2>2, <2>4 DEF NoDrift
  <2> QED
    BY <2>1, <2>5
<1>6. CASE PrintLast
  <2>1. ~Pending' /\ UNCHANGED <<variant, now, expiry, at, count>> /\ calls' = calls + 1
    BY <1>6 DEF PrintLast, Called
  <2>2. at = "run" /\ Pending
    BY <1>6 DEF PrintLast, Called
  <2>3. variant = "bind" => calls = count /\ count = Limit
    BY <1>6, <2>2 DEF PrintLast, Rearms
  <2>4. calls' \in 0 .. Limit + 1
    BY <2>1, <2>2, <2>3, TimesAreNat
  <2>5. waiting' = FALSE /\ queued' = FALSE
    BY <1>6 DEF PrintLast, Called
  <2>6. TimersTypeOK'
    BY <2>1, <2>4, <2>5, Zenon
  <2>7. CallsInv'
    BY <2>1, <2>2, <2>3, <2>5
  <2> QED
    BY <2>1, <2>6, <2>7 DEF NoDrift
<1>7. CASE RunReturns
  BY <1>7 DEF RunReturns, NoDrift
<1>8. CASE UNCHANGED timersVars
  BY <1>8 DEF timersVars, NoDrift
<1> QED
  BY <1>1, <1>2, <1>3, <1>4, <1>5, <1>6, <1>7, <1>8 DEF TimersNext, Main, Rest

THEOREM TimersInductive == TimersSpec => []TimersInv
  BY TimersInitInv, TimersStepInv, PTL DEF TimersSpec

-----------------------------------------------------------------------------
(* Whatever the limit, the counters stay within it: the handler is not     *)
(* called once too often.                                                  *)
THEOREM TimersTypeCorrect == TimersSpec => []TimersTypeOK
<1>1. TimersInv => TimersTypeOK
  BY DEF TimersInv
<1> QED
  BY <1>1, TimersInductive, PTL

(* Whatever the period and however late the calls, the schedule is that of *)
(* the first wait.                                                         *)
THEOREM ScheduleKept == TimersSpec => []NoDrift
<1>1. TimersInv => NoDrift
  BY DEF TimersInv
<1> QED
  BY <1>1, TimersInductive, PTL

(* Whatever the limit, main goes on only after the last call of the        *)
(* handler, and there is none later.                                       *)
THEOREM NothingCalledAfterRun == TimersSpec => []AllCallsMade
<1>1. TimersInv => AllCallsMade
  BY TimesAreNat DEF TimersInv, TimersTypeOK, CallsInv, Pending, AllCallsMade
<1> QED
  BY <1>1, TimersInductive, PTL
-----------------------------------------------------------------------------
(* Every set of numbers has a least one; with it, facts about what calls   *)
(* itself are proved without induction over an operator.                   *)
LEMMA LeastExists ==
    ASSUME NEW T, T \subseteq Nat, T # {}
    PROVE  \E n \in T : \A k \in T : n <= k
<1>1. PICK n \in T : \A k \in T : ~(<<k, n>> \in OpToRel(<, Nat))
  BY WFMin, NatLessThanWellFounded
<1>2. \A k \in T : ~(k < n)
  BY <1>1 DEF OpToRel
<1>3. n \in Nat /\ \A k \in T : k \in Nat
  OBVIOUS
<1> QED
  BY <1>2, <1>3

(* Induction over a measure, for sets: the least number outside of S has   *)
(* all smaller ones in it.                                                 *)
LEMMA MeasureInduction ==
    ASSUME NEW S, \A n \in Nat : (\A k \in Nat : k < n => k \in S) => n \in S
    PROVE  Nat \subseteq S
<1> DEFINE T == Nat \ S
<1> SUFFICES ASSUME T # {} PROVE FALSE
  OBVIOUS
<1>1. PICK n \in T : \A k \in T : n <= k
  BY LeastExists
<1>2. \A k \in Nat : k < n => k \in S
  BY <1>1
<1> QED
  BY <1>2

-----------------------------------------------------------------------------
(* A function is determined by an equation that computes it at p from what *)
(* it is where the measure m is smaller.                                   *)
Contracts(Phi, D, R, m) ==
    \A F, G \in [D -> R], p \in D :
        (\A q \in D : m[q] < m[p] => F[q] = G[q]) => Phi[F][p] = Phi[G][p]

Recursion(Phi, D, R, m) ==
    /\ R # {} /\ m \in [D -> Nat] /\ Phi \in [[D -> R] -> [D -> R]]
    /\ Contracts(Phi, D, R, m)

(* Such a function exists: for every n some function solves the equation   *)
(* where the measure is less than n, and where two of them do they agree.  *)
LEMMA RecursionExists ==
    ASSUME NEW D, NEW R, NEW m, NEW Phi, Recursion(Phi, D, R, m)
    PROVE  \E F \in [D -> R] : F = Phi[F]
<1> USE DEF Recursion
<1>0. PICK r \in R : TRUE
  OBVIOUS
<1> DEFINE Solves(n, F) == \A p \in D : m[p] < n => F[p] = Phi[F][p]
<1> HIDE DEF Solves
<1>1. ASSUME NEW n \in Nat PROVE \E F \in [D -> R] : Solves(n, F)
  <2> DEFINE S == {k \in Nat : \E F \in [D -> R] : Solves(k, F)}
  <2>1. ASSUME NEW k \in Nat, \A l \in Nat : l < k => l \in S PROVE k \in S
    <3>1. CASE k = 0
      <4>1. [p \in D |-> r] \in [D -> R]
        OBVIOUS
      <4>2. \A p \in D : ~(m[p] < k)
        BY <3>1
      <4> QED
        BY <4>1, <4>2 DEF Solves
    <3>2. CASE k # 0
      <4>1. k - 1 \in Nat /\ k - 1 < k
        BY <3>2
      <4>2. PICK F \in [D -> R] : Solves(k - 1, F)
        BY <2>1, <4>1
      <4>3. Phi[F] \in [D -> R]
        OBVIOUS
      <4>4. ASSUME NEW p \in D, m[p] < k PROVE Phi[F][p] = Phi[Phi[F]][p]
        <5>1. ASSUME NEW q \in D, m[q] < m[p] PROVE F[q] = Phi[F][q]
          <6>1. m[q] < k - 1
            BY <4>4, <5>1
          <6> QED
            BY <4>2, <6>1 DEF Solves
        <5> QED
          BY <4>3, <5>1 DEF Contracts
      <4>5. Solves(k, Phi[F])
        BY <4>4 DEF Solves
      <4> QED
        BY <4>3, <4>5
    <3> QED
      BY <3>1, <3>2
  <2>2. Nat \subseteq S
    <3> HIDE DEF S
    <3> QED
      BY <2>1, MeasureInduction
  <2> QED
    BY <2>2
<1>2. ASSUME NEW F \in [D -> R], NEW G \in [D -> R], NEW n \in Nat, NEW l \in Nat,
             Solves(n, F), Solves(l, G), NEW p \in D, m[p] < n, m[p] < l
      PROVE  F[p] = G[p]
  <2> DEFINE S == {k \in Nat : \A q \in D :
                      m[q] = k /\ k < n /\ k < l => F[q] = G[q]}
  <2>1. ASSUME NEW k \in Nat, \A j \in Nat : j < k => j \in S PROVE k \in S
    <3> SUFFICES ASSUME NEW q \in D, m[q] = k, k < n, k < l PROVE F[q] = G[q]
      OBVIOUS
    <3>1. ASSUME NEW s \in D, m[s] < m[q] PROVE F[s] = G[s]
      <4>1. m[s] \in S /\ m[s] < n /\ m[s] < l
        BY <2>1, <3>1
      <4> QED
        BY <4>1
    <3>2. Phi[F][q] = Phi[G][q]
      BY <3>1 DEF Contracts
    <3>3. F[q] = Phi[F][q] /\ G[q] = Phi[G][q]
      BY <1>2 DEF Solves
    <3> QED
      BY <3>2, <3>3
  <2>2. Nat \subseteq S
    <3> HIDE DEF S
    <3> QED
      BY <2>1, MeasureInduction
  <2> QED
    BY <1>2, <2>2
<1> DEFINE At(n) == CHOOSE F \in [D -> R] : Solves(n, F)
<1>3. ASSUME NEW n \in Nat PROVE At(n) \in [D -> R] /\ Solves(n, At(n))
  BY <1>1
<1> HIDE DEF At
<1> DEFINE H == [p \in D |-> At(m[p] + 1)[p]]
<1>4. \A p \in D : H[p] = At(m[p] + 1)[p]
  OBVIOUS
<1>5. H \in [D -> R]
  BY <1>3
<1> HIDE DEF H
<1>6. ASSUME NEW p \in D PROVE H[p] = Phi[H][p]
  <2> DEFINE F == At(m[p] + 1)
  <2>1. F \in [D -> R] /\ Solves(m[p] + 1, F)
    BY <1>3
  <2>2. H[p] = F[p]
    BY <1>4
  <2> HIDE DEF F
  <2>3. F[p] = Phi[F][p]
    BY <2>1 DEF Solves
  <2>4. ASSUME NEW q \in D, m[q] < m[p] PROVE F[q] = H[q]
    <3> DEFINE G == At(m[q] + 1)
    <3>1. G \in [D -> R] /\ Solves(m[q] + 1, G)
      BY <1>3
    <3>2. H[q] = G[q]
      BY <1>4
    <3> HIDE DEF G
    <3>3. m[q] < m[q] + 1 /\ m[q] < m[p] + 1 /\ m[q] + 1 \in Nat /\ m[p] + 1 \in Nat
      BY <2>4
    <3>4. F[q] = G[q]
      BY <1>2, <2>1, <3>1, <3>3
    <3> QED
      BY <3>2, <3>4
  <2>5. Phi[F][p] = Phi[H][p]
    BY <1>5, <2>1, <2>4 DEF Contracts
  <2> QED
    BY <2>2, <2>3, <2>5
<1>7. Phi[H] \in [D -> R]
  BY <1>5
<1>8. H = Phi[H]
  BY <1>5, <1>6, <1>7
<1> QED
  BY <1>5, <1>8

-----------------------------------------------------------------------------
(* w has the entries of v in some order.                                   *)
Rearranged(v, w) ==
    \E t \in [DOMAIN v -> DOMAIN v] :
        /\ \A i, j \in DOMAIN v : t[i] = t[j] => i = j
        /\ \A i \in DOMAIN v : w[i] = v[t[i]]

Indices(n) == 0 .. n - 1
Arrays(n) == [Indices(n) -> Int]

LEMMA ArraySize ==
    ASSUME NEW n \in Nat, NEW v \in Arrays(n)
    PROVE  Size(v) = n /\ DOMAIN v = Indices(n) /\ IsFiniteSet(DOMAIN v)
  BY FS_Interval, n - 1 \in Int DEF Size, Arrays, Indices

LEMMA RearrangedRefl == ASSUME NEW v PROVE Rearranged(v, v)
<1> DEFINE t == [i \in DOMAIN v |-> i]
<1>1. /\ t \in [DOMAIN v -> DOMAIN v]
      /\ \A i, j \in DOMAIN v : t[i] = t[j] => i = j
      /\ \A i \in DOMAIN v : v[i] = v[t[i]]
  OBVIOUS
<1> QED
  BY <1>1 DEF Rearranged

LEMMA RearrangedTrans ==
    ASSUME NEW n \in Nat, NEW u \in Arrays(n), NEW v \in Arrays(n), NEW w,
           Rearranged(u, v), Rearranged(v, w)
    PROVE  Rearranged(u, w)
<1> DEFINE D == Indices(n)
<1>1. DOMAIN u = D /\ DOMAIN v = D
  BY DEF Arrays
<1>2. PICK s \in [D -> D] : /\ \A i, j \in D : s[i] = s[j] => i = j
                            /\ \A i \in D : v[i] = u[s[i]]
  BY <1>1 DEF Rearranged
<1>3. PICK t \in [D -> D] : /\ \A i, j \in D : t[i] = t[j] => i = j
                            /\ \A i \in D : w[i] = v[t[i]]
  BY <1>1 DEF Rearranged
<1> HIDE DEF D
<1> DEFINE r == [i \in D |-> s[t[i]]]
<1>4. r \in [D -> D] /\ \A i \in D : r[i] = s[t[i]]
  BY <1>2, <1>3
<1> HIDE DEF r
<1>5. \A i, j \in D : r[i] = r[j] => i = j
  BY <1>2, <1>3, <1>4
<1>6. \A i \in D : w[i] = u[r[i]]
  BY <1>2, <1>3, <1>4
<1>7. /\ r \in [DOMAIN u -> DOMAIN u]
      /\ \A i, j \in DOMAIN u : r[i] = r[j] => i = j
      /\ \A i \in DOMAIN u : w[i] = u[r[i]]
  BY <1>1, <1>4, <1>5, <1>6
<1> QED
  BY <1>7, Zenon DEF Rearranged

(* Exchanging two entries rearranges.                                      *)
LEMMA RaisedRearranged ==
    ASSUME NEW n \in Nat, NEW v \in Arrays(n), NEW i \in Indices(n), NEW j \in Indices(n)
    PROVE  /\ Raised(v, i, j) \in Arrays(n)
           /\ Rearranged(v, Raised(v, i, j))
           /\ \A k \in Indices(n) : k # i /\ k # j => Raised(v, i, j)[k] = v[k]
           /\ i # j => /\ Raised(v, i, j)[i] = (IF v[j] > v[i] THEN v[j] ELSE v[i])
                       /\ Raised(v, i, j)[j] = (IF v[j] > v[i] THEN v[i] ELSE v[j])
<1> DEFINE D == Indices(n)
           w == [v EXCEPT ![i] = v[j], ![j] = v[i]]
<1>1. v \in [D -> Int] /\ DOMAIN v = D
  BY DEF Arrays
<1>2. Raised(v, i, j) = IF v[j] > v[i] THEN w ELSE v
  BY DEF Raised
<1>3. w \in [D -> Int] /\ w[j] = v[i] /\ (i # j => w[i] = v[j])
      /\ \A k \in D : k # i /\ k # j => w[k] = v[k]
  BY <1>1
<1>4. Rearranged(v, w)
  <2> DEFINE t == [k \in D |-> IF k = j THEN i ELSE IF k = i THEN j ELSE k]
  <2>1. /\ t \in [D -> D]
        /\ \A k, l \in D : t[k] = t[l] => k = l
        /\ \A k \in D : w[k] = v[t[k]]
    BY <1>3
  <2> QED
    BY <1>1, <2>1 DEF Rearranged
<1> QED
  BY <1>1, <1>2, <1>3, <1>4, RearrangedRefl DEF Arrays

(* What the properties call the same elements.                             *)
LEMMA RearrangedSame ==
    ASSUME NEW n \in Nat, NEW v \in Arrays(n), NEW w \in Arrays(n), Rearranged(v, w)
    PROVE  SameElements(v, w)
<1> DEFINE D == Indices(n)
<1>1. DOMAIN v = D /\ DOMAIN w = D /\ IsFiniteSet(D)
  BY ArraySize
<1>2. PICK t \in [D -> D] : /\ \A i, j \in D : t[i] = t[j] => i = j
                            /\ \A i \in D : w[i] = v[t[i]]
  BY <1>1 DEF Rearranged
<1> HIDE DEF D
<1>3. \A j \in D : \E i \in D : t[i] = j
  <2>1. t \in Injection(D, D)
    BY <1>2 DEF Injection, IsInjective
  <2>2. t \in Surjection(D, D)
    BY <1>1, <2>1, FS_Injection
  <2> QED
    BY <2>2 DEF Surjection
<1>4. ASSUME NEW j \in D
      PROVE  Cardinality({i \in D : v[i] = v[j]}) = Cardinality({i \in D : w[i] = v[j]})
  <2> DEFINE A == {i \in D : v[i] = v[j]}
             B == {i \in D : w[i] = v[j]}
             f == [i \in B |-> t[i]]
  <2>1. f \in [B -> A] /\ \A x, y \in B : f[x] = f[y] => x = y
    BY <1>2
  <2>2. \A y \in A : \E x \in B : f[x] = y
    <3> SUFFICES ASSUME NEW y \in A PROVE \E x \in B : f[x] = y
      OBVIOUS
    <3>1. PICK x \in D : t[x] = y
      BY <1>3
    <3>2. w[x] = v[y]
      BY <1>2, <3>1
    <3> QED
      BY <3>1, <3>2
  <2>3. f \in Bijection(B, A)
    BY <2>1, <2>2 DEF Bijection, Injection, Surjection, IsInjective
  <2>4. ExistsBijection(B, A)
    BY <2>3 DEF ExistsBijection
  <2>5. IsFiniteSet(B)
    BY <1>1, FS_Subset
  <2> HIDE DEF A, B
  <2> QED
    BY <2>4, <2>5, FS_Bijection DEF A, B
<1> QED
  BY <1>1, <1>4 DEF SameElements

-----------------------------------------------------------------------------
(* The indices of the subtree under t.                                     *)
Below(t) == {x \in Nat : \A S \in SUBSET Nat :
                t \in S /\ (\A y \in S : Left(y) \in S /\ Right(y) \in S) => x \in S}

Closed(S) == \A y \in S : Left(y) \in S /\ Right(y) \in S

LEMMA Children ==
    ASSUME NEW t \in Nat
    PROVE  /\ Left(t) \in Nat /\ Right(t) \in Nat
           /\ Parent(Left(t)) = t /\ Parent(Right(t)) = t
           /\ Left(t) > t /\ Right(t) = Left(t) + 1
           /\ Parent(t) \in Nat
           /\ t # 0 => Parent(t) < t /\ (t = Left(Parent(t)) \/ t = Right(Parent(t)))
  BY DEF Left, Right, Parent

(* Below(t) is the least set with t that is closed under both children.    *)
LEMMA BelowIn ==
    ASSUME NEW t \in Nat, NEW S \in SUBSET Nat, t \in S, Closed(S)
    PROVE  Below(t) \subseteq S
  BY DEF Below, Closed

LEMMA BelowClosed ==
    ASSUME NEW t \in Nat
    PROVE  t \in Below(t) /\ Below(t) \subseteq Nat /\ Closed(Below(t))
  BY Children DEF Below, Closed

LEMMA BelowChild ==
    ASSUME NEW t \in Nat
    PROVE  /\ Below(Left(t)) \subseteq Below(t) /\ Below(Right(t)) \subseteq Below(t)
           /\ Below(t) \subseteq {t} \cup Below(Left(t)) \cup Below(Right(t))
<1>1. Left(t) \in Below(t) /\ Right(t) \in Below(t)
  BY BelowClosed DEF Closed
<1>2. Below(Left(t)) \subseteq Below(t) /\ Below(Right(t)) \subseteq Below(t)
  BY <1>1, BelowClosed, BelowIn, Children
<1> DEFINE S == {t} \cup Below(Left(t)) \cup Below(Right(t))
<1>3. S \in SUBSET Nat /\ t \in S
  BY BelowClosed, Children
<1>4. Closed(S)
  <2>1. Closed(Below(Left(t))) /\ Left(t) \in Below(Left(t))
        /\ Closed(Below(Right(t))) /\ Right(t) \in Below(Right(t))
    BY BelowClosed, Children
  <2> QED
    BY <2>1 DEF Closed
<1>5. Below(t) \subseteq S
  <2> HIDE DEF S
  <2> QED
    BY <1>3, <1>4, BelowIn
<1> QED
  BY <1>2, <1>5

LEMMA BelowGreater == ASSUME NEW t \in Nat, NEW x \in Below(t) PROVE x \in Nat /\ x >= t
<1> DEFINE S == {y \in Nat : y >= t}
<1>1. S \in SUBSET Nat /\ t \in S /\ Closed(S)
  BY DEF Closed, Left, Right
<1>2. Below(t) \subseteq S
  <2> HIDE DEF S
  <2> QED
    BY <1>1, BelowIn
<1> QED
  BY <1>2

LEMMA BelowParent ==
    ASSUME NEW t \in Nat, NEW x \in Below(t), x # t
    PROVE  x # 0 /\ Parent(x) \in Below(t)
<1> DEFINE S == {t} \cup {y \in Nat \ {0} : Parent(y) \in Below(t)}
<1>1. S \in SUBSET Nat /\ t \in S
  OBVIOUS
<1>2. Closed(S)
  <2>1. ASSUME NEW y \in S PROVE y \in Below(t) /\ y \in Nat
    <3>1. CASE y = t
      BY <3>1, BelowClosed
    <3>2. CASE y # t
      <4>1. y \in Nat /\ y # 0 /\ Parent(y) \in Below(t)
        BY <3>2
      <4>2. Left(Parent(y)) \in Below(t) /\ Right(Parent(y)) \in Below(t)
        BY <4>1, BelowClosed DEF Closed
      <4> QED
        BY <4>1, <4>2, Children
    <3> QED
      BY <3>1, <3>2
  <2>2. ASSUME NEW y \in S PROVE Left(y) \in S /\ Right(y) \in S
    <3>1. /\ Left(y) \in Nat \ {0} /\ Parent(Left(y)) = y
          /\ Right(y) \in Nat \ {0} /\ Parent(Right(y)) = y
      BY <2>1, Children
    <3> QED
      BY <2>1, <3>1
  <2> QED
    BY <2>2 DEF Closed
<1>3. Below(t) \subseteq S
  <2> HIDE DEF S
  <2> QED
    BY <1>1, <1>2, BelowIn
<1> QED
  BY <1>3

(* The subtrees under the two children have nothing in common.             *)
LEMMA BelowDisjoint ==
    ASSUME NEW t \in Nat
    PROVE  /\ Below(Left(t)) \cap Below(Right(t)) = {}
           /\ t \notin Below(Left(t)) /\ t \notin Below(Right(t))
<1> DEFINE l == Left(t)
           r == Right(t)
           S == {x \in Nat : ~(x \in Below(l) /\ x \in Below(r))}
<1>1. /\ l \in Nat /\ r \in Nat /\ l # r /\ l > t /\ r > l
      /\ Parent(l) = t /\ Parent(r) = t
  BY Children
<1> HIDE DEF l, r
<1>2. t \notin Below(l) /\ t \notin Below(r)
  BY <1>1, BelowGreater
<1>3. ASSUME NEW x \in Nat, \A y \in Nat : y < x => y \in S PROVE x \in S
  <2> SUFFICES ASSUME x \in Below(l), x \in Below(r) PROVE FALSE
    OBVIOUS
  <2>1. x # l
    BY <1>1, BelowGreater
  <2>2. x # 0 /\ Parent(x) \in Below(l)
    BY <1>1, <2>1, BelowParent
  <2>3. x # r
    BY <1>1, <1>2, <2>2
  <2>4. Parent(x) \in Below(r)
    BY <1>1, <2>3, BelowParent
  <2>5. Parent(x) \in Nat /\ Parent(x) < x
    BY <2>2, Children
  <2> QED
    BY <1>3, <2>2, <2>4, <2>5
<1>4. Nat \subseteq S
  <2> HIDE DEF S
  <2> QED
    BY <1>3, MeasureInduction
<1> QED
  BY <1>1, <1>2, <1>4, BelowGreater DEF l, r

-----------------------------------------------------------------------------
(* The subtree under t is a heap.                                          *)
SubtreeHeap(v, n, t) ==
    \A x \in Indices(n) : x \in Below(t) /\ x # t => v[x] <= v[Parent(x)]

LEMMA RootIsGreatest ==
    ASSUME NEW n \in Nat, NEW v \in Arrays(n), NEW t \in Indices(n), SubtreeHeap(v, n, t)
    PROVE  \A x \in Indices(n) : x \in Below(t) => v[x] <= v[t]
<1> DEFINE S == {x \in Nat : x \in Indices(n) /\ x \in Below(t) => v[x] <= v[t]}
<1>1. v \in [Indices(n) -> Int] /\ Indices(n) = 0 .. n - 1
  BY DEF Arrays, Indices
<1>2. ASSUME NEW x \in Nat, \A y \in Nat : y < x => y \in S PROVE x \in S
  <2> SUFFICES ASSUME x \in Indices(n), x \in Below(t), x # t PROVE v[x] <= v[t]
    BY <1>1
  <2>1. x # 0 /\ Parent(x) \in Below(t)
    BY BelowParent, <1>1
  <2>2. Parent(x) \in Nat /\ Parent(x) < x /\ Parent(x) \in Indices(n)
    BY <1>1, <2>1, Children
  <2>3. v[Parent(x)] <= v[t]
    BY <1>2, <2>1, <2>2
  <2>4. v[x] <= v[Parent(x)]
    BY DEF SubtreeHeap
  <2> QED
    BY <1>1, <2>2, <2>3, <2>4
<1>3. Nat \subseteq S
  <2> HIDE DEF S
  <2> QED
    BY <1>2, MeasureInduction
<1> QED
  BY <1>1, <1>3

(* What Heapify(v, t) returns, w, has to do with v.                        *)
Repaired(v, w, n, t) ==
    /\ w \in Arrays(n) /\ Rearranged(v, w)
    /\ \A x \in Indices(n) : x \notin Below(t) => w[x] = v[x]
    /\ \A x \in Indices(n) : x \in Below(t) =>
           \E y \in Indices(n) : y \in Below(t) /\ w[x] = v[y]
    /\ SubtreeHeap(v, n, Left(t)) /\ SubtreeHeap(v, n, Right(t)) => SubtreeHeap(w, n, t)

(* Without children there is nothing to repair, and an only child has none *)
(* of its own.                                                             *)
LEMMA RepairedLeaf ==
    ASSUME NEW n \in Nat, NEW v \in Arrays(n), NEW t \in Nat, Left(t) >= n
    PROVE  Repaired(v, v, n, t)
<1>1. ASSUME NEW x \in Indices(n), x \in Below(t) PROVE x = t
  <2> SUFFICES ASSUME x # t PROVE FALSE
    OBVIOUS
  <2>1. x \in Below(Left(t)) \/ x \in Below(Right(t))
    BY <1>1, BelowChild
  <2>2. x >= Left(t)
    BY <2>1, BelowGreater, Children
  <2> QED
    BY <2>2, Children DEF Indices
<1> QED
  BY <1>1, RearrangedRefl DEF Repaired, SubtreeHeap

LEMMA RepairedOne ==
    ASSUME NEW n \in Nat, NEW v \in Arrays(n), NEW t \in Nat, Left(t) < n, Right(t) >= n
    PROVE  Repaired(v, Raised(v, t, Left(t)), n, t)
<1> DEFINE l == Left(t)
           w == Raised(v, t, l)
<1>1. /\ t \in Indices(n) /\ l \in Indices(n) /\ l # t /\ Parent(l) = t
      /\ l > t /\ Right(t) = l + 1
  BY Children DEF Indices
<1>2. v \in [Indices(n) -> Int]
  BY DEF Arrays
<1>3. /\ w \in Arrays(n) /\ Rearranged(v, w)
      /\ \A k \in Indices(n) : k # t /\ k # l => w[k] = v[k]
      /\ w[t] = (IF v[l] > v[t] THEN v[l] ELSE v[t])
      /\ w[l] = (IF v[l] > v[t] THEN v[t] ELSE v[l])
  <2> HIDE DEF l
  <2>1. /\ Raised(v, t, l) \in Arrays(n) /\ Rearranged(v, Raised(v, t, l))
        /\ \A k \in Indices(n) : k # t /\ k # l => Raised(v, t, l)[k] = v[k]
        /\ t # l => /\ Raised(v, t, l)[t] = (IF v[l] > v[t] THEN v[l] ELSE v[t])
                    /\ Raised(v, t, l)[l] = (IF v[l] > v[t] THEN v[t] ELSE v[l])
    BY <1>1, RaisedRearranged
  <2> QED
    BY <1>1, <2>1
<1> HIDE DEF w
<1>4. ASSUME NEW x \in Indices(n), x \in Below(t) PROVE x = t \/ x = l
  <2> SUFFICES ASSUME x # t, x # l PROVE FALSE
    OBVIOUS
  <2>1. x \in Below(l) \/ x \in Below(Right(t))
    BY <1>4, BelowChild
  <2>2. CASE x \in Below(l)
    <3>1. x \in Nat /\ x # 0 /\ Parent(x) \in Below(l)
      BY <1>1, <2>2, BelowParent DEF Indices
    <3>2. Parent(x) >= l /\ Parent(x) \in Nat
      BY <1>1, <3>1, BelowGreater DEF Indices
    <3>3. x >= Left(Parent(x))
      BY <3>1, Children
    <3> QED
      BY <1>1, <3>2, <3>3 DEF Indices, Left
  <2>3. CASE x \in Below(Right(t))
    BY <2>3, BelowGreater, Children DEF Indices
  <2> QED
    BY <2>1, <2>2, <2>3
<1>5. t \in Below(t) /\ l \in Below(t)
  BY BelowClosed DEF Closed
<1>6. \A x \in Indices(n) : x \notin Below(t) => w[x] = v[x]
  BY <1>3, <1>5
<1>7. \A x \in Indices(n) : x \in Below(t) =>
          \E y \in Indices(n) : y \in Below(t) /\ w[x] = v[y]
  BY <1>1, <1>3, <1>4, <1>5
<1>8. SubtreeHeap(w, n, t)
  <2>1. w[l] <= w[t]
    BY <1>1, <1>2, <1>3
  <2> QED
    BY <1>1, <1>4, <2>1 DEF SubtreeHeap
<1> QED
  BY <1>3, <1>6, <1>7, <1>8 DEF Repaired, w

(* Both children raised: the top is the greatest of the three.             *)
LEMMA RaisedTwice ==
    ASSUME NEW n \in Nat, NEW v \in Arrays(n), NEW t \in Nat, Right(t) < n,
           NEW w, w = Raised(Raised(v, t, Left(t)), t, Right(t))
    PROVE  /\ w \in Arrays(n) /\ Rearranged(v, w)
           /\ \A x \in Indices(n) \ {t, Left(t), Right(t)} : w[x] = v[x]
           /\ \A x \in {t, Left(t), Right(t)} :
                 \E y \in {t, Left(t), Right(t)} : w[x] = v[y]
           /\ \A y \in {t, Left(t), Right(t)} : v[y] <= w[t] /\ w[y] <= w[t]
<1> DEFINE l == Left(t)
           r == Right(t)
           u == Raised(v, t, l)
<1>1. /\ t \in Indices(n) /\ l \in Indices(n) /\ r \in Indices(n)
      /\ l # t /\ r # t /\ l # r
  BY Children DEF Indices
<1> HIDE DEF l, r
<1>2. v \in [Indices(n) -> Int]
  BY DEF Arrays
<1>3. /\ u \in Arrays(n) /\ Rearranged(v, u)
      /\ \A k \in Indices(n) : k # t /\ k # l => u[k] = v[k]
      /\ u[t] = (IF v[l] > v[t] THEN v[l] ELSE v[t])
      /\ u[l] = (IF v[l] > v[t] THEN v[t] ELSE v[l])
  BY <1>1, RaisedRearranged
<1> HIDE DEF u
<1>4. w = Raised(u, t, r)
  BY DEF u, l, r
<1>5. /\ w \in Arrays(n) /\ Rearranged(u, w)
      /\ \A k \in Indices(n) : k # t /\ k # r => w[k] = u[k]
      /\ w[t] = (IF u[r] > u[t] THEN u[r] ELSE u[t])
      /\ w[r] = (IF u[r] > u[t] THEN u[t] ELSE u[r])
  <2>1. u \in Arrays(n)
    BY <1>3
  <2>2. /\ Raised(u, t, r) \in Arrays(n) /\ Rearranged(u, Raised(u, t, r))
        /\ \A k \in Indices(n) : k # t /\ k # r => Raised(u, t, r)[k] = u[k]
        /\ Raised(u, t, r)[t] = (IF u[r] > u[t] THEN u[r] ELSE u[t])
        /\ Raised(u, t, r)[r] = (IF u[r] > u[t] THEN u[t] ELSE u[r])
    BY <1>1, <2>1, RaisedRearranged
  <2> QED
    BY <1>4, <2>2
<1>6. Rearranged(v, w)
  BY <1>3, <1>5, RearrangedTrans
<1>7. u[r] = v[r] /\ w[l] = u[l] /\ \A x \in Indices(n) \ {t, l, r} : w[x] = v[x]
  BY <1>1, <1>3, <1>5
<1>8. v[t] \in Int /\ v[l] \in Int /\ v[r] \in Int
  BY <1>1, <1>2
<1>9. \A y \in {t, l, r} : v[y] <= w[t] /\ w[y] <= w[t]
  BY <1>3, <1>5, <1>7, <1>8
<1>10. \A x \in {t, l, r} : \E y \in {t, l, r} : w[x] = v[y]
  BY <1>3, <1>5, <1>7
<1> QED
  BY <1>5, <1>6, <1>7, <1>9, <1>10 DEF l, r

(* Where nothing of a subtree changed it is the heap it was.               *)
LEMMA SameSubtree ==
    ASSUME NEW n \in Nat, NEW v \in Arrays(n), NEW w \in Arrays(n), NEW t \in Nat,
           SubtreeHeap(v, n, t), \A x \in Indices(n) : x \in Below(t) => w[x] = v[x]
    PROVE  SubtreeHeap(w, n, t)
<1> SUFFICES ASSUME NEW x \in Indices(n), x \in Below(t), x # t
             PROVE  w[x] <= w[Parent(x)]
  BY DEF SubtreeHeap
<1>1. x \in Nat /\ x # 0 /\ Parent(x) \in Below(t)
  BY BelowParent DEF Indices
<1>2. Parent(x) \in Indices(n)
  BY <1>1, Children DEF Indices
<1> QED
  BY <1>1, <1>2 DEF SubtreeHeap

(* Repairing both subtrees after raising makes the subtree under t a heap. *)
LEMMA RepairedBoth ==
    ASSUME NEW n \in Nat, NEW v \in Arrays(n), NEW t \in Nat, Right(t) < n,
           NEW w, w = Raised(Raised(v, t, Left(t)), t, Right(t)),
           NEW u, Repaired(w, u, n, Left(t)), NEW z, Repaired(u, z, n, Right(t))
    PROVE  Repaired(v, z, n, t)
<1> DEFINE l == Left(t)
           r == Right(t)
           C == {t, l, r}
<1>1. /\ t \in Indices(n) /\ l \in Indices(n) /\ r \in Indices(n) /\ l # t /\ r # t
      /\ l # r /\ Parent(l) = t /\ Parent(r) = t /\ l \in Nat /\ r \in Nat
  BY Children DEF Indices
<1>2. /\ Below(l) \subseteq Below(t) /\ Below(r) \subseteq Below(t)
      /\ Below(t) \subseteq {t} \cup Below(l) \cup Below(r)
      /\ Below(l) \cap Below(r) = {} /\ t \notin Below(l) /\ t \notin Below(r)
      /\ t \in Below(t) /\ l \in Below(l) /\ r \in Below(r)
  BY <1>1, BelowChild, BelowDisjoint, BelowClosed
<1>3. /\ w \in Arrays(n) /\ Rearranged(v, w)
      /\ \A x \in Indices(n) \ C : w[x] = v[x]
      /\ \A x \in C : \E y \in C : w[x] = v[y]
      /\ \A y \in C : v[y] <= w[t] /\ w[y] <= w[t]
  BY RaisedTwice
<1> HIDE DEF l, r
<1>4. /\ u \in Arrays(n) /\ Rearranged(w, u)
      /\ \A x \in Indices(n) : x \notin Below(l) => u[x] = w[x]
      /\ \A x \in Indices(n) : x \in Below(l) =>
             \E y \in Indices(n) : y \in Below(l) /\ u[x] = w[y]
      /\ SubtreeHeap(w, n, Left(l)) /\ SubtreeHeap(w, n, Right(l)) => SubtreeHeap(u, n, l)
  BY DEF Repaired, l
<1>5. /\ z \in Arrays(n) /\ Rearranged(u, z)
      /\ \A x \in Indices(n) : x \notin Below(r) => z[x] = u[x]
      /\ \A x \in Indices(n) : x \in Below(r) =>
             \E y \in Indices(n) : y \in Below(r) /\ z[x] = u[y]
      /\ SubtreeHeap(u, n, Left(r)) /\ SubtreeHeap(u, n, Right(r)) => SubtreeHeap(z, n, r)
  BY DEF Repaired, r
<1>6. Rearranged(v, z)
  <2>1. Rearranged(v, u)
    BY <1>3, <1>4, RearrangedTrans
  <2> QED
    BY <1>4, <1>5, <2>1, RearrangedTrans
<1>7. \A x \in Indices(n) : x \notin Below(t) => z[x] = v[x]
  BY <1>2, <1>3, <1>4, <1>5
<1>8. ASSUME NEW x \in Indices(n), x \in Below(t)
      PROVE  \E y \in Indices(n) : y \in Below(t) /\ w[x] = v[y]
  BY <1>1, <1>2, <1>3, <1>8
<1>9. ASSUME NEW x \in Indices(n)
      PROVE  /\ x \in Below(l) => \E y \in Indices(n) : y \in Below(l) /\ z[x] = w[y]
             /\ x \in Below(r) => \E y \in Indices(n) : y \in Below(r) /\ z[x] = w[y]
  BY <1>2, <1>4, <1>5
<1>10. z[t] = w[t]
  BY <1>1, <1>2, <1>4, <1>5
<1>11. ASSUME NEW x \in Indices(n), x \in Below(t)
       PROVE  \E y \in Indices(n) : y \in Below(t) /\ z[x] = v[y]
  <2>1. PICK y \in Indices(n) : y \in Below(t) /\ z[x] = w[y]
    BY <1>2, <1>9, <1>10, <1>11
  <2> QED
    BY <1>8, <2>1
<1>12. ASSUME SubtreeHeap(v, n, l), SubtreeHeap(v, n, r) PROVE SubtreeHeap(z, n, t)
  <2>1. ASSUME NEW c \in {l, r}, NEW d \in {Left(c), Right(c)} PROVE SubtreeHeap(w, n, d)
    <3>1. /\ c \in Nat /\ d \in Nat /\ Parent(d) = c /\ d # c
          /\ Below(d) \subseteq Below(c) /\ c \notin Below(d)
      BY <1>1, Children, BelowChild, BelowDisjoint
    <3>2. SubtreeHeap(v, n, d)
      <4> SUFFICES ASSUME NEW x \in Indices(n), x \in Below(d), x # d
                   PROVE  v[x] <= v[Parent(x)]
        BY DEF SubtreeHeap
      <4>1. x \in Below(c) /\ x # c
        BY <3>1
      <4> QED
        BY <1>12, <4>1 DEF SubtreeHeap
    <3>3. \A x \in Indices(n) : x \in Below(d) => w[x] = v[x]
      <4> SUFFICES ASSUME NEW x \in Indices(n), x \in Below(d) PROVE x \notin C
        BY <1>3
      <4>1. x \in Below(c) /\ x # c
        BY <3>1
      <4> QED
        BY <1>2, <4>1
    <3> QED
      BY <1>3, <3>1, <3>2, <3>3, SameSubtree
  <2>2. SubtreeHeap(u, n, l)
    BY <1>4, <2>1
  <2>3. SubtreeHeap(z, n, l)
    BY <1>1, <1>2, <1>4, <1>5, <2>2, SameSubtree
  <2>4. SubtreeHeap(z, n, r)
    <3>1. ASSUME NEW d \in {Left(r), Right(r)} PROVE SubtreeHeap(u, n, d)
      <4>1. d \in Nat /\ Below(d) \subseteq Below(r)
        BY <1>1, Children, BelowChild
      <4>2. SubtreeHeap(w, n, d)
        BY <2>1
      <4>3. \A x \in Indices(n) : x \in Below(d) => u[x] = w[x]
        BY <1>2, <1>4, <4>1
      <4> QED
        BY <1>3, <1>4, <4>1, <4>2, <4>3, SameSubtree
    <3> QED
      BY <1>5, <3>1
  <2>5. ASSUME NEW c \in {l, r}, NEW y \in Indices(n), y \in Below(c) PROVE w[y] <= w[t]
    <3>1. CASE y = c
      BY <1>3, <3>1
    <3>2. CASE y # c
      <4>1. y \notin C
        BY <1>2, <2>5, <3>2
      <4>2. v[y] <= v[c]
        BY <1>1, <1>12, <2>5, RootIsGreatest
      <4>3. v[c] <= w[t] /\ w[y] = v[y]
        BY <1>3, <4>1
      <4>4. v[y] \in Int /\ v[c] \in Int /\ w[t] \in Int
        BY <1>1, <1>3 DEF Arrays
      <4> QED
        BY <4>2, <4>3, <4>4
    <3> QED
      BY <3>1, <3>2
  <2>6. z[l] <= z[t] /\ z[r] <= z[t]
    BY <1>1, <1>2, <1>9, <1>10, <2>5
  <2>7. ASSUME NEW x \in Indices(n), x \in Below(t), x # t PROVE z[x] <= z[Parent(x)]
    BY <1>1, <1>2, <2>3, <2>4, <2>6, <2>7 DEF SubtreeHeap
  <2> QED
    BY <2>7 DEF SubtreeHeap
<1> QED
  BY <1>5, <1>6, <1>7, <1>11, <1>12 DEF Repaired, l, r

-----------------------------------------------------------------------------
(* Heapify is a function that calls itself on what is nearer to the end.   *)
HeapifyDomain(n) == Arrays(n) \X Nat

Heapifies(h, n) == h = [p \in HeapifyDomain(n) |-> Heapified(h, p[1], p[2])]

(* It exists, by the number of entries that are left.                      *)
LEMMA HeapifyRecurses ==
    ASSUME NEW n \in Nat
    PROVE  \E h \in [HeapifyDomain(n) -> Arrays(n)] : Heapifies(h, n)
<1> DEFINE D == HeapifyDomain(n)
           R == Arrays(n)
           B(F) == [p \in D |-> Heapified(F, p[1], p[2])]
           Phi == [F \in [D -> R] |-> B(F)]
           m == [p \in D |-> IF p[2] < n THEN n - p[2] ELSE 0]
           W(v, t) == Raised(Raised(v, t, Left(t)), t, Right(t))
<1>1. ASSUME NEW v \in R, NEW t \in Nat, Right(t) < n PROVE W(v, t) \in R
  <2>1. W(v, t) = W(v, t)
    OBVIOUS
  <2> HIDE DEF R
  <2> QED
    BY <1>1, <2>1, RaisedTwice DEF R
<1>2. ASSUME NEW p \in D PROVE p[1] \in R /\ p[2] \in Nat /\ Size(p[1]) = n
  BY ArraySize DEF HeapifyDomain
<1>3. ASSUME NEW v \in R, NEW t \in Nat PROVE <<v, t>> \in D
  BY DEF HeapifyDomain
<1>4. ASSUME NEW t \in Nat
      PROVE  Left(t) \in Nat /\ Right(t) \in Nat /\ t < Left(t) /\ Left(t) < Right(t)
  BY Children
<1>5. ASSUME NEW v \in R, NEW t \in Nat PROVE m[<<v, t>>] = IF t < n THEN n - t ELSE 0
  <2>1. \A p \in D : m[p] = IF p[2] < n THEN n - p[2] ELSE 0
    OBVIOUS
  <2> HIDE DEF m
  <2> QED
    BY <1>3, <2>1
<1>6. m \in [D -> Nat]
  BY <1>2
<1>7. ASSUME NEW F \in [D -> R], NEW p \in D PROVE Heapified(F, p[1], p[2]) \in R
  <2> DEFINE v == p[1]
             t == p[2]
  <2>1. v \in R /\ t \in Nat /\ Size(v) = n
    BY <1>2
  <2> HIDE DEF v, t, D, R
  <2>2. CASE Left(t) >= n
    BY <2>1, <2>2 DEF Heapified, v, t
  <2>3. CASE Left(t) < n /\ Right(t) >= n
    <3>1. Repaired(v, Raised(v, t, Left(t)), n, t)
      BY <2>1, <2>3, RepairedOne DEF R
    <3>2. Heapified(F, v, t) = Raised(v, t, Left(t))
      BY <1>4, <2>1, <2>3 DEF Heapified
    <3> QED
      BY <3>1, <3>2 DEF Repaired, R, v, t
  <2>4. CASE Right(t) < n
    <3>1. Heapified(F, v, t) = F[<<F[<<W(v, t), Left(t)>>], Right(t)>>]
      BY <1>4, <2>1, <2>4 DEF Heapified
    <3> HIDE DEF W
    <3>2. W(v, t) \in R
      BY <1>1, <2>1, <2>4
    <3>3. F[<<W(v, t), Left(t)>>] \in R
      BY <1>3, <1>4, <2>1, <3>2
    <3> QED
      BY <1>3, <1>4, <2>1, <3>1, <3>3 DEF v, t
  <2> QED
    BY <1>4, <2>1, <2>2, <2>3, <2>4
<1>8. Phi \in [[D -> R] -> [D -> R]]
  <2>1. \A F \in [D -> R] : B(F) \in [D -> R]
    BY <1>7
  <2> HIDE DEF D, R, B
  <2> QED
    BY <2>1
<1>9. Contracts(Phi, D, R, m)
  <2> SUFFICES ASSUME NEW F \in [D -> R], NEW G \in [D -> R], NEW p \in D,
                      \A q \in D : m[q] < m[p] => F[q] = G[q]
               PROVE  Phi[F][p] = Phi[G][p]
    BY DEF Contracts
  <2> DEFINE v == p[1]
             t == p[2]
  <2>1. v \in R /\ t \in Nat /\ Size(v) = n /\ p = <<v, t>>
    BY <1>2 DEF HeapifyDomain
  <2>2. Phi[F][p] = Heapified(F, v, t) /\ Phi[G][p] = Heapified(G, v, t)
    <3>1. B(F)[p] = Heapified(F, v, t) /\ B(G)[p] = Heapified(G, v, t)
      OBVIOUS
    <3> HIDE DEF B, D, R
    <3> QED
      BY <3>1
  <2> HIDE DEF v, t, D, R, m, Phi, B
  <2>3. CASE Right(t) < n
    <3> DEFINE w == W(v, t)
    <3> HIDE DEF W
    <3>1. w \in R
      BY <1>1, <2>1, <2>3
    <3>2. /\ Heapified(F, v, t) = F[<<F[<<w, Left(t)>>], Right(t)>>]
          /\ Heapified(G, v, t) = G[<<G[<<w, Left(t)>>], Right(t)>>]
      BY <1>4, <2>1, <2>3 DEF Heapified, W
    <3> HIDE DEF w
    <3>3. ASSUME NEW x \in R, NEW c \in {Left(t), Right(t)} PROVE F[<<x, c>>] = G[<<x, c>>]
      <4>1. c \in Nat /\ t < c /\ c < n
        BY <1>4, <2>1, <2>3
      <4>2. m[<<x, c>>] < m[<<v, t>>]
        BY <1>5, <2>1, <4>1
      <4> QED
        BY <1>3, <2>1, <4>1, <4>2
    <3>4. F[<<w, Left(t)>>] \in R
      BY <1>3, <1>4, <2>1, <3>1
    <3> QED
      BY <2>2, <3>1, <3>2, <3>3, <3>4
  <2>4. CASE ~(Right(t) < n)
    <3>1. Heapified(F, v, t) = Heapified(G, v, t)
      BY <1>4, <2>1, <2>4 DEF Heapified
    <3> QED
      BY <2>2, <3>1
  <2> QED
    BY <2>3, <2>4
<1>10. R # {}
  BY [x \in Indices(n) |-> 0] \in R DEF Arrays
<1>11. \E F \in [D -> R] : F = Phi[F]
  <2>1. Recursion(Phi, D, R, m)
    <3> HIDE DEF D, R, m, Phi
    <3> QED
      BY <1>6, <1>8, <1>9, <1>10 DEF Recursion
  <2> HIDE DEF D, R, m, Phi, B, W
  <2> QED
    BY <2>1, RecursionExists
<1>12. PICK F \in [D -> R] : F = Phi[F]
  BY <1>11
<1>13. F = B(F)
  <2> HIDE DEF B, D, R
  <2> QED
    BY <1>12
<1> QED
  BY <1>13 DEF Heapifies

LEMMA HeapifyAt ==
    ASSUME NEW n \in Nat
    PROVE  \E h : \A v \in Arrays(n), t \in Nat :
              /\ Heapify(v, t) = h[<<v, t>>]
              /\ h[<<v, t>>] = Heapified(h, v, t)
<1> DEFINE h == CHOOSE f : Heapifies(f, n)
<1>1. Heapifies(h, n)
  BY HeapifyRecurses
<1> SUFFICES ASSUME NEW v \in Arrays(n), NEW t \in Nat
             PROVE  Heapify(v, t) = h[<<v, t>>] /\ h[<<v, t>>] = Heapified(h, v, t)
  OBVIOUS
<1>2. [DOMAIN v -> Int] \X Nat = HeapifyDomain(n)
  BY DEF Arrays, HeapifyDomain
<1>3. Heapify(v, t) = h[<<v, t>>]
  BY <1>2 DEF Heapify, Heapifies
<1> HIDE DEF h
<1> DEFINE p == <<v, t>>
<1>4. p \in HeapifyDomain(n) /\ p[1] = v /\ p[2] = t
  BY DEF HeapifyDomain
<1> HIDE DEF p
<1>5. h[p] = Heapified(h, p[1], p[2])
  <2> DEFINE g == [q \in HeapifyDomain(n) |-> Heapified(h, q[1], q[2])]
  <2>1. g[p] = Heapified(h, p[1], p[2])
    BY <1>4
  <2>2. h = g
    BY <1>1 DEF Heapifies
  <2> HIDE DEF g
  <2> QED
    BY <2>1, <2>2
<1>6. h[p] = Heapified(h, v, t)
  BY <1>4, <1>5
<1> QED
  BY <1>3, <1>6 DEF p

(* Heapify makes a heap of the subtree under t if those under the children *)
(* of t are heaps.                                                         *)
LEMMA HeapifyRepairs ==
    ASSUME NEW n \in Nat, NEW v \in Arrays(n), NEW t \in Nat
    PROVE  Repaired(v, Heapify(v, t), n, t)
<1>1. PICK h : \A w \in Arrays(n), s \in Nat :
          Heapify(w, s) = h[<<w, s>>] /\ h[<<w, s>>] = Heapified(h, w, s)
  BY HeapifyAt
<1> DEFINE S == {k \in Nat : \A w \in Arrays(n), s \in Nat :
                    s + k >= n => Repaired(w, h[<<w, s>>], n, s)}
<1>2. ASSUME NEW k \in Nat, \A j \in Nat : j < k => j \in S PROVE k \in S
  <2> SUFFICES ASSUME NEW w \in Arrays(n), NEW s \in Nat, s + k >= n
               PROVE  Repaired(w, h[<<w, s>>], n, s)
    OBVIOUS
  <2>1. /\ Size(w) = n /\ Left(s) \in Nat /\ Right(s) \in Nat
        /\ s < Left(s) /\ Left(s) < Right(s)
    BY ArraySize, Children
  <2>2. h[<<w, s>>] = Heapified(h, w, s)
    BY <1>1
  <2>3. CASE Left(s) >= n
    <3>1. Heapified(h, w, s) = w
      BY <2>1, <2>3 DEF Heapified
    <3> QED
      BY <2>2, <2>3, <3>1, RepairedLeaf
  <2>4. CASE Left(s) < n /\ Right(s) >= n
    <3>1. Heapified(h, w, s) = Raised(w, s, Left(s))
      BY <2>1, <2>4 DEF Heapified
    <3> QED
      BY <2>2, <2>4, <3>1, RepairedOne
  <2>5. CASE Right(s) < n
    <3> DEFINE x == Raised(Raised(w, s, Left(s)), s, Right(s))
               y == h[<<x, Left(s)>>]
               z == h[<<y, Right(s)>>]
    <3>1. Heapified(h, w, s) = z
      BY <2>1, <2>5 DEF Heapified
    <3>2. x \in Arrays(n)
      <4>1. x = Raised(Raised(w, s, Left(s)), s, Right(s))
        OBVIOUS
      <4> HIDE DEF x
      <4> QED
        BY <2>5, <4>1, RaisedTwice
    <3>3. k # 0 /\ k - 1 \in S
      BY <1>2, <2>1, <2>5
    <3>4. Left(s) + (k - 1) >= n /\ Right(s) + (k - 1) >= n
      BY <2>1
    <3>5. \A a \in Arrays(n), c \in Nat :
              c + (k - 1) >= n => Repaired(a, h[<<a, c>>], n, c)
      BY <3>3
    <3> HIDE DEF x, y, z, S
    <3>6. Repaired(x, y, n, Left(s))
      BY <2>1, <3>2, <3>4, <3>5 DEF y
    <3>7. y \in Arrays(n)
      BY <3>6 DEF Repaired
    <3>8. Repaired(y, z, n, Right(s))
      BY <2>1, <3>4, <3>5, <3>7 DEF z
    <3>9. Repaired(w, z, n, s)
      BY <2>5, <3>6, <3>8, RepairedBoth DEF x
    <3> QED
      BY <2>2, <3>1, <3>9
  <2> QED
    BY <2>1, <2>3, <2>4, <2>5
<1>3. Nat \subseteq S
  <2> HIDE DEF S
  <2> QED
    BY <1>2, MeasureInduction
<1>4. n \in S
  BY <1>3
<1>5. Repaired(v, h[<<v, t>>], n, t)
  BY <1>4
<1> QED
  BY <1>1, <1>5

-----------------------------------------------------------------------------
(* A loop as a function of its round: G makes what there is after round k  *)
(* of what there was before.                                               *)
Rounds(G, N, R) == G \in [(1 .. N) \X R -> R]

Repeats(f, r, G, N) == f[0] = r /\ \A k \in 1 .. N : f[k] = G[<<k, f[k - 1]>>]

(* Every loop has such a function: what a fold computes is what it is      *)
(* after the last round.                                                   *)
LEMMA LoopExists ==
    ASSUME NEW N \in Nat, NEW R, NEW r \in R, NEW G, Rounds(G, N, R)
    PROVE  \E f \in [0 .. N -> R] : Repeats(f, r, G, N)
<1> USE DEF Rounds
<1> DEFINE D == 0 .. N
           B(f) == [k \in D |-> IF k = 0 THEN r ELSE G[<<k, f[k - 1]>>]]
           Phi == [f \in [D -> R] |-> B(f)]
           m == [k \in D |-> k]
<1>1. ASSUME NEW f \in [D -> R] PROVE B(f) \in [D -> R]
  <2>1. ASSUME NEW k \in D, k # 0 PROVE G[<<k, f[k - 1]>>] \in R
    <3>1. k \in 1 .. N /\ k - 1 \in D
      BY <2>1
    <3> HIDE DEF D
    <3>2. <<k, f[k - 1]>> \in (1 .. N) \X R
      BY <3>1
    <3> QED
      BY <3>2
  <2> QED
    BY <2>1
<1>2. Phi \in [[D -> R] -> [D -> R]] /\ m \in [D -> Nat] /\ R # {}
  <2>1. m \in [D -> Nat]
    OBVIOUS
  <2> HIDE DEF B, D
  <2> QED
    BY <1>1, <2>1
<1>3. Contracts(Phi, D, R, m)
  <2> SUFFICES ASSUME NEW f \in [D -> R], NEW g \in [D -> R], NEW k \in D,
                      \A l \in D : m[l] < m[k] => f[l] = g[l]
               PROVE  Phi[f][k] = Phi[g][k]
    BY DEF Contracts
  <2>1. Phi[f] = B(f) /\ Phi[g] = B(g)
    <3> HIDE DEF B, D
    <3> QED
      OBVIOUS
  <2>2. k # 0 => f[k - 1] = g[k - 1]
    OBVIOUS
  <2> HIDE DEF Phi, m
  <2> QED
    BY <2>1, <2>2
<1>4. Recursion(Phi, D, R, m)
  <2> HIDE DEF Phi, D, m
  <2> QED
    BY <1>2, <1>3 DEF Recursion
<1>5. PICK f \in [D -> R] : f = Phi[f]
  <2> HIDE DEF Phi, D, m
  <2> QED
    BY <1>4, RecursionExists
<1>6. f = B(f)
  <2> HIDE DEF B, D
  <2> QED
    BY <1>5
<1>7. \A k \in D : B(f)[k] = IF k = 0 THEN r ELSE G[<<k, f[k - 1]>>]
  OBVIOUS
<1> HIDE DEF B
<1>8. \A k \in D : f[k] = IF k = 0 THEN r ELSE G[<<k, f[k - 1]>>]
  BY <1>6, <1>7
<1>9. f[0] = r /\ \A k \in 1 .. N : f[k] = G[<<k, f[k - 1]>>]
  <2>1. 0 \in D /\ \A k \in 1 .. N : k \in D /\ k # 0
    OBVIOUS
  <2> HIDE DEF D
  <2> QED
    BY <1>8, <2>1
<1>10. f \in [0 .. N -> R]
  OBVIOUS
<1> HIDE DEF D
<1> QED
  BY <1>9, <1>10 DEF Repeats

(* Before round k of the loop in main the entries whose parent is above    *)
(* N - k - 1 are not greater than their parents.                           *)
HeapFrom(v, n, i) ==
    \A x \in Indices(n) : x # 0 /\ Parent(x) >= i => v[x] <= v[Parent(x)]

(* One more round of the loop in main.                                     *)
LEMMA HeapStep ==
    ASSUME NEW n \in Nat, NEW v \in Arrays(n), NEW t \in Nat, HeapFrom(v, n, t + 1),
           NEW w, Repaired(v, w, n, t)
    PROVE  HeapFrom(w, n, t)
<1>1. ASSUME NEW c \in {Left(t), Right(t)} PROVE SubtreeHeap(v, n, c)
  <2> SUFFICES ASSUME NEW x \in Indices(n), x \in Below(c), x # c
               PROVE  v[x] <= v[Parent(x)]
    BY DEF SubtreeHeap
  <2>1. c \in Nat /\ c >= t + 1
    BY Children
  <2>2. x # 0 /\ Parent(x) \in Below(c)
    BY <2>1, BelowParent
  <2>3. Parent(x) \in Nat /\ Parent(x) >= t + 1
    BY <2>1, <2>2, BelowGreater
  <2> QED
    BY <2>2, <2>3 DEF HeapFrom
<1>2. SubtreeHeap(w, n, t)
  BY <1>1 DEF Repaired
<1> SUFFICES ASSUME NEW x \in Indices(n), x # 0, Parent(x) >= t
             PROVE  w[x] <= w[Parent(x)]
  BY DEF HeapFrom
<1>3. x \in Nat /\ Parent(x) \in Nat /\ Parent(x) < x /\ Parent(x) \in Indices(n)
      /\ x # t /\ (x = Left(Parent(x)) \/ x = Right(Parent(x)))
  BY Children DEF Indices
<1>4. CASE x \in Below(t)
  BY <1>2, <1>3, <1>4 DEF SubtreeHeap
<1>5. CASE x \notin Below(t)
  <2>1. Parent(x) \notin Below(t)
    BY <1>3, <1>5, BelowClosed DEF Closed
  <2>2. Parent(x) # t
    BY <2>1, BelowClosed
  <2>3. w[x] = v[x] /\ w[Parent(x)] = v[Parent(x)]
    BY <1>3, <1>5, <2>1 DEF Repaired
  <2> QED
    BY <1>3, <2>2, <2>3 DEF HeapFrom
<1> QED
  BY <1>4, <1>5

(* After the last round the whole vector is a heap.                        *)
LEMMA MakeHeapMakesHeap ==
    ASSUME NEW n \in Nat, NEW v \in Arrays(n)
    PROVE  /\ MakeHeap(v) \in Arrays(n) /\ Rearranged(v, MakeHeap(v))
           /\ \A x \in Indices(n) : MakeHeap(v)[x] <= MakeHeap(v)[Parent(x)]
<1> DEFINE from == Size(v) \div 2
           N == from + 1
           R == Arrays(n)
           Turns(f) == f = [k \in 0 .. N |-> IF k = 0 THEN v ELSE Heapify(f[k - 1], from - (k - 1))]
           b == CHOOSE f : Turns(f)
<1>1. N \in Nat /\ Size(v) = n /\ N = n \div 2 + 1 /\ from = N - 1 /\ from \in Nat
  BY ArraySize
<1>2. ASSUME NEW w \in R, NEW t \in Nat PROVE Repaired(w, Heapify(w, t), n, t)
  BY HeapifyRepairs
<1>3. MakeHeap(v) = b[N]
  BY DEF MakeHeap
<1> HIDE DEF N, R, from
<1>4. \E f \in [0 .. N -> R] : Turns(f)
  <2> DEFINE G == [p \in (1 .. N) \X R |-> Heapify(p[2], N - p[1])]
  <2>1. ASSUME NEW k \in 1 .. N, NEW w \in R
        PROVE  Heapify(w, N - k) \in R /\ G[<<k, w>>] = Heapify(w, N - k)
    <3>1. N - k \in Nat
      BY <1>1
    <3>2. Heapify(w, N - k) \in R
      BY <1>2, <3>1 DEF Repaired, R
    <3> QED
      BY <3>2
  <2>2. Rounds(G, N, R)
    BY <2>1 DEF Rounds
  <2> HIDE DEF G
  <2>3. v \in R
    BY DEF R
  <2>4. PICK f \in [0 .. N -> R] : Repeats(f, v, G, N)
    BY <1>1, <2>2, <2>3, LoopExists
  <2>5. ASSUME NEW k \in 0 .. N
        PROVE  f[k] = IF k = 0 THEN v ELSE Heapify(f[k - 1], from - (k - 1))
    <3>1. k # 0 => k \in 1 .. N /\ k - 1 \in 0 .. N /\ N - k = from - (k - 1)
      BY <1>1
    <3> QED
      BY <2>1, <2>4, <3>1 DEF Repeats
  <2> QED
    BY <2>5
<1>5. Turns(b)
  BY <1>4
<1> HIDE DEF b
<1>6. ASSUME NEW k \in 0 .. N PROVE b[k] = IF k = 0 THEN v ELSE Heapify(b[k - 1], N - k)
  <2> DEFINE g == [j \in 0 .. N |-> IF j = 0 THEN v ELSE Heapify(b[j - 1], from - (j - 1))]
  <2>1. g[k] = IF k = 0 THEN v ELSE Heapify(b[k - 1], N - k)
    <3>1. from - (k - 1) = N - k
      BY <1>1
    <3> QED
      BY <3>1
  <2>2. b = g
    BY <1>5
  <2> HIDE DEF g
  <2> QED
    BY <2>1, <2>2
<1> HIDE DEF Turns
<1> DEFINE Good(k) == b[k] \in R /\ Rearranged(v, b[k]) /\ HeapFrom(b[k], n, N - k)
           S == {k \in Nat : k <= N => Good(k)}
<1>7. Good(0)
  <2>1. b[0] = v
    BY <1>1, <1>6
  <2>2. HeapFrom(v, n, N - 0)
    BY <1>1 DEF HeapFrom, Indices, Parent
  <2> QED
    BY <2>1, <2>2, RearrangedRefl DEF R
<1>8. ASSUME NEW k \in 1 .. N, Good(k - 1) PROVE Good(k)
  <2>1. b[k] = Heapify(b[k - 1], N - k)
    BY <1>1, <1>6
  <2>2. N - k \in Nat /\ N - (k - 1) = N - k + 1
    BY <1>1
  <2>3. Repaired(b[k - 1], b[k], n, N - k)
    BY <1>2, <1>8, <2>1, <2>2
  <2>4. b[k] \in R /\ Rearranged(v, b[k])
    BY <1>8, <2>3, RearrangedTrans DEF Repaired, R
  <2>5. HeapFrom(b[k], n, N - k)
    <3>1. HeapFrom(b[k - 1], n, N - k + 1)
      BY <1>8, <2>2
    <3> QED
      BY <1>8, <2>2, <2>3, <3>1, HeapStep DEF R
  <2> QED
    BY <2>4, <2>5
<1> HIDE DEF Good
<1>9. ASSUME NEW k \in Nat, \A j \in Nat : j < k => j \in S PROVE k \in S
  <2>1. CASE k = 0
    BY <1>7, <2>1
  <2>2. CASE k # 0 /\ k <= N
    <3>1. k \in 1 .. N /\ k - 1 \in Nat /\ k - 1 < k /\ k - 1 <= N
      BY <1>1, <2>2
    <3>2. Good(k - 1)
      BY <1>9, <3>1
    <3> QED
      BY <1>8, <3>1, <3>2
  <2> QED
    BY <2>1, <2>2
<1>10. Nat \subseteq S
  <2> HIDE DEF S
  <2> QED
    BY <1>9, MeasureInduction
<1>11. Good(N)
  BY <1>1, <1>10
<1>12. b[N] \in Arrays(n) /\ Rearranged(v, b[N]) /\ HeapFrom(b[N], n, 0)
  BY <1>1, <1>11 DEF Good, R
<1>13. ASSUME NEW x \in Indices(n) PROVE b[N][x] <= b[N][Parent(x)]
  <2>1. CASE x = 0
    BY <1>12, <2>1 DEF Parent, Arrays
  <2>2. CASE x # 0
    <3>1. Parent(x) \in Nat
      BY Children DEF Indices
    <3> QED
      BY <1>12, <2>2, <3>1 DEF HeapFrom
  <2> QED
    BY <2>1, <2>2
<1> QED
  BY <1>3, <1>12, <1>13

-----------------------------------------------------------------------------
(* h holds where i and j are before each of the first n + 1 rounds.        *)
Advances(h, a, s, m, e, n) ==
    /\ h[0] = <<s, m>>
    /\ \A k \in 1 .. n : h[k] = Advanced(a, h[k - 1], m, e)

(* The loop of merge_two_pieces_internal: where i and j are before each of *)
(* its rounds.                                                             *)
LEMMA HeadsAt ==
    ASSUME NEW a, NEW s \in Nat, NEW m \in Nat, NEW e \in Nat, s <= m, m <= e
    PROVE  Advances(Heads(a, s, m, e), a, s, m, e, e - s)
<1> DEFINE N == e - s
           R == Nat \X Nat
           Turns(f) == f = [k \in 0 .. N |->
                               IF k = 0 THEN <<s, m>> ELSE Advanced(a, f[k - 1], m, e)]
           b == CHOOSE f : Turns(f)
           G == [p \in (1 .. N) \X R |-> Advanced(a, p[2], m, e)]
<1>1. N \in Nat
  OBVIOUS
<1>2. Heads(a, s, m, e) = b
  BY DEF Heads
<1> HIDE DEF N
<1>3. ASSUME NEW h \in R PROVE Advanced(a, h, m, e) \in R
  BY DEF Advanced
<1>4. ASSUME NEW k \in 1 .. N, NEW h \in R PROVE G[<<k, h>>] = Advanced(a, h, m, e)
  OBVIOUS
<1>5. Rounds(G, N, R)
  BY <1>3 DEF Rounds
<1> HIDE DEF G
<1>7. \E f \in [0 .. N -> R] : Repeats(f, <<s, m>>, G, N)
  <2> DEFINE r == <<s, m>>
  <2>1. r \in R
    OBVIOUS
  <2> HIDE DEF r, R
  <2>2. \E f \in [0 .. N -> R] : Repeats(f, r, G, N)
    BY <1>1, <1>5, <2>1, LoopExists
  <2> QED
    BY <2>2 DEF r
<1> HIDE DEF R
<1>8. PICK f \in [0 .. N -> R] :
          f[0] = <<s, m>> /\ \A k \in 1 .. N : f[k] = G[<<k, f[k - 1]>>]
  BY <1>7 DEF Repeats
<1>9. Turns(f)
  <2>1. ASSUME NEW k \in 0 .. N
        PROVE  f[k] = IF k = 0 THEN <<s, m>> ELSE Advanced(a, f[k - 1], m, e)
    <3>1. k # 0 => k \in 1 .. N /\ k - 1 \in 0 .. N
      BY <1>1
    <3> QED
      BY <1>4, <1>8, <3>1
  <2> QED
    BY <2>1
<1>10. Turns(b)
  BY <1>9
<1> HIDE DEF b
<1>11. ASSUME NEW k \in 0 .. N
       PROVE  b[k] = IF k = 0 THEN <<s, m>> ELSE Advanced(a, b[k - 1], m, e)
  <2> DEFINE g == [j \in 0 .. N |->
                      IF j = 0 THEN <<s, m>> ELSE Advanced(a, b[j - 1], m, e)]
  <2>1. g[k] = IF k = 0 THEN <<s, m>> ELSE Advanced(a, b[k - 1], m, e)
    OBVIOUS
  <2>2. b = g
    BY <1>10
  <2> HIDE DEF g
  <2> QED
    BY <2>1, <2>2
<1>12. b[0] = <<s, m>> /\ \A k \in 1 .. N : b[k] = Advanced(a, b[k - 1], m, e)
  <2>1. 0 \in 0 .. N /\ \A k \in 1 .. N : k \in 0 .. N /\ k # 0
    BY <1>1
  <2> HIDE DEF Turns
  <2> QED
    BY <1>11, <2>1
<1> HIDE DEF Turns
<1> QED
  BY <1>2, <1>12 DEF N, Advances

(* Before round k the two pieces still hold all but k of their entries.    *)
Splits(h, s, m, e) ==
    \A k \in 0 .. e - s : \E i \in s .. m, j \in m .. e :
        h[k] = <<i, j>> /\ (i - s) + (j - m) = k

LEMMA HeadsRange ==
    ASSUME NEW n \in Nat, NEW a \in Arrays(n), NEW s \in Nat, NEW m \in Nat, NEW e \in Nat,
           s <= m, m <= e, e <= n
    PROVE  Splits(Heads(a, s, m, e), s, m, e)
<1> DEFINE h == Heads(a, s, m, e)
           S == {k \in Nat : k <= e - s => \E i \in s .. m, j \in m .. e :
                               h[k] = <<i, j>> /\ (i - s) + (j - m) = k}
<1>1. h[0] = <<s, m>> /\ \A k \in 1 .. e - s : h[k] = Advanced(a, h[k - 1], m, e)
  <2>1. Advances(h, a, s, m, e, e - s)
    BY HeadsAt
  <2> HIDE DEF h
  <2> QED
    BY <2>1, Zenon DEF Advances
<1> HIDE DEF h
<1>2. ASSUME NEW k \in Nat, \A l \in Nat : l < k => l \in S PROVE k \in S
  <2> SUFFICES ASSUME k <= e - s
               PROVE  \E i \in s .. m, j \in m .. e :
                         h[k] = <<i, j>> /\ (i - s) + (j - m) = k
    OBVIOUS
  <2>1. CASE k = 0
    BY <1>1, <2>1
  <2>2. CASE k # 0
    <3>1. k - 1 \in Nat /\ k - 1 < k /\ k - 1 <= e - s /\ k \in 1 .. e - s
      BY <2>2
    <3>2. PICK i \in s .. m, j \in m .. e :
              h[k - 1] = <<i, j>> /\ (i - s) + (j - m) = k - 1
      BY <1>2, <3>1
    <3>3. h[k] = Advanced(a, <<i, j>>, m, e)
      BY <1>1, <3>1, <3>2
    <3>4. h[k] = IF FirstPiece(a, i, m, j, e) THEN <<i + 1, j>> ELSE <<i, j + 1>>
      BY <3>3 DEF Advanced
    <3>5. FirstPiece(a, i, m, j, e) => i < m
      BY DEF FirstPiece
    <3>6. ~FirstPiece(a, i, m, j, e) => j < e
      BY <3>1, <3>2 DEF FirstPiece
    <3>7. CASE FirstPiece(a, i, m, j, e)
      <4>1. i + 1 \in s .. m /\ h[k] = <<i + 1, j>> /\ ((i + 1) - s) + (j - m) = k
        BY <3>2, <3>4, <3>5, <3>7
      <4> QED
        BY <4>1
    <3>8. CASE ~FirstPiece(a, i, m, j, e)
      <4>1. j + 1 \in m .. e /\ h[k] = <<i, j + 1>> /\ (i - s) + ((j + 1) - m) = k
        BY <3>2, <3>4, <3>6, <3>8
      <4> QED
        BY <4>1
    <3> QED
      BY <3>7, <3>8
  <2> QED
    BY <2>1, <2>2
<1>3. Nat \subseteq S
  <2> HIDE DEF S
  <2> QED
    BY <1>2, MeasureInduction
<1>4. \A k \in 0 .. e - s : k \in Nat /\ k <= e - s
  OBVIOUS
<1> QED
  BY <1>3, <1>4 DEF h, Splits

(* The numbers are in falling order from s on and before e.                *)
Falling(a, s, e) == \A x, y \in s .. e - 1 : x < y => a[x] >= a[y]

(* The loop never takes an entry twice, and takes the greater ones first.  *)
LEMMA ChosenOnce ==
    ASSUME NEW n \in Nat, NEW a \in Arrays(n), NEW s \in Nat, NEW m \in Nat, NEW e \in Nat,
           s <= m, m <= e, e <= n, NEW c
    PROVE  (\A k \in 0 .. e - s - 1 : c[k] = Chosen(a, Heads(a, s, m, e)[k], m, e)) =>
               \A k \in 0 .. e - s - 1 :
                  /\ c[k] \in s .. e - 1
                  /\ \A l \in k + 1 .. e - s - 1 :
                        /\ c[k] # c[l]
                        /\ Falling(a, s, m) /\ Falling(a, m, e) => a[c[k]] >= a[c[l]]
<1> DEFINE h == Heads(a, s, m, e)
           I(k) == h[k][1]
           J(k) == h[k][2]
<1>range. \A k \in 0 .. e - s : \E i \in s .. m, j \in m .. e :
           h[k] = <<i, j>> /\ (i - s) + (j - m) = k
  <2>1. Splits(h, s, m, e)
    BY HeadsRange
  <2> HIDE DEF h
  <2> QED
    BY <2>1, Zenon DEF Splits
<1>turn. h[0] = <<s, m>> /\ \A q \in 1 .. e - s : h[q] = Advanced(a, h[q - 1], m, e)
  <2>1. Advances(h, a, s, m, e, e - s)
    BY HeadsAt
  <2> HIDE DEF h
  <2> QED
    BY <2>1, Zenon DEF Advances
<1> SUFFICES ASSUME \A k \in 0 .. e - s - 1 : c[k] = Chosen(a, h[k], m, e)
             PROVE  \A k \in 0 .. e - s - 1 :
                       /\ c[k] \in s .. e - 1
                       /\ \A l \in k + 1 .. e - s - 1 :
                             /\ c[k] # c[l]
                             /\ Falling(a, s, m) /\ Falling(a, m, e) => a[c[k]] >= a[c[l]]
  OBVIOUS
<1>1. ASSUME NEW k \in 0 .. e - s
      PROVE  I(k) \in s .. m /\ J(k) \in m .. e /\ (I(k) - s) + (J(k) - m) = k
  <2>1. PICK i \in s .. m, j \in m .. e : h[k] = <<i, j>> /\ (i - s) + (j - m) = k
    BY <1>range
  <2> QED
    BY <2>1
<1>2. ASSUME NEW k \in 0 .. e - s - 1
      PROVE  IF FirstPiece(a, I(k), m, J(k), e)
             THEN I(k + 1) = I(k) + 1 /\ J(k + 1) = J(k) /\ c[k] = I(k) /\ I(k) < m
             ELSE I(k + 1) = I(k) /\ J(k + 1) = J(k) + 1 /\ c[k] = J(k) /\ J(k) < e
  <2>1. k + 1 \in 1 .. e - s /\ (k + 1) - 1 = k /\ k \in 0 .. e - s
    OBVIOUS
  <2>2. h[k + 1] = Advanced(a, h[k], m, e)
    <3> HIDE DEF h
    <3>1. \A q \in 1 .. e - s : h[q] = Advanced(a, h[q - 1], m, e)
      BY <1>turn, Zenon
    <3>2. h[k + 1] = Advanced(a, h[(k + 1) - 1], m, e)
      BY <2>1, <3>1
    <3> QED
      BY <2>1, <3>2
  <2>3. c[k] = Chosen(a, h[k], m, e)
    OBVIOUS
  <2> HIDE DEF h
  <2>4. FirstPiece(a, I(k), m, J(k), e) =>
            h[k + 1] = <<I(k) + 1, J(k)>> /\ c[k] = I(k) /\ I(k) < m
    BY <2>2, <2>3 DEF Advanced, Chosen, FirstPiece
  <2>5. ~FirstPiece(a, I(k), m, J(k), e) =>
            h[k + 1] = <<I(k), J(k) + 1>> /\ c[k] = J(k) /\ J(k) < e
    <3>1. ~FirstPiece(a, I(k), m, J(k), e) =>
              h[k + 1] = <<I(k), J(k) + 1>> /\ c[k] = J(k)
      BY <2>2, <2>3 DEF Advanced, Chosen
    <3>2. I(k) \in s .. m /\ J(k) \in m .. e /\ (I(k) - s) + (J(k) - m) = k
      BY <1>1, <2>1
    <3>3. ~FirstPiece(a, I(k), m, J(k), e) => I(k) >= m \/ J(k) < e
      BY <3>2 DEF FirstPiece
    <3> HIDE DEF I, J
    <3>4. I(k) >= m => J(k) < e
      BY <3>2, <2>1
    <3> QED
      BY <3>1, <3>3, <3>4 DEF I, J
  <2> QED
    BY <2>4, <2>5
<1> HIDE DEF h, I, J
<1>3. ASSUME NEW k \in 0 .. e - s - 1
      PROVE  /\ I(k) \in s .. m /\ J(k) \in m .. e
             /\ I(k + 1) \in s .. m /\ J(k + 1) \in m .. e
             /\ I(k) <= I(k + 1) /\ J(k) <= J(k + 1)
  <2>1. k \in 0 .. e - s /\ k + 1 \in 0 .. e - s
    OBVIOUS
  <2>2. I(k) \in s .. m /\ J(k) \in m .. e /\ I(k + 1) \in s .. m /\ J(k + 1) \in m .. e
    BY <1>1, <2>1
  <2>3. I(k) <= I(k + 1) /\ J(k) <= J(k + 1)
    BY <1>2, <2>2
  <2> QED
    BY <2>2, <2>3
<1>4. ASSUME NEW k \in 0 .. e - s, NEW l \in k .. e - s
      PROVE  I(k) <= I(l) /\ J(k) <= J(l)
  <2> DEFINE S == {x \in Nat : k <= x /\ x <= e - s => I(k) <= I(x) /\ J(k) <= J(x)}
  <2>1. ASSUME NEW x \in Nat, \A y \in Nat : y < x => y \in S PROVE x \in S
    <3> SUFFICES ASSUME k <= x, x <= e - s PROVE I(k) <= I(x) /\ J(k) <= J(x)
      OBVIOUS
    <3>1. CASE x = k
      BY <1>1, <3>1
    <3>2. CASE x # k
      <4>1. x - 1 \in Nat /\ x - 1 < x /\ k <= x - 1 /\ x - 1 <= e - s
            /\ x - 1 \in 0 .. e - s - 1 /\ (x - 1) + 1 = x
        BY <3>2
      <4>2. I(k) <= I(x - 1) /\ J(k) <= J(x - 1)
        BY <2>1, <4>1
      <4>3. /\ I(x - 1) \in s .. m /\ J(x - 1) \in m .. e
            /\ I(x) \in s .. m /\ J(x) \in m .. e
            /\ I(x - 1) <= I(x) /\ J(x - 1) <= J(x)
        BY <1>3, <4>1
      <4> QED
        BY <1>1, <4>2, <4>3
    <3> QED
      BY <3>1, <3>2
  <2>2. Nat \subseteq S
    <3> HIDE DEF S
    <3> QED
      BY <2>1, MeasureInduction
  <2>3. l \in Nat /\ k <= l /\ l <= e - s
    OBVIOUS
  <2> QED
    BY <2>2, <2>3
<1>5. ASSUME NEW k \in 0 .. e - s - 1
      PROVE  c[k] \in s .. e - 1 /\ (c[k] \in I(k) .. m - 1 \/ c[k] \in J(k) .. e - 1)
  BY <1>2, <1>3
<1>6. ASSUME NEW k \in 0 .. e - s - 1, NEW l \in k + 1 .. e - s - 1 PROVE c[k] # c[l]
  <2>1. k + 1 \in 0 .. e - s /\ l \in k + 1 .. e - s /\ l \in 0 .. e - s - 1
    OBVIOUS
  <2>2. I(k + 1) <= I(l) /\ J(k + 1) <= J(l)
    BY <1>4, <2>1
  <2>3. I(l) \in s .. m /\ J(l) \in m .. e
    BY <1>3, <2>1
  <2>4. c[l] \in I(l) .. m - 1 \/ c[l] \in J(l) .. e - 1
    BY <1>5, <2>1
  <2> QED
    BY <1>2, <1>3, <2>2, <2>3, <2>4
<1>7. ASSUME NEW k \in 0 .. e - s - 1, NEW l \in k + 1 .. e - s - 1,
             Falling(a, s, m), Falling(a, m, e)
      PROVE  a[c[k]] >= a[c[l]]
  <2>1. k \in 0 .. e - s /\ l \in k .. e - s /\ l \in 0 .. e - s - 1
    OBVIOUS
  <2>2. I(k) <= I(l) /\ J(k) <= J(l)
    BY <1>4, <2>1
  <2>3. /\ I(l) \in s .. m /\ J(l) \in m .. e
        /\ I(k) \in s .. m /\ J(k) \in m .. e
    BY <1>3, <2>1
  <2>4. c[l] \in I(k) .. m - 1 \/ c[l] \in J(k) .. e - 1
    BY <1>5, <2>1, <2>2, <2>3
  <2>5. \A x \in s .. e - 1 : a[x] \in Int
    BY DEF Arrays, Indices
  <2>6. \A x, y \in s .. m - 1 : x <= y => a[x] >= a[y]
    <3>1. s .. m - 1 \subseteq s .. e - 1
      OBVIOUS
    <3> QED
      BY <1>7, <2>5, <3>1 DEF Falling
  <2>7. \A x, y \in m .. e - 1 : x <= y => a[x] >= a[y]
    <3>1. m .. e - 1 \subseteq s .. e - 1
      OBVIOUS
    <3> QED
      BY <1>7, <2>5, <3>1 DEF Falling
  <2>8. CASE FirstPiece(a, I(k), m, J(k), e)
    <3>1. c[k] = I(k) /\ I(k) \in s .. m - 1 /\ (J(k) >= e \/ a[I(k)] > a[J(k)])
      BY <1>2, <2>3, <2>8 DEF FirstPiece
    <3>2. CASE c[l] \in I(k) .. m - 1
      BY <2>3, <2>6, <3>1, <3>2
    <3>3. CASE c[l] \in J(k) .. e - 1
      <4>1. J(k) \in m .. e - 1 /\ c[l] \in m .. e - 1 /\ J(k) <= c[l]
        BY <2>3, <3>3
      <4>2. a[J(k)] >= a[c[l]] /\ a[I(k)] > a[J(k)]
        BY <2>7, <3>1, <4>1
      <4>3. a[J(k)] \in Int /\ a[c[l]] \in Int /\ a[I(k)] \in Int
        BY <2>3, <2>5, <3>1, <4>1
      <4> QED
        BY <3>1, <4>2, <4>3
    <3> QED
      BY <2>4, <3>2, <3>3
  <2>9. CASE ~FirstPiece(a, I(k), m, J(k), e)
    <3>1. c[k] = J(k) /\ J(k) \in m .. e - 1 /\ (I(k) >= m \/ ~(a[I(k)] > a[J(k)]))
      BY <1>2, <2>3, <2>9 DEF FirstPiece
    <3>2. CASE c[l] \in J(k) .. e - 1
      BY <2>3, <2>7, <3>1, <3>2
    <3>3. CASE c[l] \in I(k) .. m - 1
      <4>1. I(k) \in s .. m - 1 /\ c[l] \in s .. m - 1 /\ I(k) <= c[l]
        BY <2>3, <3>3
      <4>2. a[I(k)] >= a[c[l]] /\ ~(a[I(k)] > a[J(k)])
        BY <2>6, <3>1, <4>1
      <4>3. a[J(k)] \in Int /\ a[c[l]] \in Int /\ a[I(k)] \in Int
        BY <2>3, <2>5, <3>1, <4>1
      <4> QED
        BY <3>1, <4>2, <4>3
    <3> QED
      BY <2>4, <3>2, <3>3
  <2> QED
    BY <2>8, <2>9
<1> QED
  BY <1>5, <1>6, <1>7

-----------------------------------------------------------------------------
(* The two vectors of merge sort.                                          *)
Pairs(n) == [a : Arrays(n), b : Arrays(n)]

(* What merge_sort_internal(a, s, e, b), or merging two pieces of it that  *)
(* are in order, makes, q, of p.                                           *)
Permuted(p, q, n, s, e) ==
    /\ q \in Pairs(n) /\ Rearranged(p.a, q.a)
    /\ \A x \in Indices(n) \ (s .. e - 1) : q.a[x] = p.a[x] /\ q.b[x] = p.b[x]

RangeInOrder(p, q, n, s, e) ==
    /\ Permuted(p, q, n, s, e)
    /\ Falling(q.a, s, e)
    /\ e - s >= 2 => \A x \in s .. e - 1 : q.b[x] = q.a[x]

(* Merging two pieces that are in order puts the range in order, and       *)
(* changes nothing outside of it.                                          *)
LEMMA PiecesMerged ==
    ASSUME NEW n \in Nat, NEW p \in Pairs(n), NEW s \in Nat, NEW m \in Nat, NEW e \in Nat,
           s <= m, m <= e, e <= n
    PROVE  /\ Permuted(p, MergePieces(p, s, m, e), n, s, e)
           /\ \A x \in s .. e - 1 : MergePieces(p, s, m, e).b[x] = MergePieces(p, s, m, e).a[x]
           /\ Falling(p.a, s, m) /\ Falling(p.a, m, e) =>
                  Falling(MergePieces(p, s, m, e).a, s, e)
<1> DEFINE a == p.a
           b == p.b
           c == [k \in 0 .. e - s - 1 |-> Chosen(a, Heads(a, s, m, e)[k], m, e)]
           Put(v) == [l \in DOMAIN v |->
                         IF s <= l /\ l < e
                         THEN a[Chosen(a, Heads(a, s, m, e)[l - s], m, e)] ELSE v[l]]
           q == MergePieces(p, s, m, e)
<1>1. a \in Arrays(n) /\ b \in Arrays(n)
  BY DEF Pairs
<1>2. q.a = Put(a) /\ q.b = Put(b)
  BY DEF MergePieces
<1>3. q = [a |-> Put(a), b |-> Put(b)]
  BY DEF MergePieces
<1> HIDE DEF a, b, q
<1>4. \A k \in 0 .. e - s - 1 : c[k] = Chosen(a, Heads(a, s, m, e)[k], m, e)
  OBVIOUS
<1> HIDE DEF c
<1>5. \A k \in 0 .. e - s - 1 :
          /\ c[k] \in s .. e - 1
          /\ \A l \in k + 1 .. e - s - 1 :
                /\ c[k] # c[l]
                /\ Falling(a, s, m) /\ Falling(a, m, e) => a[c[k]] >= a[c[l]]
  BY <1>1, <1>4, ChosenOnce
<1>6. ASSUME NEW v \in Arrays(n)
      PROVE  /\ DOMAIN Put(v) = Indices(n)
             /\ \A l \in Indices(n) :
                   Put(v)[l] = IF l \in s .. e - 1 THEN a[c[l - s]] ELSE v[l]
  <2>1. DOMAIN v = Indices(n)
    BY DEF Arrays
  <2>2. ASSUME NEW l \in Indices(n)
        PROVE  Put(v)[l] = IF l \in s .. e - 1 THEN a[c[l - s]] ELSE v[l]
    <3>1. l \in Nat
      BY DEF Indices
    <3>2. Put(v)[l] = IF s <= l /\ l < e
                      THEN a[Chosen(a, Heads(a, s, m, e)[l - s], m, e)] ELSE v[l]
      BY <2>1
    <3>3. s <= l /\ l < e => l - s \in 0 .. e - s - 1
      BY <3>1
    <3>4. s <= l /\ l < e <=> l \in s .. e - 1
      BY <3>1
    <3> QED
      BY <1>4, <3>2, <3>3, <3>4
  <2> QED
    BY <2>1, <2>2
<1> HIDE DEF Put
<1>7. \A l \in s .. e - 1 : l \in Indices(n) /\ l - s \in 0 .. e - s - 1
  BY DEF Indices
<1>8. \A l \in s .. e - 1 : c[l - s] \in s .. e - 1 /\ c[l - s] \in Indices(n)
  BY <1>5, <1>7
<1>9. ASSUME NEW v \in Arrays(n) PROVE Put(v) \in Arrays(n)
  <2>1. \A l \in Indices(n) : Put(v)[l] \in Int
    BY <1>1, <1>6, <1>8 DEF Arrays
  <2>2. Put(v) = [l \in Indices(n) |-> Put(v)[l]]
    <3>1. Put(v) = [l \in DOMAIN Put(v) |-> Put(v)[l]]
      BY DEF Put
    <3> QED
      BY <1>6, <3>1
  <2> QED
    BY <2>1, <2>2 DEF Arrays
<1>10. q \in Pairs(n)
  BY <1>1, <1>3, <1>9 DEF Pairs
<1>11. \A x \in Indices(n) \ (s .. e - 1) : q.a[x] = a[x] /\ q.b[x] = b[x]
  BY <1>1, <1>2, <1>6
<1>12. \A x \in s .. e - 1 : q.b[x] = q.a[x] /\ q.a[x] = a[c[x - s]]
  BY <1>1, <1>2, <1>6, <1>7
<1>13. \A x, y \in s .. e - 1 : x < y => c[x - s] # c[y - s]
  <2> SUFFICES ASSUME NEW x \in s .. e - 1, NEW y \in s .. e - 1, x < y
               PROVE  c[x - s] # c[y - s]
    OBVIOUS
  <2>1. x - s \in 0 .. e - s - 1 /\ y - s \in (x - s) + 1 .. e - s - 1
    OBVIOUS
  <2> QED
    BY <1>5, <2>1
<1>14. Rearranged(a, q.a)
  <2> DEFINE t == [l \in Indices(n) |-> IF l \in s .. e - 1 THEN c[l - s] ELSE l]
  <2>1. \A l \in Indices(n) : t[l] = IF l \in s .. e - 1 THEN c[l - s] ELSE l
    OBVIOUS
  <2>2. t \in [Indices(n) -> Indices(n)]
    BY <1>8
  <2> HIDE DEF t
  <2>3. ASSUME NEW i \in Indices(n), NEW j \in Indices(n), i # j PROVE t[i] # t[j]
    <3>1. i \in Int /\ j \in Int
      BY DEF Indices
    <3>2. CASE i \in s .. e - 1 /\ j \in s .. e - 1
      <4>1. i < j \/ j < i
        BY <2>3, <3>1
      <4> QED
        BY <1>13, <2>1, <3>2, <4>1
    <3>3. CASE ~(i \in s .. e - 1 /\ j \in s .. e - 1)
      BY <1>8, <2>1, <2>3, <3>3
    <3> QED
      BY <3>2, <3>3
  <2>4. \A l \in Indices(n) : q.a[l] = a[t[l]]
    BY <1>11, <1>12, <2>1
  <2>5. DOMAIN a = Indices(n)
    BY <1>1 DEF Arrays
  <2>6. /\ t \in [DOMAIN a -> DOMAIN a]
        /\ \A i, j \in DOMAIN a : t[i] = t[j] => i = j
        /\ \A i \in DOMAIN a : q.a[i] = a[t[i]]
    BY <2>2, <2>3, <2>4, <2>5
  <2> QED
    BY <2>6, Zenon DEF Rearranged
<1>15. ASSUME Falling(a, s, m), Falling(a, m, e) PROVE Falling(q.a, s, e)
  <2> SUFFICES ASSUME NEW x \in s .. e - 1, NEW y \in s .. e - 1, x < y
               PROVE  q.a[x] >= q.a[y]
    BY DEF Falling
  <2>1. x - s \in 0 .. e - s - 1 /\ y - s \in (x - s) + 1 .. e - s - 1
    OBVIOUS
  <2>2. a[c[x - s]] >= a[c[y - s]]
    BY <1>5, <1>15, <2>1
  <2> QED
    BY <1>12, <2>2
<1>16. Permuted(p, q, n, s, e)
  BY <1>10, <1>11, <1>14 DEF Permuted, a, b
<1> QED
  BY <1>12, <1>15, <1>16 DEF a, q

LEMMA PermutedTrans ==
    ASSUME NEW n \in Nat, NEW p \in Pairs(n), NEW q, NEW r, NEW s \in Nat, NEW e \in Nat,
           NEW x \in Nat, NEW y \in Nat, NEW z \in Nat, NEW t \in Nat,
           s <= x, y <= e, s <= z, t <= e,
           Permuted(p, q, n, x, y), Permuted(q, r, n, z, t)
    PROVE  Permuted(p, r, n, s, e)
<1>1. /\ q \in Pairs(n) /\ Rearranged(p.a, q.a)
      /\ \A i \in Indices(n) \ (x .. y - 1) : q.a[i] = p.a[i] /\ q.b[i] = p.b[i]
  BY DEF Permuted
<1>2. /\ r \in Pairs(n) /\ Rearranged(q.a, r.a)
      /\ \A i \in Indices(n) \ (z .. t - 1) : r.a[i] = q.a[i] /\ r.b[i] = q.b[i]
  BY DEF Permuted
<1>3. p.a \in Arrays(n) /\ q.a \in Arrays(n)
  BY <1>1 DEF Pairs
<1>4. Rearranged(p.a, r.a)
  BY <1>1, <1>2, <1>3, RearrangedTrans
<1>5. \A i \in Indices(n) \ (s .. e - 1) : i \notin x .. y - 1 /\ i \notin z .. t - 1
  BY DEF Indices
<1> QED
  BY <1>1, <1>2, <1>4, <1>5 DEF Permuted

(* Both halves in order, then merged.                                      *)
LEMMA HalvesMerged ==
    ASSUME NEW n \in Nat, NEW p \in Pairs(n), NEW s \in Nat, NEW m \in Nat, NEW e \in Nat,
           s <= m, m <= e, e <= n,
           NEW q, RangeInOrder(p, q, n, s, m), NEW r, RangeInOrder(q, r, n, m, e)
    PROVE  RangeInOrder(p, MergePieces(r, s, m, e), n, s, e)
<1> DEFINE z == MergePieces(r, s, m, e)
<1>1. q \in Pairs(n) /\ r \in Pairs(n)
  BY DEF RangeInOrder, Permuted
<1>2. Falling(r.a, s, m)
  <2>1. \A x \in s .. m - 1 : x \in Indices(n) \ (m .. e - 1)
    BY DEF Indices
  <2>2. \A x \in s .. m - 1 : r.a[x] = q.a[x]
    BY <2>1 DEF RangeInOrder, Permuted
  <2> QED
    BY <2>2 DEF RangeInOrder, Falling
<1>3. Falling(r.a, m, e)
  BY DEF RangeInOrder
<1>4. /\ Permuted(r, z, n, s, e) /\ Falling(z.a, s, e)
      /\ \A x \in s .. e - 1 : z.b[x] = z.a[x]
  <2>1. /\ Permuted(r, z, n, s, e)
        /\ \A x \in s .. e - 1 : z.b[x] = z.a[x]
        /\ Falling(r.a, s, m) /\ Falling(r.a, m, e) => Falling(z.a, s, e)
    BY <1>1, PiecesMerged
  <2> QED
    BY <1>2, <1>3, <2>1
<1> HIDE DEF z
<1>5. Permuted(p, r, n, s, e)
  <2>1. Permuted(p, q, n, s, m) /\ Permuted(q, r, n, m, e)
    BY DEF RangeInOrder
  <2>2. s <= s /\ e <= e
    OBVIOUS
  <2> QED
    BY <2>1, <2>2, PermutedTrans
<1>6. Permuted(p, z, n, s, e)
  <2>1. s <= s /\ e <= e
    OBVIOUS
  <2> QED
    BY <1>4, <1>5, <2>1, PermutedTrans
<1>7. RangeInOrder(p, z, n, s, e)
  BY <1>4, <1>6 DEF RangeInOrder
<1> QED
  BY <1>7 DEF z

LEMMA ShortRange ==
    ASSUME NEW n \in Nat, NEW p \in Pairs(n), NEW s \in Nat, NEW e \in Nat, e - s < 2
    PROVE  RangeInOrder(p, p, n, s, e)
<1>1. Permuted(p, p, n, s, e)
  BY RearrangedRefl DEF Permuted
<1>2. \A x, y \in s .. e - 1 : ~(x < y)
  OBVIOUS
<1> QED
  BY <1>1, <1>2 DEF RangeInOrder, Falling

-----------------------------------------------------------------------------
(* merge_sort_internal is a function that calls itself on shorter ranges.  *)
SortDomain(n) == Pairs(n) \X (0 .. n) \X (0 .. n)

SortsRanges(f, n) == f = [q \in SortDomain(n) |-> RangeSorted(f, q[1], q[2], q[3])]

Mid(s, e) == (s + e) \div 2

LEMMA MidBetween ==
    ASSUME NEW n \in Nat, NEW s \in 0 .. n, NEW e \in 0 .. n, e - s >= 2
    PROVE  Mid(s, e) \in 0 .. n /\ s < Mid(s, e) /\ Mid(s, e) < e
  BY DEF Mid

LEMMA RangeSortedIs ==
    ASSUME NEW n \in Nat, NEW f, NEW p, NEW s \in 0 .. n, NEW e \in 0 .. n
    PROVE  RangeSorted(f, p, s, e) =
               IF e - s < 2 THEN p
               ELSE MergePieces(f[<<f[<<p, s, Mid(s, e)>>], Mid(s, e), e>>],
                                s, Mid(s, e), e)
  BY DEF RangeSorted, Mid

LEMMA MergeSortRecurses == ASSUME NEW n \in Nat PROVE \E f : SortsRanges(f, n)
<1> DEFINE D == SortDomain(n)
           R == Pairs(n)
           B(F) == [q \in D |-> RangeSorted(F, q[1], q[2], q[3])]
           Phi == [F \in [D -> R] |-> B(F)]
           m == [q \in D |-> IF q[3] > q[2] THEN q[3] - q[2] ELSE 0]
<1>1. ASSUME NEW q \in D
      PROVE  q[1] \in R /\ q[2] \in 0 .. n /\ q[3] \in 0 .. n /\ q = <<q[1], q[2], q[3]>>
  BY DEF SortDomain
<1>2. ASSUME NEW p \in R, NEW s \in 0 .. n, NEW e \in 0 .. n PROVE <<p, s, e>> \in D
  BY DEF SortDomain
<1>3. ASSUME NEW p \in R, NEW s \in 0 .. n, NEW e \in 0 .. n
      PROVE  m[<<p, s, e>>] = IF e > s THEN e - s ELSE 0
  <2>1. \A q \in D : m[q] = IF q[3] > q[2] THEN q[3] - q[2] ELSE 0
    OBVIOUS
  <2> HIDE DEF m
  <2> QED
    BY <1>2, <2>1
<1>4. m \in [D -> Nat]
  BY <1>1
<1> HIDE DEF m
<1>5. ASSUME NEW F \in [D -> R], NEW p \in R, NEW s \in 0 .. n, NEW e \in 0 .. n
      PROVE  RangeSorted(F, p, s, e) \in R
  <2>1. CASE e - s < 2
    <3>1. RangeSorted(F, p, s, e) = p
      BY <2>1 DEF RangeSorted
    <3> QED
      BY <3>1
  <2>2. CASE ~(e - s < 2)
    <3> DEFINE c == Mid(s, e)
               x == F[<<p, s, c>>]
               y == F[<<x, c, e>>]
    <3>1. c \in 0 .. n /\ s < c /\ c < e
      BY <2>2, MidBetween
    <3>2. RangeSorted(F, p, s, e) = MergePieces(y, s, c, e)
      BY <2>2, RangeSortedIs
    <3> HIDE DEF c, D
    <3>3. x \in R
      BY <1>2, <3>1
    <3>4. y \in R
      <4> HIDE DEF x
      <4> QED
        BY <1>2, <3>1, <3>3
    <3> HIDE DEF x, y
    <3>5. Permuted(y, MergePieces(y, s, c, e), n, s, e)
      <4>1. /\ y \in Pairs(n) /\ s \in Nat /\ c \in Nat /\ e \in Nat
            /\ s <= c /\ c <= e /\ e <= n
        BY <3>1, <3>4
      <4> QED
        BY <4>1, PiecesMerged
    <3> QED
      BY <3>2, <3>5 DEF Permuted
  <2> QED
    BY <2>1, <2>2
<1>6. Phi \in [[D -> R] -> [D -> R]]
  <2>1. ASSUME NEW F \in [D -> R] PROVE B(F) \in [D -> R]
    <3>1. \A q \in D : RangeSorted(F, q[1], q[2], q[3]) \in R
      BY <1>1, <1>5
    <3> HIDE DEF D, R
    <3> QED
      BY <3>1
  <2> HIDE DEF B, D, R
  <2> QED
    BY <2>1
<1>7. Contracts(Phi, D, R, m)
  <2> SUFFICES ASSUME NEW F \in [D -> R], NEW G \in [D -> R], NEW q \in D,
                      \A t \in D : m[t] < m[q] => F[t] = G[t]
               PROVE  Phi[F][q] = Phi[G][q]
    BY DEF Contracts
  <2>1. PICK p \in R, s \in 0 .. n, e \in 0 .. n : q = <<p, s, e>>
    BY <1>1
  <2>2. Phi[F][q] = RangeSorted(F, p, s, e) /\ Phi[G][q] = RangeSorted(G, p, s, e)
    <3>1. q[1] = p /\ q[2] = s /\ q[3] = e
      BY <2>1
    <3>2. B(F)[q] = RangeSorted(F, q[1], q[2], q[3]) /\ B(G)[q] = RangeSorted(G, q[1], q[2], q[3])
      OBVIOUS
    <3>3. Phi[F] = B(F) /\ Phi[G] = B(G)
      <4> HIDE DEF B, D, R
      <4> QED
        OBVIOUS
    <3> HIDE DEF Phi, B, D, R
    <3> QED
      BY <3>1, <3>2, <3>3
  <2> HIDE DEF Phi, B, D
  <2>3. CASE e - s < 2
    <3>1. RangeSorted(F, p, s, e) = p /\ RangeSorted(G, p, s, e) = p
      BY <2>3 DEF RangeSorted
    <3> QED
      BY <2>2, <3>1
  <2>4. CASE ~(e - s < 2)
    <3> DEFINE c == Mid(s, e)
               x == F[<<p, s, c>>]
               y == F[<<x, c, e>>]
    <3>1. c \in 0 .. n /\ s < c /\ c < e
      BY <2>4, MidBetween
    <3>2. /\ RangeSorted(F, p, s, e) = MergePieces(y, s, c, e)
          /\ RangeSorted(G, p, s, e) = MergePieces(G[<<G[<<p, s, c>>], c, e>>], s, c, e)
      BY <2>4, RangeSortedIs
    <3> HIDE DEF c
    <3>3. m[q] = e - s
      BY <1>3, <2>1, <2>4
    <3>4. x \in R /\ x = G[<<p, s, c>>]
      <4>1. m[<<p, s, c>>] < m[q]
        BY <1>3, <3>1, <3>3
      <4> QED
        BY <1>2, <3>1, <4>1
    <3> HIDE DEF x, R
    <3>5. y = G[<<x, c, e>>]
      <4>1. m[<<x, c, e>>] < m[q]
        BY <1>3, <3>1, <3>3, <3>4
      <4> QED
        BY <1>2, <3>1, <3>4, <4>1
    <3> QED
      BY <2>2, <3>2, <3>4, <3>5
  <2> QED
    BY <2>3, <2>4
<1>8. R # {}
  <2>1. [x \in Indices(n) |-> 0] \in Arrays(n)
    BY DEF Arrays
  <2>2. [a |-> [x \in Indices(n) |-> 0], b |-> [x \in Indices(n) |-> 0]] \in Pairs(n)
    BY <2>1 DEF Pairs
  <2> QED
    BY <2>2
<1>9. Recursion(Phi, D, R, m)
  <2> HIDE DEF D, R, Phi
  <2> QED
    BY <1>4, <1>6, <1>7, <1>8 DEF Recursion
<1>10. \E F \in [D -> R] : F = Phi[F]
  <2> HIDE DEF D, R, Phi, B
  <2> QED
    BY <1>9, RecursionExists
<1>11. PICK F \in [D -> R] : F = Phi[F]
  BY <1>10
<1>12. F = B(F)
  <2> HIDE DEF B, D, R
  <2> QED
    BY <1>11
<1> QED
  BY <1>12 DEF SortsRanges

LEMMA MergeSortRangeAt ==
    ASSUME NEW n \in Nat
    PROVE  \E f : \A p \in Pairs(n), s \in 0 .. n, e \in 0 .. n :
              /\ MergeSortRange(p, s, e) = f[<<p, s, e>>]
              /\ f[<<p, s, e>>] = RangeSorted(f, p, s, e)
<1> DEFINE f == CHOOSE g : SortsRanges(g, n)
<1>1. SortsRanges(f, n)
  BY MergeSortRecurses
<1> SUFFICES ASSUME NEW p \in Pairs(n), NEW s \in 0 .. n, NEW e \in 0 .. n
             PROVE  /\ MergeSortRange(p, s, e) = f[<<p, s, e>>]
                    /\ f[<<p, s, e>>] = RangeSorted(f, p, s, e)
  OBVIOUS
<1>2. [a : [DOMAIN p.a -> Int], b : [DOMAIN p.a -> Int]]
         \X (0 .. Size(p.a)) \X (0 .. Size(p.a)) = SortDomain(n)
  <2>1. p.a \in Arrays(n)
    BY DEF Pairs
  <2>2. DOMAIN p.a = Indices(n) /\ Size(p.a) = n
    BY <2>1, ArraySize
  <2> QED
    BY <2>2 DEF SortDomain, Pairs, Arrays
<1>3. MergeSortRange(p, s, e) = f[<<p, s, e>>]
  BY <1>2 DEF MergeSortRange, SortsRanges
<1> HIDE DEF f
<1> DEFINE q == <<p, s, e>>
<1>4. q \in SortDomain(n) /\ q[1] = p /\ q[2] = s /\ q[3] = e
  BY DEF SortDomain
<1> HIDE DEF q
<1>5. f[q] = RangeSorted(f, q[1], q[2], q[3])
  <2> DEFINE g == [r \in SortDomain(n) |-> RangeSorted(f, r[1], r[2], r[3])]
  <2>1. g[q] = RangeSorted(f, q[1], q[2], q[3])
    BY <1>4
  <2>2. f = g
    BY <1>1 DEF SortsRanges
  <2> HIDE DEF g
  <2> QED
    BY <2>1, <2>2
<1>6. f[q] = RangeSorted(f, p, s, e)
  BY <1>4, <1>5
<1> QED
  BY <1>3, <1>6 DEF q

(* By the length of the range.                                             *)
LEMMA MergeSortRangeSorts ==
    ASSUME NEW n \in Nat, NEW p \in Pairs(n), NEW s \in 0 .. n, NEW e \in 0 .. n
    PROVE  RangeInOrder(p, MergeSortRange(p, s, e), n, s, e)
<1>1. PICK f : \A q \in Pairs(n), x \in 0 .. n, y \in 0 .. n :
          MergeSortRange(q, x, y) = f[<<q, x, y>>]
          /\ f[<<q, x, y>>] = RangeSorted(f, q, x, y)
  BY MergeSortRangeAt
<1> DEFINE S == {k \in Nat : \A q \in Pairs(n), x \in 0 .. n, y \in 0 .. n :
                    y - x <= k => RangeInOrder(q, f[<<q, x, y>>], n, x, y)}
<1>2. ASSUME NEW k \in Nat, \A j \in Nat : j < k => j \in S PROVE k \in S
  <2> SUFFICES ASSUME NEW q \in Pairs(n), NEW x \in 0 .. n, NEW y \in 0 .. n, y - x <= k
               PROVE  RangeInOrder(q, f[<<q, x, y>>], n, x, y)
    OBVIOUS
  <2>1. f[<<q, x, y>>] = RangeSorted(f, q, x, y)
    BY <1>1
  <2>2. CASE y - x < 2
    <3>1. RangeSorted(f, q, x, y) = q
      BY <2>2 DEF RangeSorted
    <3> QED
      BY <2>1, <2>2, <3>1, ShortRange
  <2>3. CASE ~(y - x < 2)
    <3> DEFINE c == Mid(x, y)
               u == f[<<q, x, c>>]
               w == f[<<u, c, y>>]
    <3>1. c \in 0 .. n /\ x < c /\ c < y
      BY <2>3, MidBetween
    <3>2. RangeSorted(f, q, x, y) = MergePieces(w, x, c, y)
      BY <2>3, RangeSortedIs
    <3> HIDE DEF c
    <3>3. k - 1 \in Nat /\ k - 1 < k /\ c - x <= k - 1 /\ y - c <= k - 1
      BY <2>3, <3>1
    <3>4. \A r \in Pairs(n), i \in 0 .. n, j \in 0 .. n :
              j - i <= k - 1 => RangeInOrder(r, f[<<r, i, j>>], n, i, j)
      BY <1>2, <3>3
    <3> HIDE DEF S
    <3>5. RangeInOrder(q, u, n, x, c)
      BY <3>1, <3>3, <3>4
    <3>6. u \in Pairs(n)
      BY <3>5 DEF RangeInOrder, Permuted
    <3> HIDE DEF u
    <3>7. RangeInOrder(u, w, n, c, y)
      BY <3>1, <3>3, <3>4, <3>6
    <3> HIDE DEF w
    <3>8. RangeInOrder(q, MergePieces(w, x, c, y), n, x, y)
      BY <3>1, <3>5, <3>7, HalvesMerged
    <3> QED
      BY <2>1, <3>2, <3>8
  <2> QED
    BY <2>2, <2>3
<1>3. Nat \subseteq S
  <2> HIDE DEF S
  <2> QED
    BY <1>2, MeasureInduction
<1>4. n \in S /\ e - s <= n
  BY <1>3
<1>5. RangeInOrder(p, f[<<p, s, e>>], n, s, e)
  BY <1>4
<1> QED
  BY <1>1, <1>5

(* The whole vector is one range.                                          *)
LEMMA MergeSortSorts ==
    ASSUME NEW n \in Nat, NEW v \in Arrays(n)
    PROVE  /\ MergeSort(v) \in Pairs(n) /\ Rearranged(v, MergeSort(v).a)
           /\ Falling(MergeSort(v).a, 0, n)
           /\ n # 1 => MergeSort(v).b = MergeSort(v).a
<1> DEFINE p == [a |-> v, b |-> [l \in DOMAIN v |-> 0]]
           q == MergeSort(v)
<1>1. Size(v) = n /\ DOMAIN v = Indices(n)
  BY ArraySize
<1>2. p \in Pairs(n) /\ p.a = v
  BY <1>1 DEF Pairs, Arrays
<1>3. q = MergeSortRange(p, 0, n)
  BY <1>1 DEF MergeSort
<1> HIDE DEF p, q
<1>4. RangeInOrder(p, q, n, 0, n)
  BY <1>2, <1>3, MergeSortRangeSorts
<1>5. q \in Pairs(n) /\ Rearranged(v, q.a) /\ Falling(q.a, 0, n)
  BY <1>2, <1>4 DEF RangeInOrder, Permuted
<1>6. ASSUME n # 1 PROVE q.b = q.a
  <2>1. q.a \in [Indices(n) -> Int] /\ q.b \in [Indices(n) -> Int]
    BY <1>5 DEF Pairs, Arrays
  <2>2. \A x \in Indices(n) : q.b[x] = q.a[x]
    <3>1. CASE n = 0
      BY <3>1 DEF Indices
    <3>2. CASE n # 0
      BY <1>4, <1>6, <3>2 DEF RangeInOrder, Indices
    <3> QED
      BY <3>1, <3>2
  <2> QED
    BY <2>1, <2>2
<1> QED
  BY <1>5, <1>6 DEF q

-----------------------------------------------------------------------------
LEMMA VectorsAreArrays == \A v \in Vectors : Size(v) \in Nat /\ v \in Arrays(Size(v))
  BY VectorsAssumption DEF Arrays, Indices

(* Whatever vector heap.cpp starts with, its loop leaves a heap of the     *)
(* same numbers.                                                           *)
THEOREM HeapIsMade == AlgorithmsSpec => []MakesHeap
<1>1. AlgorithmsInit => MakesHeap
  BY DEF AlgorithmsInit, MakesHeap
<1>2. MakesHeap /\ [AlgorithmsNext]_algorithmsVars => MakesHeap'
  <2> SUFFICES ASSUME MakesHeap, [AlgorithmsNext]_algorithmsVars PROVE MakesHeap'
    OBVIOUS
  <2>1. CASE RunHeap
    <3>1. PICK v \in Vectors : algorithm' = "heap" /\ given' = v /\ output' = MakeHeap(v)
      BY <2>1 DEF RunHeap, Run
    <3> DEFINE n == Size(v)
               w == MakeHeap(v)
    <3>2. n \in Nat /\ v \in Arrays(n)
      BY VectorsAreArrays
    <3>3. /\ w \in Arrays(n) /\ Rearranged(v, w)
          /\ \A x \in Indices(n) : w[x] <= w[Parent(x)]
      BY <3>2, MakeHeapMakesHeap
    <3> HIDE DEF n, w
    <3>4. SameElements(v, w) /\ DOMAIN w = Indices(n)
      BY <3>2, <3>3, RearrangedSame, ArraySize
    <3> QED
      BY <3>1, <3>3, <3>4 DEF MakesHeap, w
  <2>2. CASE RunMergeSort \/ RunLookAndSay \/ RunCalculator
    BY <2>2 DEF RunMergeSort, RunLookAndSay, RunCalculator, Run, MakesHeap
  <2>3. CASE UNCHANGED algorithmsVars
    BY <2>3 DEF algorithmsVars, MakesHeap
  <2> QED
    BY <2>1, <2>2, <2>3 DEF AlgorithmsNext
<1> QED
  BY <1>1, <1>2, PTL DEF AlgorithmsSpec

(* Whatever vector merge_sort.cpp starts with, a holds the same numbers in *)
(* falling order afterwards, and so does b unless there is only one.       *)
THEOREM VectorIsSorted == AlgorithmsSpec => []Sorts
<1>1. AlgorithmsInit => Sorts
  BY DEF AlgorithmsInit, Sorts
<1>2. Sorts /\ [AlgorithmsNext]_algorithmsVars => Sorts'
  <2> SUFFICES ASSUME Sorts, [AlgorithmsNext]_algorithmsVars PROVE Sorts'
    OBVIOUS
  <2>1. CASE RunMergeSort
    <3>1. PICK v \in Vectors :
              algorithm' = "merge_sort" /\ given' = v /\ output' = MergeSort(v)
      BY <2>1 DEF RunMergeSort, Run
    <3> DEFINE n == Size(v)
               q == MergeSort(v)
    <3>2. n \in Nat /\ v \in Arrays(n) /\ Size(v) = n
      BY VectorsAreArrays
    <3>3. /\ q \in Pairs(n) /\ Rearranged(v, q.a) /\ Falling(q.a, 0, n)
          /\ n # 1 => q.b = q.a
      BY <3>2, MergeSortSorts
    <3> HIDE DEF n, q
    <3>4. q.a \in Arrays(n)
      BY <3>3 DEF Pairs
    <3>5. SameElements(v, q.a) /\ DOMAIN v = 0 .. n - 1
      BY <3>2, <3>3, <3>4, RearrangedSame, ArraySize DEF Indices
    <3> QED
      BY <3>1, <3>2, <3>3, <3>5 DEF Sorts, Falling, q
  <2>2. CASE RunHeap \/ RunLookAndSay \/ RunCalculator
    BY <2>2 DEF RunHeap, RunLookAndSay, RunCalculator, Run, Sorts
  <2>3. CASE UNCHANGED algorithmsVars
    BY <2>3 DEF algorithmsVars, Sorts
  <2> QED
    BY <2>1, <2>2, <2>3 DEF AlgorithmsNext
<1> QED
  BY <1>1, <1>2, PTL DEF AlgorithmsSpec
-----------------------------------------------------------------------------
(* Every bounded set of numbers has a greatest one.                        *)
LEMMA GreatestExists ==
    ASSUME NEW T, NEW n \in Nat, T \subseteq 0 .. n, T # {}
    PROVE  \E x \in T : \A y \in T : y <= x
<1> DEFINE U == {n - x : x \in T}
<1>1. PICK u \in U : \A w \in U : u <= w
  <2>1. \A x \in T : n - x \in Nat
    OBVIOUS
  <2>2. U \subseteq Nat
    BY <2>1
  <2>3. U # {}
    OBVIOUS
  <2> HIDE DEF U
  <2> QED
    BY <2>2, <2>3, LeastExists
<1>2. PICK x \in T : u = n - x
  OBVIOUS
<1>3. \A y \in T : n - x <= n - y
  BY <1>1, <1>2
<1> QED
  BY <1>3

-----------------------------------------------------------------------------
(* FlattenSeq.                                                             *)
Flattens(f, gs, S) ==
    /\ f \in [1 .. Len(gs) -> Seq(S)]
    /\ FlattenSeq(gs) = f[Len(gs)] /\ f[1] = gs[1]
    /\ \A i \in 2 .. Len(gs) : f[i] = f[i - 1] \o gs[i]

LEMMA FlattenAt ==
    ASSUME NEW S, NEW gs \in Seq(Seq(S)), Len(gs) # 0
    PROVE  \E f : Flattens(f, gs, S)
<1> DEFINE N == Len(gs)
           R == Seq(S)
           Turns(f) == f = [i \in 1 .. N |-> IF i = 1 THEN gs[i] ELSE f[i - 1] \o gs[i]]
           b == CHOOSE f : Turns(f)
           G == [p \in (1 .. N - 1) \X R |-> p[2] \o gs[p[1] + 1]]
<1>1. N \in Nat /\ N # 0 /\ N - 1 \in Nat /\ \A i \in 1 .. N : gs[i] \in R
  OBVIOUS
<1>2. FlattenSeq(gs) = b[N]
  BY DEF FlattenSeq
<1> HIDE DEF N
<1>3. ASSUME NEW k \in 1 .. N - 1, NEW t \in R PROVE G[<<k, t>>] = t \o gs[k + 1]
  OBVIOUS
<1>4. Rounds(G, N - 1, R)
  <2>1. ASSUME NEW k \in 1 .. N - 1, NEW t \in R PROVE t \o gs[k + 1] \in R
    <3>1. gs[k + 1] \in R
      BY <1>1
    <3> QED
      BY <3>1
  <2> HIDE DEF R
  <2> QED
    BY <2>1 DEF Rounds
<1> HIDE DEF G
<1>5. PICK f \in [0 .. N - 1 -> R] :
          f[0] = gs[1] /\ \A k \in 1 .. N - 1 : f[k] = G[<<k, f[k - 1]>>]
  <2> DEFINE M == N - 1
             r == gs[1]
  <2>1. r \in R /\ M \in Nat /\ Rounds(G, M, R)
    BY <1>1, <1>4
  <2> HIDE DEF R, M, r
  <2>2. \E f \in [0 .. M -> R] : Repeats(f, r, G, M)
    BY <2>1, LoopExists
  <2> QED
    BY <2>2 DEF M, r, Repeats
<1> DEFINE h == [i \in 1 .. N |-> f[i - 1]]
<1>6. Turns(h)
  <2>1. ASSUME NEW i \in 1 .. N PROVE h[i] = IF i = 1 THEN gs[i] ELSE h[i - 1] \o gs[i]
    <3>1. CASE i = 1
      BY <1>5, <3>1
    <3>2. CASE i # 1
      <4>1. i - 1 \in 1 .. N - 1 /\ (i - 1) - 1 \in 0 .. N - 1 /\ (i - 1) + 1 = i /\ i - 1 \in 1 .. N
        BY <1>1, <3>2
      <4>2. f[i - 1] = f[(i - 1) - 1] \o gs[i]
        BY <1>3, <1>5, <4>1
      <4>3. h[i] = f[i - 1] /\ h[i - 1] = f[(i - 1) - 1]
        BY <4>1
      <4> QED
        BY <3>2, <4>2, <4>3
    <3> QED
      BY <3>1, <3>2
  <2>2. h = [i \in 1 .. N |-> h[i]]
    OBVIOUS
  <2> HIDE DEF h
  <2> QED
    BY <2>1, <2>2
<1>7. Turns(b)
  BY <1>6
<1> HIDE DEF b, h
<1>8. \A i \in 1 .. N : b[i] = IF i = 1 THEN gs[i] ELSE b[i - 1] \o gs[i]
  <2> DEFINE g == [i \in 1 .. N |-> IF i = 1 THEN gs[i] ELSE b[i - 1] \o gs[i]]
  <2>1. \A i \in 1 .. N : g[i] = IF i = 1 THEN gs[i] ELSE b[i - 1] \o gs[i]
    OBVIOUS
  <2>2. b = g
    BY <1>7
  <2> HIDE DEF g
  <2> QED
    BY <2>1, <2>2
<1>9. b = [i \in 1 .. N |-> b[i]]
  BY <1>7
<1> HIDE DEF Turns
<1>10. b[1] = gs[1] /\ \A i \in 2 .. N : b[i] = b[i - 1] \o gs[i]
  <2>1. 1 \in 1 .. N /\ \A i \in 2 .. N : i \in 1 .. N /\ i # 1
    BY <1>1
  <2> QED
    BY <1>8, <2>1
<1>11. ASSUME NEW i \in 1 .. N PROVE b[i] \in R
  <2> DEFINE T == {k \in Nat : k \in 1 .. N => b[k] \in R}
  <2>1. ASSUME NEW k \in Nat, \A l \in Nat : l < k => l \in T PROVE k \in T
    <3> SUFFICES ASSUME k \in 1 .. N PROVE b[k] \in R
      OBVIOUS
    <3>1. CASE k = 1
      BY <1>1, <1>10, <3>1
    <3>2. CASE k # 1
      <4>1. k - 1 \in Nat /\ k - 1 < k /\ k - 1 \in 1 .. N /\ k \in 2 .. N
        BY <1>1, <3>2
      <4>2. b[k - 1] \in R /\ gs[k] \in R
        BY <1>1, <2>1, <4>1
      <4>3. b[k] = b[k - 1] \o gs[k]
        BY <1>10, <4>1
      <4> QED
        BY <4>2, <4>3
    <3> QED
      BY <3>1, <3>2
  <2>2. Nat \subseteq T
    <3> HIDE DEF T
    <3> QED
      BY <2>1, MeasureInduction
  <2> QED
    BY <2>2
<1>12. b \in [1 .. N -> R]
  BY <1>9, <1>11
<1> HIDE DEF R
<1> QED
  BY <1>2, <1>10, <1>12 DEF N, R, Flattens

LEMMA SameSeq ==
    ASSUME NEW S, NEW s \in Seq(S), NEW t \in Seq(S), Len(s) = Len(t),
           \A i \in 1 .. Len(s) : s[i] = t[i]
    PROVE  s = t
  OBVIOUS

LEMMA ConcatAt ==
    ASSUME NEW S, NEW s \in Seq(S), NEW t \in Seq(S)
    PROVE  /\ s \o t \in Seq(S) /\ Len(s \o t) = Len(s) + Len(t)
           /\ \A i \in 1 .. Len(s) + Len(t) :
                  (s \o t)[i] = IF i <= Len(s) THEN s[i] ELSE t[i - Len(s)]
  OBVIOUS

LEMMA PrependAt ==
    ASSUME NEW S, NEW t \in Seq(S), NEW u
    PROVE  /\ Len(<<u>> \o t) = Len(t) + 1 /\ (<<u>> \o t)[1] = u
           /\ \A j \in 1 .. Len(t) : (<<u>> \o t)[j + 1] = t[j]
           /\ (<<u>> \o t) = [j \in 1 .. Len(t) + 1 |-> (<<u>> \o t)[j]]
<1> DEFINE U == S \cup {u}
           v == <<u>>
           w == v \o t
<1>1. v \in Seq(U) /\ Len(v) = 1 /\ v[1] = u
  OBVIOUS
<1>2. t \in Seq(U)
  <2>1. \A j \in 1 .. Len(t) : t[j] \in U
    OBVIOUS
  <2>2. t \in [1 .. Len(t) -> U] /\ Len(t) \in Nat
    BY <2>1
  <2> HIDE DEF U
  <2> QED
    BY <2>2
<1> HIDE DEF U, v
<1>3. /\ w \in Seq(U) /\ Len(w) = 1 + Len(t)
      /\ \A j \in 1 .. 1 + Len(t) : w[j] = IF j <= 1 THEN v[j] ELSE t[j - 1]
  <2>1. /\ v \o t \in Seq(U) /\ Len(v \o t) = Len(v) + Len(t)
        /\ \A j \in 1 .. Len(v) + Len(t) :
               (v \o t)[j] = IF j <= Len(v) THEN v[j] ELSE t[j - Len(v)]
    BY <1>1, <1>2, ConcatAt
  <2> QED
    BY <1>1, <2>1
<1> HIDE DEF w
<1>4. Len(t) \in Nat /\ Len(w) = Len(t) + 1
  BY <1>2, <1>3
<1>5. w[1] = u /\ \A j \in 1 .. Len(t) : w[j + 1] = t[j]
  BY <1>1, <1>3, <1>4
<1>6. w = [j \in 1 .. Len(t) + 1 |-> w[j]]
  BY <1>3, <1>4
<1> QED
  BY <1>4, <1>5, <1>6 DEF w, v

LEMMA FunctionIsSeq ==
    ASSUME NEW S, NEW n \in Nat, NEW s \in [1 .. n -> S]
    PROVE  s \in Seq(S) /\ Len(s) = n
  OBVIOUS

Associates(s, t, u) == (s \o t) \o u = s \o (t \o u)

LEMMA ConcatAssoc ==
    ASSUME NEW S, NEW s \in Seq(S), NEW t \in Seq(S), NEW u \in Seq(S)
    PROVE  Associates(s, t, u)
  BY DEF Associates

(* The first sequence comes first, and then the others.                    *)
LEMMA FlattenCons ==
    ASSUME NEW S, NEW gs \in Seq(Seq(S)), NEW u \in Seq(S)
    PROVE  FlattenSeq(<<u>> \o gs) = u \o FlattenSeq(gs)
<1> DEFINE hs == <<u>> \o gs
           N == Len(gs)
<1>1. /\ hs \in Seq(Seq(S)) /\ Len(hs) = N + 1 /\ hs[1] = u /\ N \in Nat
      /\ \A i \in 1 .. N : hs[i + 1] = gs[i] /\ gs[i] \in Seq(S)
  OBVIOUS
<1> HIDE DEF hs
<1>2. PICK f \in [1 .. N + 1 -> Seq(S)] :
          /\ FlattenSeq(hs) = f[N + 1] /\ f[1] = u
          /\ \A i \in 2 .. N + 1 : f[i] = f[i - 1] \o hs[i]
  <2>1. Len(hs) # 0
    BY <1>1
  <2>2. PICK f : Flattens(f, hs, S)
    BY <1>1, <2>1, FlattenAt
  <2> HIDE DEF N
  <2> QED
    BY <1>1, <2>2 DEF Flattens
<1>3. CASE N = 0
  <2>1. gs = <<>>
    BY <1>3
  <2>2. FlattenSeq(gs) = gs
    BY <1>3 DEF FlattenSeq
  <2> QED
    BY <1>2, <1>3, <2>1, <2>2 DEF hs
<1>4. CASE N # 0
  <2>1. PICK g \in [1 .. N -> Seq(S)] :
            /\ FlattenSeq(gs) = g[N] /\ g[1] = gs[1]
            /\ \A i \in 2 .. N : g[i] = g[i - 1] \o gs[i]
    BY <1>4, FlattenAt DEF Flattens
  <2> HIDE DEF N
  <2> DEFINE T == {k \in Nat : k \in 1 .. N => f[k + 1] = u \o g[k]}
  <2>2. ASSUME NEW k \in Nat, \A l \in Nat : l < k => l \in T PROVE k \in T
    <3> SUFFICES ASSUME k \in 1 .. N PROVE f[k + 1] = u \o g[k]
      OBVIOUS
    <3>1. f[k + 1] = f[k] \o gs[k]
      <4>1. k + 1 \in 2 .. N + 1 /\ (k + 1) - 1 = k
        BY <1>1
      <4>2. f[k + 1] = f[(k + 1) - 1] \o hs[k + 1]
        BY <1>2, <4>1
      <4> QED
        BY <1>1, <4>1, <4>2
    <3>2. CASE k = 1
      BY <1>1, <1>2, <2>1, <3>1, <3>2
    <3>3. CASE k # 1
      <4>1. k - 1 \in Nat /\ k - 1 < k /\ k - 1 \in 1 .. N /\ (k - 1) + 1 = k /\ k \in 2 .. N
        BY <1>1, <3>3, SMTT(20)
      <4>2. f[(k - 1) + 1] = u \o g[k - 1]
        BY <2>2, <4>1
      <4>3. f[k] = u \o g[k - 1]
        BY <4>1, <4>2
      <4>4. g[k] = g[k - 1] \o gs[k]
        BY <2>1, <4>1
      <4>5. g[k - 1] \in Seq(S) /\ gs[k] \in Seq(S)
        BY <1>1, <2>1, <4>1
      <4>6. f[k + 1] = (u \o g[k - 1]) \o gs[k]
        BY <3>1, <4>3
      <4>7. (u \o g[k - 1]) \o gs[k] = u \o (g[k - 1] \o gs[k])
        <5> DEFINE x == g[k - 1]
                   y == gs[k]
        <5>1. x \in Seq(S) /\ y \in Seq(S)
          BY <4>5
        <5> HIDE DEF x, y
        <5>2. Associates(u, x, y)
          BY <5>1, ConcatAssoc
        <5>3. (u \o x) \o y = u \o (x \o y)
          BY <5>2 DEF Associates
        <5> QED
          BY <5>3 DEF x, y
      <4> QED
        BY <4>4, <4>6, <4>7
    <3> QED
      BY <3>2, <3>3
  <2>3. Nat \subseteq T
    <3> HIDE DEF T
    <3> QED
      BY <2>2, MeasureInduction
  <2>4. N \in 1 .. N
    BY <1>1, <1>4
  <2> QED
    BY <1>1, <1>2, <2>1, <2>3, <2>4 DEF hs
<1> QED
  BY <1>3, <1>4

-----------------------------------------------------------------------------
(* The numbers on top of the stack that Group counts are all the same.     *)
LEMMA GroupIs ==
    ASSUME NEW s \in Seq(Int), s # <<>>
    PROVE  /\ Group(s) \in 1 .. Len(s)
           /\ \A i \in 1 .. Len(s) : i > Len(s) - Group(s) => s[i] = Last(s)
<1> DEFINE I == {i \in 1 .. Len(s) : s[i] # Last(s)}
           p == IF I # {} THEN Max(I) ELSE 0
<1>1. Group(s) = Len(s) - p
  BY DEF Group, SelectLastInSeq
<1>2. Len(s) \in Nat /\ Len(s) # 0 /\ Last(s) = s[Len(s)]
  BY DEF Last
<1>3. p \in 0 .. Len(s) - 1 /\ \A i \in 1 .. Len(s) : i > p => i \notin I
  <2>1. CASE I = {}
    BY <1>2, <2>1
  <2>2. CASE I # {}
    <3>1. \E x \in I : \A y \in I : y <= x
      <4>1. I \subseteq 0 .. Len(s)
        OBVIOUS
      <4> HIDE DEF I
      <4> QED
        BY <1>2, <2>2, <4>1, GreatestExists
    <3>2. p \in I /\ \A y \in I : y <= p
      <4>1. p = CHOOSE x \in I : \A y \in I : x >= y
        BY <2>2 DEF Max
      <4>2. \E x \in I : \A y \in I : x >= y
        BY <3>1
      <4> HIDE DEF I, p
      <4>3. p \in I /\ \A y \in I : p >= y
        BY <4>1, <4>2
      <4>4. I \subseteq Int
        BY DEF I
      <4> QED
        BY <4>3, <4>4
    <3>3. p \in 1 .. Len(s) /\ p # Len(s)
      BY <1>2, <3>2
    <3> HIDE DEF p
    <3> QED
      BY <1>2, <3>2, <3>3
  <2> QED
    BY <2>1, <2>2
<1> HIDE DEF p
<1> QED
  BY <1>1, <1>2, <1>3

-----------------------------------------------------------------------------
(* look-and-say as a recursive function over what is left of the input.    *)
SayDomain == Seq(Int) \X Nat
Says(f) == f = [p \in SayDomain |-> Said(f, p[1], p[2])]
Unsaid(s) == SubSeq(s, 1, Len(s) - Group(s))
CountedOn(s, said) == said + Group(s) - 1

LEMMA UnsaidShorter ==
    ASSUME NEW s \in Seq(Int), s # <<>>, NEW said \in Nat
    PROVE  /\ Unsaid(s) \in Seq(Int) /\ Len(Unsaid(s)) = Len(s) - Group(s)
           /\ Len(Unsaid(s)) < Len(s) /\ Last(s) \in Int
           /\ \A i \in 1 .. Len(s) - Group(s) : Unsaid(s)[i] = s[i]
           /\ CountedOn(s, said) \in Nat
<1>1. Group(s) \in 1 .. Len(s) /\ Len(s) \in Nat
  BY GroupIs
<1>2. Last(s) \in Int
  BY <1>1 DEF Last
<1>3. CountedOn(s, said) \in Nat
  BY <1>1 DEF CountedOn
<1> DEFINE k == Len(s) - Group(s)
<1>4. k \in 0 .. Len(s) /\ k < Len(s)
  BY <1>1
<1>5. Unsaid(s) = SubSeq(s, 1, k)
  BY DEF Unsaid
<1> HIDE DEF k
<1>6. /\ SubSeq(s, 1, k) \in Seq(Int) /\ Len(SubSeq(s, 1, k)) = k
      /\ \A i \in 1 .. k : SubSeq(s, 1, k)[i] = s[i]
  BY <1>1, <1>4
<1> QED
  BY <1>1, <1>2, <1>3, <1>4, <1>5, <1>6 DEF k

LEMMA SaidIs ==
    ASSUME NEW f, NEW s, s # <<>>, NEW said
    PROVE  Said(f, s, said) =
               <<CountedOn(s, said), Last(s)>> \o f[<<Unsaid(s), CountedOn(s, said)>>]
  BY DEF Said, CountedOn, Unsaid

(* It exists, by the length of what is left.                               *)
LEMMA SaysExists == \E f : Says(f)
<1> DEFINE D == SayDomain
           R == Seq(Int)
           B(F) == [p \in D |-> Said(F, p[1], p[2])]
           Phi == [F \in [D -> R] |-> B(F)]
           m == [p \in D |-> Len(p[1])]
<1>1. ASSUME NEW p \in D
      PROVE  p[1] \in Seq(Int) /\ p[2] \in Nat /\ p = <<p[1], p[2]>>
  BY DEF SayDomain
<1>2. ASSUME NEW s \in Seq(Int), NEW c \in Nat PROVE <<s, c>> \in D
  BY DEF SayDomain
<1>3. ASSUME NEW s \in Seq(Int), NEW c \in Nat PROVE m[<<s, c>>] = Len(s)
  <2>1. \A p \in D : m[p] = Len(p[1])
    OBVIOUS
  <2> HIDE DEF m
  <2> QED
    BY <1>2, <2>1
<1>4. m \in [D -> Nat]
  BY <1>1
<1> HIDE DEF m
<1>5. ASSUME NEW F \in [D -> R], NEW s \in Seq(Int), NEW c \in Nat
      PROVE  Said(F, s, c) \in R
  <2>1. CASE s = <<>>
    BY <2>1 DEF Said
  <2>2. CASE s # <<>>
    <3> DEFINE d == CountedOn(s, c)
               t == Unsaid(s)
               x == Last(s)
    <3>1. Said(F, s, c) = <<d, x>> \o F[<<t, d>>]
      BY <2>2, SaidIs
    <3>2. t \in Seq(Int) /\ d \in Nat /\ x \in Int
      BY <2>2, UnsaidShorter
    <3> HIDE DEF d, t, x, D
    <3>3. F[<<t, d>>] \in Seq(Int)
      BY <1>2, <3>2
    <3> QED
      BY <3>1, <3>2, <3>3
  <2> QED
    BY <2>1, <2>2
<1>6. Phi \in [[D -> R] -> [D -> R]]
  <2>1. ASSUME NEW F \in [D -> R] PROVE B(F) \in [D -> R]
    <3>1. \A p \in D : Said(F, p[1], p[2]) \in R
      BY <1>1, <1>5
    <3> HIDE DEF D, R
    <3> QED
      BY <3>1
  <2> HIDE DEF B, D, R
  <2> QED
    BY <2>1
<1>7. Contracts(Phi, D, R, m)
  <2> SUFFICES ASSUME NEW F \in [D -> R], NEW G \in [D -> R], NEW p \in D,
                      \A q \in D : m[q] < m[p] => F[q] = G[q]
               PROVE  Phi[F][p] = Phi[G][p]
    BY DEF Contracts
  <2>1. PICK s \in Seq(Int), c \in Nat : p = <<s, c>>
    BY <1>1
  <2>2. Phi[F][p] = Said(F, s, c) /\ Phi[G][p] = Said(G, s, c)
    <3>1. p[1] = s /\ p[2] = c
      BY <2>1
    <3>2. B(F)[p] = Said(F, p[1], p[2]) /\ B(G)[p] = Said(G, p[1], p[2])
      OBVIOUS
    <3>3. Phi[F] = B(F) /\ Phi[G] = B(G)
      <4> HIDE DEF B, D, R
      <4> QED
        OBVIOUS
    <3> HIDE DEF Phi, B, D, R
    <3> QED
      BY <3>1, <3>2, <3>3
  <2> HIDE DEF Phi, B, D
  <2>3. CASE s = <<>>
    <3>1. Said(F, s, c) = <<>> /\ Said(G, s, c) = <<>>
      BY <2>3 DEF Said
    <3> QED
      BY <2>2, <3>1
  <2>4. CASE s # <<>>
    <3> DEFINE d == CountedOn(s, c)
               t == Unsaid(s)
    <3>1. /\ Said(F, s, c) = <<d, Last(s)>> \o F[<<t, d>>]
          /\ Said(G, s, c) = <<d, Last(s)>> \o G[<<t, d>>]
      BY <2>4, SaidIs
    <3>2. t \in Seq(Int) /\ d \in Nat /\ Len(t) < Len(s)
      BY <2>4, UnsaidShorter
    <3> HIDE DEF d, t
    <3>3. m[<<t, d>>] < m[p] /\ <<t, d>> \in D
      BY <1>2, <1>3, <2>1, <3>2
    <3>4. F[<<t, d>>] = G[<<t, d>>]
      BY <3>3
    <3> QED
      BY <2>2, <3>1, <3>4
  <2> QED
    BY <2>3, <2>4
<1>8. R # {}
  <2>1. <<>> \in R
    OBVIOUS
  <2> QED
    BY <2>1
<1>9. Recursion(Phi, D, R, m)
  <2> HIDE DEF D, R, Phi
  <2> QED
    BY <1>4, <1>6, <1>7, <1>8 DEF Recursion
<1>10. \E F \in [D -> R] : F = Phi[F]
  <2> HIDE DEF D, R, Phi, B
  <2> QED
    BY <1>9, RecursionExists
<1>11. PICK F \in [D -> R] : F = Phi[F]
  BY <1>10
<1>12. F = B(F)
  <2> HIDE DEF B, D, R
  <2> QED
    BY <1>11
<1> QED
  BY <1>12 DEF Says

LEMMA SayAt ==
    \E f : /\ \A s \in Seq(Int) : processNidentical(s) = f[<<s, 1>>]
           /\ \A s \in Seq(Int), c \in Nat : f[<<s, c>>] = Said(f, s, c)
<1> DEFINE f == CHOOSE h : Says(h)
<1>1. ASSUME NEW s \in Seq(Int) PROVE processNidentical(s) = f[<<s, 1>>]
  BY DEF processNidentical, Says, SayDomain
<1>2. Says(f)
  BY SaysExists
<1> HIDE DEF f
<1>3. ASSUME NEW s \in Seq(Int), NEW c \in Nat PROVE f[<<s, c>>] = Said(f, s, c)
  <2> DEFINE g == [p \in SayDomain |-> Said(f, p[1], p[2])]
             q == <<s, c>>
  <2>1. q \in SayDomain /\ q[1] = s /\ q[2] = c
    BY DEF SayDomain
  <2>2. f = g
    BY <1>2 DEF Says
  <2>3. \A p \in SayDomain : g[p] = Said(f, p[1], p[2])
    OBVIOUS
  <2> HIDE DEF g, q
  <2>4. f[q] = Said(f, s, c)
    BY <2>1, <2>2, <2>3
  <2> QED
    BY <2>4 DEF q
<1> QED
  BY <1>1, <1>3

-----------------------------------------------------------------------------
(* What is read back from an output o whose count starts from said.       *)
Often(o, said, j) ==
    IF j = 1 THEN o[1] - said + 1 ELSE o[2 * j - 1] - o[2 * j - 3] + 1
Runs(o, said) ==
    [j \in 1 .. Len(o) \div 2 |-> [n \in 1 .. Often(o, said, j) |-> o[2 * j]]]

ReadBack(o, s, said) ==
    /\ o \in Seq(Int) /\ Len(o) = 2 * (Len(o) \div 2)
    /\ Runs(o, said) \in Seq(Seq(Int))
    /\ FlattenSeq(Runs(o, said)) = Reverse(s)

Prepended(w, d, x, o) == w = <<d, x>> \o o
AddsOneRun(w, c, d, x, o) ==
    /\ w \in Seq(Int) /\ Len(w) = 2 * (Len(w) \div 2)
    /\ Runs(w, c) = <<[n \in 1 .. d - c + 1 |-> x]>> \o Runs(o, d)

(* One group in front of what is said of the rest is one run in front.     *)
LEMMA RunsCons ==
    ASSUME NEW o \in Seq(Int), Len(o) = 2 * (Len(o) \div 2),
           NEW c \in Int, NEW d \in Int, NEW x \in Int, Runs(o, d) \in Seq(Seq(Int)),
           NEW w, Prepended(w, d, x, o)
    PROVE  AddsOneRun(w, c, d, x, o)
<1> USE DEF Prepended, AddsOneRun
<1> DEFINE N == Len(o) \div 2
           u == [n \in 1 .. d - c + 1 |-> x]
           r == <<u>> \o Runs(o, d)
<1>1. /\ w \in Seq(Int) /\ Len(w) = Len(o) + 2 /\ w[1] = d /\ w[2] = x
      /\ \A i \in 1 .. Len(o) : w[i + 2] = o[i]
  OBVIOUS
<1>2. N \in Nat /\ Len(o) = 2 * N /\ Len(w) = 2 * (N + 1) /\ Len(w) \div 2 = N + 1
  BY <1>1
<1>3. Runs(w, c) = [j \in 1 .. N + 1 |-> [n \in 1 .. Often(w, c, j) |-> w[2 * j]]]
  BY <1>2 DEF Runs
<1>4. Runs(o, d) = [j \in 1 .. N |-> [n \in 1 .. Often(o, d, j) |-> o[2 * j]]]
  BY DEF Runs
<1>5. Len(Runs(o, d)) = N
  <2>1. DOMAIN Runs(o, d) = 1 .. N
    BY <1>4
  <2> DEFINE t == Runs(o, d)
  <2>2. t \in Seq(Seq(Int)) /\ DOMAIN t = 1 .. N
    BY <2>1
  <2> HIDE DEF N, t
  <2>3. Len(t) \in Nat /\ 1 .. Len(t) = 1 .. N
    BY <2>2
  <2>4. Len(t) = N
    BY <1>2, <2>3
  <2> QED
    BY <2>4 DEF t
<1> HIDE DEF N, u
<1>6. /\ Len(r) = N + 1 /\ r[1] = u /\ \A j \in 1 .. N : r[j + 1] = Runs(o, d)[j]
      /\ r = [j \in 1 .. N + 1 |-> r[j]]
  <2> DEFINE t == Runs(o, d)
  <2>1. t \in Seq(Seq(Int)) /\ Len(t) = N
    BY <1>5
  <2> HIDE DEF t
  <2>2. /\ Len(<<u>> \o t) = N + 1 /\ (<<u>> \o t)[1] = u
        /\ \A j \in 1 .. N : (<<u>> \o t)[j + 1] = t[j]
        /\ (<<u>> \o t) = [j \in 1 .. N + 1 |-> (<<u>> \o t)[j]]
    <3>1. /\ Len(<<u>> \o t) = Len(t) + 1 /\ (<<u>> \o t)[1] = u
          /\ \A j \in 1 .. Len(t) : (<<u>> \o t)[j + 1] = t[j]
          /\ (<<u>> \o t) = [j \in 1 .. Len(t) + 1 |-> (<<u>> \o t)[j]]
      BY <2>1, PrependAt
    <3> QED
      BY <2>1, <3>1
  <2> QED
    BY <2>2 DEF t
<1> HIDE DEF r
<1>7. ASSUME NEW j \in 1 .. N + 1
      PROVE  r[j] = [n \in 1 .. Often(w, c, j) |-> w[2 * j]]
  <2>1. CASE j = 1
    <3>1. Often(w, c, j) = d - c + 1 /\ w[2 * j] = x
      BY <1>1, <2>1 DEF Often
    <3> QED
      BY <1>6, <2>1, <3>1 DEF u
  <2>2. CASE j # 1
    <3> DEFINE i == j - 1
    <3>1. i \in 1 .. N /\ j = i + 1
      BY <1>2, <2>2
    <3>2. r[j] = [n \in 1 .. Often(o, d, i) |-> o[2 * i]]
      <4>1. r[j] = Runs(o, d)[i]
        BY <1>6, <3>1
      <4> QED
        BY <1>4, <3>1, <4>1
    <3> HIDE DEF i
    <3>3. w[2 * j] = o[2 * i]
      <4>1. 2 * i \in 1 .. Len(o) /\ 2 * j = 2 * i + 2
        BY <1>2, <3>1
      <4> QED
        BY <1>1, <4>1
    <3>4. Often(w, c, j) = Often(o, d, i)
      <4>1. 2 * i - 1 \in 1 .. Len(o) /\ 2 * j - 1 = (2 * i - 1) + 2
        BY <1>2, <3>1
      <4>2. w[2 * j - 1] = o[2 * i - 1]
        BY <1>1, <4>1
      <4>3. CASE i = 1
        <5>1. 2 * j - 3 = 1 /\ 2 * i - 1 = 1
          BY <3>1, <4>3
        <5> QED
          BY <1>1, <2>2, <4>2, <4>3, <5>1 DEF Often
      <4>4. CASE i # 1
        <5>1. 2 * i - 3 \in 1 .. Len(o) /\ 2 * j - 3 = (2 * i - 3) + 2
          BY <1>2, <3>1, <4>4
        <5>2. w[2 * j - 3] = o[2 * i - 3]
          BY <1>1, <5>1
        <5> QED
          BY <2>2, <4>2, <4>4, <5>2 DEF Often
      <4> QED
        BY <4>3, <4>4
    <3> QED
      BY <3>2, <3>3, <3>4
  <2> QED
    BY <2>1, <2>2
<1>8. Runs(w, c) = r
  <2> DEFINE q == [j \in 1 .. N + 1 |-> r[j]]
             v == [j \in 1 .. N + 1 |-> [n \in 1 .. Often(w, c, j) |-> w[2 * j]]]
  <2>1. q = v
    BY <1>7
  <2> QED
    BY <1>3, <1>6, <2>1
<1> QED
  BY <1>1, <1>2, <1>8 DEF r, u

LEMMA ReverseGroup ==
    ASSUME NEW s \in Seq(Int), s # <<>>
    PROVE  /\ [n \in 1 .. Group(s) |-> Last(s)] \in Seq(Int)
           /\ Reverse(s) = [n \in 1 .. Group(s) |-> Last(s)] \o Reverse(Unsaid(s))
<1> DEFINE g == Group(s)
           N == Len(s)
           x == Last(s)
           t == Unsaid(s)
           u == [n \in 1 .. g |-> x]
           q == Reverse(t)
<1>1. g \in 1 .. N /\ N \in Nat /\ \A i \in 1 .. N : i > N - g => s[i] = x
  BY GroupIs
<1>2. /\ x \in Int /\ t \in Seq(Int) /\ Len(t) = N - g
      /\ \A i \in 1 .. N - g : t[i] = s[i]
  BY UnsaidShorter, 0 \in Nat
<1>3. Reverse(s) = [i \in 1 .. N |-> s[(N - i) + 1]]
  BY DEF Reverse
<1>4. \A i \in 1 .. N : (N - i) + 1 \in 1 .. N /\ s[(N - i) + 1] \in Int
  BY <1>1
<1> HIDE DEF g, N, x, t
<1>5. q \in Seq(Int) /\ Len(q) = N - g /\ \A i \in 1 .. N - g : q[i] = s[(N - g - i) + 1]
  <2>1. q = [i \in 1 .. N - g |-> t[(N - g - i) + 1]] /\ N - g \in Nat
    BY <1>1, <1>2 DEF Reverse
  <2>2. \A i \in 1 .. N - g : /\ (N - g - i) + 1 \in 1 .. N - g
                              /\ t[(N - g - i) + 1] = s[(N - g - i) + 1]
                              /\ s[(N - g - i) + 1] \in Int
    <3>1. ASSUME NEW i \in 1 .. N - g
          PROVE  /\ (N - g - i) + 1 \in 1 .. N - g
                 /\ g + i \in 1 .. N /\ (N - (g + i)) + 1 = (N - g - i) + 1
      BY <1>1
    <3>2. \A i \in 1 .. N - g : s[(N - g - i) + 1] \in Int
      BY <1>4, <3>1
    <3>3. \A i \in 1 .. N - g : t[(N - g - i) + 1] = s[(N - g - i) + 1]
      BY <1>2, <3>1
    <3> QED
      BY <3>1, <3>2, <3>3
  <2>3. DOMAIN q = 1 .. N - g /\ q = [i \in 1 .. N - g |-> q[i]]
    BY <2>1
  <2>4. \A i \in 1 .. N - g : q[i] = t[(N - g - i) + 1]
    BY <2>1
  <2> HIDE DEF q
  <2>5. q \in [1 .. N - g -> Int]
    BY <2>2, <2>3, <2>4
  <2> QED
    <3>1. N - g \in Nat
      BY <1>1
    <3>2. q \in Seq(Int) /\ Len(q) = N - g
      BY <2>5, <3>1, FunctionIsSeq
    <3> QED
      BY <2>2, <2>4, <3>2
<1>6. u \in Seq(Int) /\ Len(u) = g /\ \A i \in 1 .. g : u[i] = x
  BY <1>1, <1>2
<1> HIDE DEF q, u
<1>7. /\ u \o q \in Seq(Int) /\ Len(u \o q) = N
      /\ \A i \in 1 .. N : (u \o q)[i] = IF i <= g THEN u[i] ELSE q[i - g]
  <2>1. u \o q \in Seq(Int) /\ Len(u \o q) = Len(u) + Len(q)
    BY <1>5, <1>6, ConcatAt
  <2>2. \A i \in 1 .. Len(u) + Len(q) :
            (u \o q)[i] = IF i <= Len(u) THEN u[i] ELSE q[i - Len(u)]
    BY <1>5, <1>6, ConcatAt
  <2>3. Len(u) + Len(q) = N
    BY <1>1, <1>5, <1>6
  <2> QED
    BY <1>6, <2>1, <2>2, <2>3
<1>8. ASSUME NEW i \in 1 .. N PROVE (u \o q)[i] = s[(N - i) + 1]
  <2>1. CASE i <= g
    <3>1. (N - i) + 1 \in 1 .. N /\ (N - i) + 1 > N - g
      BY <1>1, <2>1
    <3>2. s[(N - i) + 1] = x
      BY <1>1, <3>1
    <3>3. (u \o q)[i] = u[i]
      BY <1>7, <2>1
    <3>4. u[i] = x
      BY <1>1, <1>6, <2>1
    <3> QED
      BY <3>2, <3>3, <3>4
  <2>2. CASE ~(i <= g)
    <3>1. i - g \in 1 .. N - g /\ (N - g - (i - g)) + 1 = (N - i) + 1
      BY <1>1, <2>2
    <3>2. q[i - g] = s[(N - g - (i - g)) + 1]
      BY <1>5, <3>1
    <3> QED
      BY <1>7, <2>2, <3>1, <3>2
  <2> QED
    BY <2>1, <2>2
<1>9. Reverse(s) \in Seq(Int) /\ Len(Reverse(s)) = N
      /\ \A i \in 1 .. N : Reverse(s)[i] = s[(N - i) + 1]
  BY <1>1, <1>3, <1>4
<1>10. Reverse(s) = u \o q
  <2> DEFINE y == Reverse(s)
             z == u \o q
  <2>1. y \in Seq(Int) /\ z \in Seq(Int) /\ Len(y) = N /\ Len(z) = N
        /\ \A i \in 1 .. N : y[i] = z[i]
    BY <1>7, <1>8, <1>9
  <2> HIDE DEF y, z
  <2>2. y = z
    BY <2>1, SameSeq
  <2> QED
    BY <2>2 DEF y, z
<1> QED
  BY <1>6, <1>10 DEF u, q, g, x, t

(* By the length of what is left.                                          *)
LEMMA SayIsReadBack ==
    ASSUME NEW s \in Seq(Int)
    PROVE  ReadBack(processNidentical(s), s, 1)
<1>1. PICK f : /\ \A t \in Seq(Int) : processNidentical(t) = f[<<t, 1>>]
               /\ \A t \in Seq(Int), c \in Nat : f[<<t, c>>] = Said(f, t, c)
  BY SayAt
<1> DEFINE T == {k \in Nat : \A t \in Seq(Int), c \in Nat :
                     Len(t) = k => ReadBack(f[<<t, c>>], t, c)}
<1>2. ASSUME NEW k \in Nat, \A l \in Nat : l < k => l \in T PROVE k \in T
  <2> SUFFICES ASSUME NEW t \in Seq(Int), NEW c \in Nat, Len(t) = k
               PROVE  ReadBack(f[<<t, c>>], t, c)
    OBVIOUS
  <2>1. CASE t = <<>>
    <3>1. f[<<t, c>>] = <<>>
      BY <1>1, <2>1 DEF Said
    <3>2. Runs(<<>>, c) = <<>>
      BY DEF Runs
    <3>3. FlattenSeq(<<>>) = <<>> /\ Reverse(<<>>) = <<>>
      BY DEF FlattenSeq, Reverse
    <3>4. <<>> \in Seq(Int) /\ <<>> \in Seq(Seq(Int)) /\ Len(<<>>) = 0 /\ 0 = 2 * (0 \div 2)
      OBVIOUS
    <3> QED
      BY <2>1, <3>1, <3>2, <3>3, <3>4 DEF ReadBack
  <2>2. CASE t # <<>>
    <3> DEFINE d == CountedOn(t, c)
               r == Unsaid(t)
               x == Last(t)
               o == f[<<r, d>>]
               w == <<d, x>> \o o
               u == [n \in 1 .. Group(t) |-> x]
    <3>1. f[<<t, c>>] = w
      <4>1. f[<<t, c>>] = Said(f, t, c)
        BY <1>1
      <4>2. Said(f, t, c) = w
        BY <2>2, SaidIs
      <4> HIDE DEF w
      <4> QED
        BY <4>1, <4>2
    <3>2. /\ r \in Seq(Int) /\ d \in Nat /\ x \in Int
          /\ Len(r) \in Nat /\ Len(r) < k
      <4> HIDE DEF T
      <4>1. /\ Unsaid(t) \in Seq(Int) /\ Len(Unsaid(t)) < Len(t) /\ Last(t) \in Int
            /\ CountedOn(t, c) \in Nat
        BY <2>2, UnsaidShorter
      <4> QED
        BY <4>1
    <3>3. ReadBack(o, r, d)
      <4> HIDE DEF r, d
      <4> QED
        BY <1>2, <3>2
    <3>4. d - c + 1 = Group(t)
      BY <2>2, GroupIs DEF CountedOn
    <3>5. u \in Seq(Int) /\ Reverse(t) = u \o Reverse(r)
      BY <2>2, ReverseGroup
    <3>6. /\ w \in Seq(Int) /\ Len(w) = 2 * (Len(w) \div 2)
          /\ Runs(w, c) = <<u>> \o Runs(o, d)
      <4> HIDE DEF d, x, o
      <4>1. o \in Seq(Int) /\ Len(o) = 2 * (Len(o) \div 2) /\ Runs(o, d) \in Seq(Seq(Int))
        BY <3>3 DEF ReadBack
      <4>2. c \in Int /\ d \in Int
        BY <3>2
      <4>3. AddsOneRun(w, c, d, x, o)
        <5>1. Prepended(w, d, x, o)
          BY DEF Prepended
        <5> HIDE DEF w
        <5> QED
          BY <3>2, <4>1, <4>2, <5>1, RunsCons
      <4>4. [n \in 1 .. d - c + 1 |-> x] = u
        BY <3>4
      <4> HIDE DEF w, u
      <4> QED
        BY <4>3, <4>4 DEF AddsOneRun
    <3> HIDE DEF d, r, x, o, w, u
    <3>7. Runs(o, d) \in Seq(Seq(Int)) /\ FlattenSeq(Runs(o, d)) = Reverse(r)
      BY <3>3 DEF ReadBack
    <3> DEFINE gs == Runs(o, d)
    <3>8. FlattenSeq(<<u>> \o gs) = u \o FlattenSeq(gs) /\ <<u>> \o gs \in Seq(Seq(Int))
      <4>1. gs \in Seq(Seq(Int))
        BY <3>7
      <4> HIDE DEF gs
      <4> QED
        <5>1. FlattenSeq(<<u>> \o gs) = u \o FlattenSeq(gs)
          BY <3>5, <4>1, FlattenCons
        <5>2. <<u>> \in Seq(Seq(Int))
          BY <3>5
        <5>3. <<u>> \o gs \in Seq(Seq(Int))
          <6> DEFINE R == Seq(Int)
          <6>1. <<u>> \in Seq(R) /\ gs \in Seq(R)
            BY <4>1, <5>2
          <6> HIDE DEF R
          <6>2. <<u>> \o gs \in Seq(R)
            BY <6>1
          <6> QED
            BY <6>2 DEF R
        <5> QED
          BY <5>1, <5>3
    <3> QED
      BY <3>1, <3>5, <3>6, <3>7, <3>8 DEF ReadBack
  <2> QED
    BY <2>1, <2>2
<1>3. Nat \subseteq T
  <2> HIDE DEF T
  <2> QED
    BY <1>2, MeasureInduction
<1>4. Len(s) \in T
  BY <1>3
<1>5. ReadBack(f[<<s, 1>>], s, 1)
  BY <1>4
<1> QED
  BY <1>1, <1>5

(* Whatever look-and-say is given can be read back from what it prints.    *)
THEOREM SaidIsReadBack == AlgorithmsSpec => []RunsCanBeReadBack
<1>1. AlgorithmsInit => RunsCanBeReadBack
  BY DEF AlgorithmsInit, RunsCanBeReadBack
<1>2. RunsCanBeReadBack /\ [AlgorithmsNext]_algorithmsVars => RunsCanBeReadBack'
  <2> SUFFICES ASSUME RunsCanBeReadBack, [AlgorithmsNext]_algorithmsVars
               PROVE  RunsCanBeReadBack'
    OBVIOUS
  <2>1. CASE RunLookAndSay
    <3>1. PICK s \in Utterances :
              algorithm' = "lookAndSay" /\ given' = s /\ output' = processNidentical(s)
      BY <2>1 DEF RunLookAndSay, Run
    <3> DEFINE o == processNidentical(s)
               v == [j \in 1 .. Len(o) \div 2 |->
                        [n \in 1 .. (IF 2 * j - 1 = 1 THEN o[1]
                                     ELSE o[2 * j - 1] - o[(2 * j - 1) - 2] + 1) |-> o[2 * j]]]
    <3>2. s \in Seq(Int)
      BY UtterancesAssumption
    <3>3. ReadBack(o, s, 1)
      BY <3>2, SayIsReadBack
    <3> HIDE DEF o
    <3>4. o \in Seq(Int) /\ Reverse(s) = FlattenSeq(Runs(o, 1))
      BY <3>3 DEF ReadBack
    <3>5. Runs(o, 1) = v
      <4>1. ASSUME NEW j \in 1 .. Len(o) \div 2
            PROVE  Often(o, 1, j) = IF 2 * j - 1 = 1 THEN o[1]
                                    ELSE o[2 * j - 1] - o[(2 * j - 1) - 2] + 1
        <5>1. CASE j = 1
          <6>1. o[1] \in Int
            BY <3>4, <5>1
          <6> QED
            BY <5>1, <6>1 DEF Often
        <5>2. CASE j # 1
          <6>1. 2 * j - 1 # 1 /\ (2 * j - 1) - 2 = 2 * j - 3
            BY <3>4, <5>2
          <6> QED
            BY <5>2, <6>1 DEF Often
        <5> QED
          BY <5>1, <5>2
      <4> QED
        BY <4>1 DEF Runs
    <3>6. RunsCanBeReadBack' <=> Reverse(s) = FlattenSeq(v)
      BY <3>1 DEF RunsCanBeReadBack, Counted, o
    <3> HIDE DEF v
    <3> QED
      BY <3>4, <3>5, <3>6
  <2>2. CASE RunHeap \/ RunMergeSort \/ RunCalculator
    BY <2>2 DEF RunHeap, RunMergeSort, RunCalculator, Run, RunsCanBeReadBack
  <2>3. CASE UNCHANGED algorithmsVars
    BY <2>3 DEF algorithmsVars, RunsCanBeReadBack, Counted
  <2> QED
    BY <2>1, <2>2, <2>3 DEF AlgorithmsNext
<1> QED
  BY <1>1, <1>2, PTL DEF AlgorithmsSpec
-----------------------------------------------------------------------------
(* A fold over the indices 1 .. n of a sequence, which c picks in turn.    *)
Picks(c, n) == \A t \in SUBSET (1 .. n) : t # {} => c[t] \in t
FoldBody(it, b, G, c, n) ==
    [t \in SUBSET (1 .. n) |-> IF t = {} THEN b ELSE G[<<c[t], it[t \ {c[t]}]>>]]

Folds(it, R, b, G, c, n) ==
    it \in [SUBSET (1 .. n) -> R] /\ it = FoldBody(it, b, G, c, n)

LEMMA FoldExists ==
    ASSUME NEW n \in Nat, NEW R, NEW b \in R, NEW G, Rounds(G, n, R), NEW c, Picks(c, n)
    PROVE  \E it : Folds(it, R, b, G, c, n)
<1> DEFINE D == SUBSET (1 .. n)
           B(F) == [t \in D |-> IF t = {} THEN b ELSE G[<<c[t], F[t \ {c[t]}]>>]]
           Phi == [F \in [D -> R] |-> B(F)]
           m == [t \in D |-> Cardinality(t)]
<1>1. ASSUME NEW t \in D
      PROVE  IsFiniteSet(t) /\ Cardinality(t) \in Nat
  <2>1. IsFiniteSet(1 .. n)
    BY FS_Interval
  <2> QED
    BY <2>1, FS_Subset, FS_CardinalityType
<1>2. ASSUME NEW t \in D, t # {}
      PROVE  /\ c[t] \in 1 .. n /\ t \ {c[t]} \in D
             /\ Cardinality(t \ {c[t]}) < Cardinality(t)
  <2>1. c[t] \in t
    BY <1>2 DEF Picks
  <2>2. Cardinality(t \ {c[t]}) = Cardinality(t) - 1
    BY <1>1, <2>1, FS_RemoveElement
  <2>3. Cardinality(t \ {c[t]}) < Cardinality(t)
    <3> DEFINE x == Cardinality(t \ {c[t]})
               y == Cardinality(t)
    <3>1. y \in Nat /\ x = y - 1
      BY <1>1, <2>2
    <3> HIDE DEF x, y
    <3>2. x < y
      BY <3>1
    <3> QED
      BY <3>2 DEF x, y
  <2> QED
    BY <2>1, <2>3
<1>3. \A t \in D : m[t] = Cardinality(t)
  OBVIOUS
<1>4. m \in [D -> Nat] /\ R # {}
  BY <1>1
<1> HIDE DEF D, m
<1>5. ASSUME NEW F \in [D -> R] PROVE B(F) \in [D -> R]
  <2>1. ASSUME NEW t \in D, t # {} PROVE G[<<c[t], F[t \ {c[t]}]>>] \in R
    <3>1. <<c[t], F[t \ {c[t]}]>> \in (1 .. n) \X R
      BY <1>2, <2>1
    <3> QED
      BY <3>1 DEF Rounds
  <2> QED
    BY <2>1
<1>6. Phi \in [[D -> R] -> [D -> R]]
  <2> HIDE DEF B
  <2> QED
    BY <1>5
<1>7. Contracts(Phi, D, R, m)
  <2> SUFFICES ASSUME NEW F \in [D -> R], NEW H \in [D -> R], NEW t \in D,
                      \A u \in D : m[u] < m[t] => F[u] = H[u]
               PROVE  Phi[F][t] = Phi[H][t]
    BY DEF Contracts
  <2>1. Phi[F] = B(F) /\ Phi[H] = B(H)
    <3> HIDE DEF B
    <3> QED
      OBVIOUS
  <2>2. t # {} => F[t \ {c[t]}] = H[t \ {c[t]}]
    BY <1>2, <1>3
  <2>3. /\ B(F)[t] = IF t = {} THEN b ELSE G[<<c[t], F[t \ {c[t]}]>>]
        /\ B(H)[t] = IF t = {} THEN b ELSE G[<<c[t], H[t \ {c[t]}]>>]
    OBVIOUS
  <2> HIDE DEF Phi, B
  <2> QED
    BY <2>1, <2>2, <2>3
<1>8. Recursion(Phi, D, R, m)
  <2> HIDE DEF Phi
  <2> QED
    BY <1>4, <1>6, <1>7 DEF Recursion
<1>9. PICK F \in [D -> R] : F = Phi[F]
  <2> HIDE DEF Phi
  <2> QED
    BY <1>8, RecursionExists
<1>10. F = B(F)
  <2> HIDE DEF B
  <2> QED
    BY <1>9
<1> QED
  BY <1>10 DEF Folds, FoldBody, D

MaxPick(n) == [t \in SUBSET (1 .. n) |-> Max(t)]
MinPick(n) == [t \in SUBSET (1 .. n) |-> Min(t)]

LEMMA MaxIs ==
    ASSUME NEW n \in Nat
    PROVE  /\ Picks(MaxPick(n), n)
           /\ \A t \in SUBSET (1 .. n) : MaxPick(n)[t] = Max(t)
           /\ \A k \in 1 .. n : /\ 1 .. k \in SUBSET (1 .. n) /\ 1 .. k # {}
                                /\ Max(1 .. k) = k /\ (1 .. k) \ {k} = 1 .. k - 1
<1>1. ASSUME NEW t \in SUBSET (1 .. n), t # {} PROVE Max(t) \in t /\ \A y \in t : Max(t) >= y
  <2>1. \E x \in t : \A y \in t : y <= x
    <3>1. t \subseteq 0 .. n
      OBVIOUS
    <3> QED
      BY <1>1, <3>1, GreatestExists
  <2>2. \E x \in t : \A y \in t : x >= y
    <3>1. t \subseteq Int
      OBVIOUS
    <3> QED
      BY <2>1, <3>1
  <2> QED
    BY <2>2 DEF Max
<1>2. ASSUME NEW k \in 1 .. n
      PROVE  /\ 1 .. k \in SUBSET (1 .. n) /\ 1 .. k # {}
             /\ Max(1 .. k) = k /\ (1 .. k) \ {k} = 1 .. k - 1
  <2>1. 1 .. k \in SUBSET (1 .. n) /\ k \in 1 .. k
    OBVIOUS
  <2>2. Max(1 .. k) \in 1 .. k /\ Max(1 .. k) >= k
    BY <1>1, <2>1
  <2> QED
    BY <2>1, <2>2
<1> QED
  BY <1>1, <1>2 DEF Picks, MaxPick

LEMMA MaxIn ==
    ASSUME NEW n \in Nat, NEW t \in SUBSET (1 .. n), t # {}
    PROVE  MaxPick(n)[t] = Max(t) /\ Max(t) \in 1 .. n
<1>1. Picks(MaxPick(n), n) /\ MaxPick(n)[t] = Max(t)
  BY MaxIs
<1>2. MaxPick(n)[t] \in t
  BY <1>1 DEF Picks
<1> QED
  BY <1>1, <1>2

-----------------------------------------------------------------------------
(* The sum of a sequence of numbers, by what it is after k of them.        *)
Sum(s) == FoldLeft(LAMBDA x, y : x + y, 0, s)
Sums(g, s) ==
    /\ Sum(s) = g[Len(s)] /\ g[0] = 0
    /\ \A k \in 0 .. Len(s) : g[k] \in Int
    /\ \A k \in 1 .. Len(s) : g[k] = g[k - 1] + s[k]

LEMMA SumAt ==
    ASSUME NEW s \in Seq(Int)
    PROVE  \E g : Sums(g, s)
<1> DEFINE n == Len(s)
           D == SUBSET DOMAIN s
           Body(it) ==
               it = [t \in D |-> IF t = {} THEN 0
                                 ELSE it[t \ {Max(t)}] + s[Max(t)]]
           b == CHOOSE it : Body(it)
           G == [p \in (1 .. n) \X Int |-> p[2] + s[p[1]]]
<1>1. Sum(s) = b[DOMAIN s]
  BY DEF Sum, FoldLeft, MapThenFoldSet
<1>2. /\ n \in Nat /\ DOMAIN s = 1 .. n /\ 0 \in Int
      /\ \A i \in 1 .. n, r \in Int : r + s[i] \in Int
  OBVIOUS
<1> HIDE DEF n
<1>3. Rounds(G, n, Int)
  BY <1>2 DEF Rounds
<1>4. ASSUME NEW k \in 1 .. n, NEW r \in Int PROVE G[<<k, r>>] = r + s[k]
  OBVIOUS
<1> HIDE DEF G
<1>5. PICK it : Folds(it, Int, 0, G, MaxPick(n), n)
  <2>1. Picks(MaxPick(n), n)
    BY <1>2, MaxIs
  <2> QED
    BY <1>2, <1>3, <2>1, FoldExists
<1>6. Body(it)
  <2> DEFINE u == FoldBody(it, 0, G, MaxPick(n), n)
             v == [t \in D |-> IF t = {} THEN 0
                               ELSE it[t \ {Max(t)}] + s[Max(t)]]
  <2>1. ASSUME NEW t \in SUBSET (1 .. n), t # {}
        PROVE  G[<<MaxPick(n)[t], it[t \ {MaxPick(n)[t]}]>>] =
                   it[t \ {Max(t)}] + s[Max(t)]
    <3>1. MaxPick(n)[t] = Max(t) /\ Max(t) \in 1 .. n
      BY <1>2, <2>1, MaxIn
    <3>2. it[t \ {Max(t)}] \in Int
      BY <1>5 DEF Folds
    <3> QED
      BY <1>4, <3>1, <3>2
  <2>2. u = v
    BY <1>2, <2>1 DEF FoldBody
  <2> HIDE DEF u, v
  <2>3. it = v
    BY <1>5, <2>2 DEF u, Folds
  <2> QED
    BY <2>3 DEF v
<1>7. Body(b)
  BY <1>6
<1> HIDE DEF b
<1>8. \A t \in SUBSET (1 .. n) :
          b[t] = IF t = {} THEN 0 ELSE b[t \ {Max(t)}] + s[Max(t)]
  <2> DEFINE v == [t \in D |-> IF t = {} THEN 0
                               ELSE b[t \ {Max(t)}] + s[Max(t)]]
  <2>1. \A t \in SUBSET (1 .. n) :
            v[t] = IF t = {} THEN 0 ELSE b[t \ {Max(t)}] + s[Max(t)]
    BY <1>2
  <2>2. b = v
    BY <1>7
  <2> HIDE DEF v
  <2> QED
    BY <2>1, <2>2
<1> HIDE DEF Body
<1> DEFINE g == [k \in 0 .. n |-> b[1 .. k]]
<1>9. \A k \in 0 .. n : g[k] = b[1 .. k]
  OBVIOUS
<1> HIDE DEF g
<1>10. g[0] = 0
  <2>1. 1 .. 0 = {} /\ 0 \in 0 .. n
    BY <1>2
  <2> QED
    BY <1>8, <1>9, <2>1
<1>11. ASSUME NEW k \in 1 .. n PROVE g[k] = g[k - 1] + s[k]
  <2>1. /\ 1 .. k \in SUBSET (1 .. n) /\ 1 .. k # {}
        /\ Max(1 .. k) = k /\ (1 .. k) \ {k} = 1 .. k - 1
    BY <1>2, MaxIs
  <2>2. b[1 .. k] = b[1 .. k - 1] + s[k]
    BY <1>8, <2>1
  <2>3. k \in 0 .. n /\ k - 1 \in 0 .. n
    BY <1>2
  <2> QED
    BY <1>9, <2>2, <2>3
<1>12. Sum(s) = g[n]
  BY <1>1, <1>2, <1>9
<1>13. ASSUME NEW k \in 0 .. n PROVE g[k] \in Int
  <2> DEFINE T == {l \in Nat : l \in 0 .. n => g[l] \in Int}
  <2>1. ASSUME NEW l \in Nat, \A j \in Nat : j < l => j \in T PROVE l \in T
    <3> SUFFICES ASSUME l \in 0 .. n, l # 0 PROVE g[l] \in Int
      BY <1>2, <1>10
    <3>1. l - 1 \in Nat /\ l - 1 < l /\ l - 1 \in 0 .. n /\ l \in 1 .. n
      BY <1>2
    <3>2. g[l - 1] \in Int
      BY <2>1, <3>1
    <3> QED
      BY <1>2, <1>11, <3>1, <3>2
  <2>2. Nat \subseteq T
    <3> HIDE DEF T
    <3> QED
      BY <2>1, MeasureInduction
  <2> QED
    BY <1>2, <2>2
<1> QED
  BY <1>10, <1>11, <1>12, <1>13 DEF Sums, n

(* The product of a sequence of numbers.                                   *)
Multiplies(g, s) ==
    /\ Multiplied(s) = g[Len(s)] /\ g[0] = 1
    /\ \A k \in 0 .. Len(s) : g[k] \in Int
    /\ \A k \in 1 .. Len(s) : g[k] = g[k - 1] * s[k]

LEMMA MultipliedAt ==
    ASSUME NEW s \in Seq(Int)
    PROVE  \E g : Multiplies(g, s)
<1> DEFINE n == Len(s)
           D == SUBSET DOMAIN s
           Body(it) ==
               it = [t \in D |-> IF t = {} THEN 1
                                 ELSE it[t \ {Max(t)}] * s[Max(t)]]
           b == CHOOSE it : Body(it)
           G == [p \in (1 .. n) \X Int |-> p[2] * s[p[1]]]
<1>1. Multiplied(s) = b[DOMAIN s]
  BY DEF Multiplied, FoldLeft, MapThenFoldSet
<1>2. /\ n \in Nat /\ DOMAIN s = 1 .. n /\ 1 \in Int
      /\ \A i \in 1 .. n, r \in Int : r * s[i] \in Int
  OBVIOUS
<1> HIDE DEF n
<1>3. Rounds(G, n, Int)
  BY <1>2 DEF Rounds
<1>4. ASSUME NEW k \in 1 .. n, NEW r \in Int PROVE G[<<k, r>>] = r * s[k]
  OBVIOUS
<1> HIDE DEF G
<1>5. PICK it : Folds(it, Int, 1, G, MaxPick(n), n)
  <2>1. Picks(MaxPick(n), n)
    BY <1>2, MaxIs
  <2> QED
    BY <1>2, <1>3, <2>1, FoldExists
<1>6. Body(it)
  <2> DEFINE u == FoldBody(it, 1, G, MaxPick(n), n)
             v == [t \in D |-> IF t = {} THEN 1
                               ELSE it[t \ {Max(t)}] * s[Max(t)]]
  <2>1. ASSUME NEW t \in SUBSET (1 .. n), t # {}
        PROVE  G[<<MaxPick(n)[t], it[t \ {MaxPick(n)[t]}]>>] =
                   it[t \ {Max(t)}] * s[Max(t)]
    <3>1. MaxPick(n)[t] = Max(t) /\ Max(t) \in 1 .. n
      BY <1>2, <2>1, MaxIn
    <3>2. it[t \ {Max(t)}] \in Int
      BY <1>5 DEF Folds
    <3> QED
      BY <1>4, <3>1, <3>2
  <2>2. u = v
    BY <1>2, <2>1 DEF FoldBody
  <2> HIDE DEF u, v
  <2>3. it = v
    BY <1>5, <2>2 DEF u, Folds
  <2> QED
    BY <2>3 DEF v
<1>7. Body(b)
  BY <1>6
<1> HIDE DEF b
<1>8. \A t \in SUBSET (1 .. n) :
          b[t] = IF t = {} THEN 1 ELSE b[t \ {Max(t)}] * s[Max(t)]
  <2> DEFINE v == [t \in D |-> IF t = {} THEN 1
                               ELSE b[t \ {Max(t)}] * s[Max(t)]]
  <2>1. \A t \in SUBSET (1 .. n) :
            v[t] = IF t = {} THEN 1 ELSE b[t \ {Max(t)}] * s[Max(t)]
    BY <1>2
  <2>2. b = v
    BY <1>7
  <2> HIDE DEF v
  <2> QED
    BY <2>1, <2>2
<1> HIDE DEF Body
<1> DEFINE g == [k \in 0 .. n |-> b[1 .. k]]
<1>9. \A k \in 0 .. n : g[k] = b[1 .. k]
  OBVIOUS
<1> HIDE DEF g
<1>10. g[0] = 1
  <2>1. 1 .. 0 = {} /\ 0 \in 0 .. n
    BY <1>2
  <2> QED
    BY <1>8, <1>9, <2>1
<1>11. ASSUME NEW k \in 1 .. n PROVE g[k] = g[k - 1] * s[k]
  <2>1. /\ 1 .. k \in SUBSET (1 .. n) /\ 1 .. k # {}
        /\ Max(1 .. k) = k /\ (1 .. k) \ {k} = 1 .. k - 1
    BY <1>2, MaxIs
  <2>2. b[1 .. k] = b[1 .. k - 1] * s[k]
    BY <1>8, <2>1
  <2>3. k \in 0 .. n /\ k - 1 \in 0 .. n
    BY <1>2
  <2> QED
    BY <1>9, <2>2, <2>3
<1>12. Multiplied(s) = g[n]
  BY <1>1, <1>2, <1>9
<1>13. ASSUME NEW k \in 0 .. n PROVE g[k] \in Int
  <2> DEFINE T == {l \in Nat : l \in 0 .. n => g[l] \in Int}
  <2>1. ASSUME NEW l \in Nat, \A j \in Nat : j < l => j \in T PROVE l \in T
    <3> SUFFICES ASSUME l \in 0 .. n, l # 0 PROVE g[l] \in Int
      BY <1>2, <1>10
    <3>1. l - 1 \in Nat /\ l - 1 < l /\ l - 1 \in 0 .. n /\ l \in 1 .. n
      BY <1>2
    <3>2. g[l - 1] \in Int
      BY <2>1, <3>1
    <3> QED
      BY <1>2, <1>11, <3>1, <3>2
  <2>2. Nat \subseteq T
    <3> HIDE DEF T
    <3> QED
      BY <2>1, MeasureInduction
  <2> QED
    BY <1>2, <2>2
<1> QED
  BY <1>10, <1>11, <1>12, <1>13 DEF Multiplies, n

(* The number that the digits on a stack make.                             *)
Unwinds(g, s) ==
    /\ Unwound(s) = g[Len(s)] /\ g[0] = 0
    /\ \A k \in 0 .. Len(s) : g[k] \in Int
    /\ \A k \in 1 .. Len(s) : g[k] = 10 * g[k - 1] + s[k]

LEMMA UnwoundAt ==
    ASSUME NEW s \in Seq(Int)
    PROVE  \E g : Unwinds(g, s)
<1> DEFINE n == Len(s)
           D == SUBSET DOMAIN s
           Body(it) ==
               it = [t \in D |-> IF t = {} THEN 0
                                 ELSE 10 * it[t \ {Max(t)}] + s[Max(t)]]
           b == CHOOSE it : Body(it)
           G == [p \in (1 .. n) \X Int |-> 10 * p[2] + s[p[1]]]
<1>1. Unwound(s) = b[DOMAIN s]
  BY DEF Unwound, FoldLeft, MapThenFoldSet
<1>2. /\ n \in Nat /\ DOMAIN s = 1 .. n /\ 0 \in Int
      /\ \A i \in 1 .. n, r \in Int : 10 * r + s[i] \in Int
  OBVIOUS
<1> HIDE DEF n
<1>3. Rounds(G, n, Int)
  BY <1>2 DEF Rounds
<1>4. ASSUME NEW k \in 1 .. n, NEW r \in Int PROVE G[<<k, r>>] = 10 * r + s[k]
  OBVIOUS
<1> HIDE DEF G
<1>5. PICK it : Folds(it, Int, 0, G, MaxPick(n), n)
  <2>1. Picks(MaxPick(n), n)
    BY <1>2, MaxIs
  <2> QED
    BY <1>2, <1>3, <2>1, FoldExists
<1>6. Body(it)
  <2> DEFINE u == FoldBody(it, 0, G, MaxPick(n), n)
             v == [t \in D |-> IF t = {} THEN 0
                               ELSE 10 * it[t \ {Max(t)}] + s[Max(t)]]
  <2>1. ASSUME NEW t \in SUBSET (1 .. n), t # {}
        PROVE  G[<<MaxPick(n)[t], it[t \ {MaxPick(n)[t]}]>>] =
                   10 * it[t \ {Max(t)}] + s[Max(t)]
    <3>1. MaxPick(n)[t] = Max(t) /\ Max(t) \in 1 .. n
      BY <1>2, <2>1, MaxIn
    <3>2. it[t \ {Max(t)}] \in Int
      BY <1>5 DEF Folds
    <3> QED
      BY <1>4, <3>1, <3>2
  <2>2. u = v
    BY <1>2, <2>1 DEF FoldBody
  <2> HIDE DEF u, v
  <2>3. it = v
    BY <1>5, <2>2 DEF u, Folds
  <2> QED
    BY <2>3 DEF v
<1>7. Body(b)
  BY <1>6
<1> HIDE DEF b
<1>8. \A t \in SUBSET (1 .. n) :
          b[t] = IF t = {} THEN 0 ELSE 10 * b[t \ {Max(t)}] + s[Max(t)]
  <2> DEFINE v == [t \in D |-> IF t = {} THEN 0
                               ELSE 10 * b[t \ {Max(t)}] + s[Max(t)]]
  <2>1. \A t \in SUBSET (1 .. n) :
            v[t] = IF t = {} THEN 0 ELSE 10 * b[t \ {Max(t)}] + s[Max(t)]
    BY <1>2
  <2>2. b = v
    BY <1>7
  <2> HIDE DEF v
  <2> QED
    BY <2>1, <2>2
<1> HIDE DEF Body
<1> DEFINE g == [k \in 0 .. n |-> b[1 .. k]]
<1>9. \A k \in 0 .. n : g[k] = b[1 .. k]
  OBVIOUS
<1> HIDE DEF g
<1>10. g[0] = 0
  <2>1. 1 .. 0 = {} /\ 0 \in 0 .. n
    BY <1>2
  <2> QED
    BY <1>8, <1>9, <2>1
<1>11. ASSUME NEW k \in 1 .. n PROVE g[k] = 10 * g[k - 1] + s[k]
  <2>1. /\ 1 .. k \in SUBSET (1 .. n) /\ 1 .. k # {}
        /\ Max(1 .. k) = k /\ (1 .. k) \ {k} = 1 .. k - 1
    BY <1>2, MaxIs
  <2>2. b[1 .. k] = 10 * b[1 .. k - 1] + s[k]
    BY <1>8, <2>1
  <2>3. k \in 0 .. n /\ k - 1 \in 0 .. n
    BY <1>2
  <2> QED
    BY <1>9, <2>2, <2>3
<1>12. Unwound(s) = g[n]
  BY <1>1, <1>2, <1>9
<1>13. ASSUME NEW k \in 0 .. n PROVE g[k] \in Int
  <2> DEFINE T == {l \in Nat : l \in 0 .. n => g[l] \in Int}
  <2>1. ASSUME NEW l \in Nat, \A j \in Nat : j < l => j \in T PROVE l \in T
    <3> SUFFICES ASSUME l \in 0 .. n, l # 0 PROVE g[l] \in Int
      BY <1>2, <1>10
    <3>1. l - 1 \in Nat /\ l - 1 < l /\ l - 1 \in 0 .. n /\ l \in 1 .. n
      BY <1>2
    <3>2. g[l - 1] \in Int
      BY <2>1, <3>1
    <3> QED
      BY <1>2, <1>11, <3>1, <3>2
  <2>2. Nat \subseteq T
    <3> HIDE DEF T
    <3> QED
      BY <2>1, MeasureInduction
  <2> QED
    BY <1>2, <2>2
<1> QED
  BY <1>10, <1>11, <1>12, <1>13 DEF Unwinds, n

-----------------------------------------------------------------------------
(* The characters the calculator reads, and its stacks.                    *)
Chars == 0 .. 12
States == [num : Seq(0 .. 9), op : Seq({Plus, Times}), vals : Seq(Int)]

LEMMA UnwoundInt == ASSUME NEW s \in Seq(Int) PROVE Unwound(s) \in Int
<1>1. PICK g : Unwinds(g, s)
  BY UnwoundAt
<1>2. Len(s) \in 0 .. Len(s)
  OBVIOUS
<1> QED
  BY <1>1, <1>2 DEF Unwinds

LEMMA DigitsInts == ASSUME NEW s \in Seq(0 .. 9) PROVE s \in Seq(Int)
<1>1. \A i \in 1 .. Len(s) : s[i] \in Int
  OBVIOUS
<1>2. s \in [1 .. Len(s) -> Int] /\ Len(s) \in Nat
  BY <1>1
<1> QED
  BY <1>2

LEMMA ReducedType ==
    ASSUME NEW vals \in Seq(Int), NEW o PROVE Reduced(vals, o) \in Seq(Int)
<1>1. CASE Len(vals) < 2
  BY <1>1 DEF Reduced, Underflow
<1>2. CASE ~(Len(vals) < 2)
  <2> DEFINE n == Len(vals)
             x == vals[n - 1]
             y == vals[n]
  <2>1. n \in Nat /\ n >= 2 /\ x \in Int /\ y \in Int
    BY <1>2
  <2>2. SubSeq(vals, 1, n - 2) \in Seq(Int)
    BY <2>1
  <2>3. Reduced(vals, o) = Append(SubSeq(vals, 1, n - 2), IF o = Times THEN x * y ELSE x + y)
    BY <1>2 DEF Reduced, Last
  <2>4. (IF o = Times THEN x * y ELSE x + y) \in Int
    BY <2>1
  <2> HIDE DEF n, x, y
  <2> QED
    BY <2>2, <2>3, <2>4
<1> QED
  BY <1>1, <1>2

LEMMA FrontType ==
    ASSUME NEW S, NEW s \in Seq(S), s # <<>>
    PROVE  Front(s) \in Seq(S) /\ Last(s) \in S
  BY DEF Front, Last

LEMMA ScannedType ==
    ASSUME NEW s \in States, NEW c \in Chars PROVE Scanned(s, c) \in States
<1>1. s.num \in Seq(0 .. 9) /\ s.op \in Seq({Plus, Times}) /\ s.vals \in Seq(Int)
  BY DEF States
<1>2. CASE c \in 0 .. 9
  <2>1. Scanned(s, c) = [s EXCEPT !.num = Append(@, c)]
    BY <1>2 DEF Scanned
  <2>2. Append(s.num, c) \in Seq(0 .. 9)
    BY <1>1, <1>2
  <2> QED
    BY <1>1, <2>1, <2>2 DEF States
<1>3. CASE c \notin 0 .. 9
  <2> DEFINE vals == Append(s.vals, Unwound(s.num))
             product == s.op # <<>> /\ Last(s.op) = Times
             op == IF product THEN Front(s.op) ELSE s.op
             nop == IF c = Blank THEN op ELSE Append(op, c)
             nvals == IF product THEN Reduced(vals, Times) ELSE vals
  <2>1. Scanned(s, c) = [num |-> <<>>, op |-> nop, vals |-> nvals]
    BY <1>3 DEF Scanned, Push
  <2>2. c # Blank => c \in {Plus, Times}
    BY <1>3 DEF Chars, Blank, Plus, Times
  <2>3. vals \in Seq(Int)
    BY <1>1, DigitsInts, UnwoundInt
  <2>4. op \in Seq({Plus, Times})
    BY <1>1, FrontType
  <2> HIDE DEF vals, op
  <2>5. nvals \in Seq(Int)
    BY <2>3, ReducedType
  <2>6. nop \in Seq({Plus, Times})
    BY <2>2, <2>4
  <2> HIDE DEF nop, nvals
  <2>7. <<>> \in Seq(0 .. 9)
    OBVIOUS
  <2> QED
    BY <2>1, <2>5, <2>6, <2>7 DEF States
<1> QED
  BY <1>2, <1>3

LEMMA NothingStacked == [num |-> <<>>, op |-> <<>>, vals |-> <<>>] \in States
  BY DEF States

LEMMA JoinedType ==
    ASSUME NEW c \in Chars, NEW t \in Seq(Chars), NEW p \in Seq(Chars)
    PROVE  t \o <<c>> \o p \in Seq(Chars)
<1>1. <<c>> \in Seq(Chars)
  OBVIOUS
<1>2. t \o <<c>> \in Seq(Chars)
  BY <1>1, ConcatAt
<1> QED
  BY <1>2, ConcatAt

LEMMA TailAt ==
    ASSUME NEW S, NEW s \in Seq(S), s # <<>>
    PROVE  /\ Head(s) \in S /\ Head(s) = s[1] /\ Tail(s) \in Seq(S) /\ Len(Tail(s)) = Len(s) - 1
           /\ Len(s) \in Nat \ {0}
           /\ \A i \in 1 .. Len(s) - 1 : Tail(s)[i] = s[i + 1]
  OBVIOUS

(* What is stacked after k characters.                                     *)
Stacks(g, text) ==
    /\ Stacked(text) = g[Len(text)] /\ g[0] = [num |-> <<>>, op |-> <<>>, vals |-> <<>>]
    /\ \A k \in 0 .. Len(text) : g[k] \in States
    /\ \A k \in 1 .. Len(text) : g[k] = Scanned(g[k - 1], text[k])

LEMMA StackedAt ==
    ASSUME NEW text \in Seq(Chars)
    PROVE  \E g : Stacks(g, text)
<1> DEFINE n == Len(text)
           D == SUBSET DOMAIN text
           Body(it) ==
               it = [t \in D |-> IF t = {} THEN [num |-> <<>>, op |-> <<>>, vals |-> <<>>]
                                 ELSE Scanned(it[t \ {Max(t)}], text[Max(t)])]
           b == CHOOSE it : Body(it)
           G == [p \in (1 .. n) \X States |-> Scanned(p[2], text[p[1]])]
<1>1. Stacked(text) = b[DOMAIN text]
  BY DEF Stacked, FoldLeft, MapThenFoldSet
<1>2. /\ n \in Nat /\ DOMAIN text = 1 .. n /\ [num |-> <<>>, op |-> <<>>, vals |-> <<>>] \in States
      /\ \A i \in 1 .. n, r \in States : Scanned(r, text[i]) \in States
  BY NothingStacked, ScannedType
<1> HIDE DEF n
<1>3. Rounds(G, n, States)
  BY <1>2 DEF Rounds
<1>4. ASSUME NEW k \in 1 .. n, NEW r \in States PROVE G[<<k, r>>] = Scanned(r, text[k])
  OBVIOUS
<1> HIDE DEF G
<1>5. PICK it : Folds(it, States, [num |-> <<>>, op |-> <<>>, vals |-> <<>>], G, MaxPick(n), n)
  <2>1. Picks(MaxPick(n), n)
    BY <1>2, MaxIs
  <2> QED
    BY <1>2, <1>3, <2>1, FoldExists
<1>6. Body(it)
  <2> DEFINE u == FoldBody(it, [num |-> <<>>, op |-> <<>>, vals |-> <<>>], G, MaxPick(n), n)
             v == [t \in D |-> IF t = {} THEN [num |-> <<>>, op |-> <<>>, vals |-> <<>>]
                               ELSE Scanned(it[t \ {Max(t)}], text[Max(t)])]
  <2>1. ASSUME NEW t \in SUBSET (1 .. n), t # {}
        PROVE  G[<<MaxPick(n)[t], it[t \ {MaxPick(n)[t]}]>>] =
                   Scanned(it[t \ {Max(t)}], text[Max(t)])
    <3>1. MaxPick(n)[t] = Max(t) /\ Max(t) \in 1 .. n
      BY <1>2, <2>1, MaxIn
    <3>2. it[t \ {Max(t)}] \in States
      BY <1>5 DEF Folds
    <3> QED
      BY <1>4, <3>1, <3>2
  <2>2. u = v
    BY <1>2, <2>1 DEF FoldBody
  <2> HIDE DEF u, v
  <2>3. it = v
    BY <1>5, <2>2 DEF u, Folds
  <2> QED
    BY <2>3 DEF v
<1>7. Body(b)
  BY <1>6
<1> HIDE DEF b
<1>8. \A t \in SUBSET (1 .. n) :
          b[t] = IF t = {} THEN [num |-> <<>>, op |-> <<>>, vals |-> <<>>] ELSE Scanned(b[t \ {Max(t)}], text[Max(t)])
  <2> DEFINE v == [t \in D |-> IF t = {} THEN [num |-> <<>>, op |-> <<>>, vals |-> <<>>]
                               ELSE Scanned(b[t \ {Max(t)}], text[Max(t)])]
  <2>1. \A t \in SUBSET (1 .. n) :
            v[t] = IF t = {} THEN [num |-> <<>>, op |-> <<>>, vals |-> <<>>] ELSE Scanned(b[t \ {Max(t)}], text[Max(t)])
    BY <1>2
  <2>2. b = v
    BY <1>7
  <2> HIDE DEF v
  <2> QED
    BY <2>1, <2>2
<1> HIDE DEF Body
<1> DEFINE g == [k \in 0 .. n |-> b[1 .. k]]
<1>9. \A k \in 0 .. n : g[k] = b[1 .. k]
  OBVIOUS
<1> HIDE DEF g
<1>10. g[0] = [num |-> <<>>, op |-> <<>>, vals |-> <<>>]
  <2>1. 1 .. 0 = {} /\ 0 \in 0 .. n
    BY <1>2
  <2> QED
    BY <1>8, <1>9, <2>1
<1>11. ASSUME NEW k \in 1 .. n PROVE g[k] = Scanned(g[k - 1], text[k])
  <2>1. /\ 1 .. k \in SUBSET (1 .. n) /\ 1 .. k # {}
        /\ Max(1 .. k) = k /\ (1 .. k) \ {k} = 1 .. k - 1
    BY <1>2, MaxIs
  <2>2. b[1 .. k] = Scanned(b[1 .. k - 1], text[k])
    BY <1>8, <2>1
  <2>3. k \in 0 .. n /\ k - 1 \in 0 .. n
    BY <1>2
  <2> QED
    BY <1>9, <2>2, <2>3
<1>12. Stacked(text) = g[n]
  BY <1>1, <1>2, <1>9
<1>13. ASSUME NEW k \in 0 .. n PROVE g[k] \in States
  <2> DEFINE T == {l \in Nat : l \in 0 .. n => g[l] \in States}
  <2>1. ASSUME NEW l \in Nat, \A j \in Nat : j < l => j \in T PROVE l \in T
    <3> SUFFICES ASSUME l \in 0 .. n, l # 0 PROVE g[l] \in States
      BY <1>2, <1>10
    <3>1. l - 1 \in Nat /\ l - 1 < l /\ l - 1 \in 0 .. n /\ l \in 1 .. n
      BY <1>2
    <3>2. g[l - 1] \in States
      BY <2>1, <3>1
    <3> QED
      BY <1>2, <1>11, <3>1, <3>2
  <2>2. Nat \subseteq T
    <3> HIDE DEF T
    <3> QED
      BY <2>1, MeasureInduction
  <2> QED
    BY <1>2, <2>2
<1> QED
  BY <1>10, <1>11, <1>12, <1>13 DEF Stacks, n

(* The text of parts with c between them.                                  *)
Joins(g, parts, c) ==
    /\ Joined(parts, c) = g[Len(Tail(parts))] /\ g[0] = Head(parts)
    /\ \A k \in 0 .. Len(Tail(parts)) : g[k] \in Seq(Chars)
    /\ \A k \in 1 .. Len(Tail(parts)) : g[k] = g[k - 1] \o <<c>> \o Tail(parts)[k]

LEMMA JoinedAt ==
    ASSUME NEW c \in Chars, NEW parts \in Seq(Seq(Chars)), parts # <<>>
    PROVE  \E g : Joins(g, parts, c)
<1> DEFINE n == Len(Tail(parts))
           D == SUBSET DOMAIN Tail(parts)
           Body(it) ==
               it = [t \in D |-> IF t = {} THEN Head(parts)
                                 ELSE it[t \ {Max(t)}] \o <<c>> \o Tail(parts)[Max(t)]]
           b == CHOOSE it : Body(it)
           G == [p \in (1 .. n) \X Seq(Chars) |-> p[2] \o <<c>> \o Tail(parts)[p[1]]]
<1>1. Joined(parts, c) = b[DOMAIN Tail(parts)]
  BY DEF Joined, FoldLeft, MapThenFoldSet
<1>2. /\ n \in Nat /\ DOMAIN Tail(parts) = 1 .. n /\ Head(parts) \in Seq(Chars)
      /\ \A i \in 1 .. n, r \in Seq(Chars) : r \o <<c>> \o Tail(parts)[i] \in Seq(Chars)
  <2>1. Head(parts) \in Seq(Chars) /\ Tail(parts) \in Seq(Seq(Chars))
    BY TailAt
  <2> DEFINE q == Tail(parts)
  <2>2. n \in Nat /\ DOMAIN q = 1 .. n /\ \A i \in 1 .. n : q[i] \in Seq(Chars)
    BY <2>1
  <2> HIDE DEF q
  <2>3. \A i \in 1 .. n, r \in Seq(Chars) : r \o <<c>> \o q[i] \in Seq(Chars)
    BY <2>2, JoinedType
  <2> QED
    BY <2>1, <2>2, <2>3 DEF q
<1> HIDE DEF n
<1>3. Rounds(G, n, Seq(Chars))
  BY <1>2 DEF Rounds
<1>4. ASSUME NEW k \in 1 .. n, NEW r \in Seq(Chars) PROVE G[<<k, r>>] = r \o <<c>> \o Tail(parts)[k]
  OBVIOUS
<1> HIDE DEF G
<1>5. PICK it : Folds(it, Seq(Chars), Head(parts), G, MaxPick(n), n)
  <2>1. Picks(MaxPick(n), n)
    BY <1>2, MaxIs
  <2> QED
    BY <1>2, <1>3, <2>1, FoldExists
<1>6. Body(it)
  <2> DEFINE u == FoldBody(it, Head(parts), G, MaxPick(n), n)
             v == [t \in D |-> IF t = {} THEN Head(parts)
                               ELSE it[t \ {Max(t)}] \o <<c>> \o Tail(parts)[Max(t)]]
  <2>1. ASSUME NEW t \in SUBSET (1 .. n), t # {}
        PROVE  G[<<MaxPick(n)[t], it[t \ {MaxPick(n)[t]}]>>] =
                   it[t \ {Max(t)}] \o <<c>> \o Tail(parts)[Max(t)]
    <3>1. MaxPick(n)[t] = Max(t) /\ Max(t) \in 1 .. n
      BY <1>2, <2>1, MaxIn
    <3>2. it[t \ {Max(t)}] \in Seq(Chars)
      BY <1>5 DEF Folds
    <3> QED
      BY <1>4, <3>1, <3>2
  <2>2. u = v
    BY <1>2, <2>1 DEF FoldBody
  <2> HIDE DEF u, v
  <2>3. it = v
    BY <1>5, <2>2 DEF u, Folds
  <2> QED
    BY <2>3 DEF v
<1>7. Body(b)
  BY <1>6
<1> HIDE DEF b
<1>8. \A t \in SUBSET (1 .. n) :
          b[t] = IF t = {} THEN Head(parts) ELSE b[t \ {Max(t)}] \o <<c>> \o Tail(parts)[Max(t)]
  <2> DEFINE v == [t \in D |-> IF t = {} THEN Head(parts)
                               ELSE b[t \ {Max(t)}] \o <<c>> \o Tail(parts)[Max(t)]]
  <2>1. \A t \in SUBSET (1 .. n) :
            v[t] = IF t = {} THEN Head(parts) ELSE b[t \ {Max(t)}] \o <<c>> \o Tail(parts)[Max(t)]
    BY <1>2
  <2>2. b = v
    BY <1>7
  <2> HIDE DEF v
  <2> QED
    BY <2>1, <2>2
<1> HIDE DEF Body
<1> DEFINE g == [k \in 0 .. n |-> b[1 .. k]]
<1>9. \A k \in 0 .. n : g[k] = b[1 .. k]
  OBVIOUS
<1> HIDE DEF g
<1>10. g[0] = Head(parts)
  <2>1. 1 .. 0 = {} /\ 0 \in 0 .. n
    BY <1>2
  <2> QED
    BY <1>8, <1>9, <2>1
<1>11. ASSUME NEW k \in 1 .. n PROVE g[k] = g[k - 1] \o <<c>> \o Tail(parts)[k]
  <2>1. /\ 1 .. k \in SUBSET (1 .. n) /\ 1 .. k # {}
        /\ Max(1 .. k) = k /\ (1 .. k) \ {k} = 1 .. k - 1
    BY <1>2, MaxIs
  <2>2. b[1 .. k] = b[1 .. k - 1] \o <<c>> \o Tail(parts)[k]
    BY <1>8, <2>1
  <2>3. k \in 0 .. n /\ k - 1 \in 0 .. n
    BY <1>2
  <2> QED
    BY <1>9, <2>2, <2>3
<1>12. Joined(parts, c) = g[n]
  BY <1>1, <1>2, <1>9
<1>13. ASSUME NEW k \in 0 .. n PROVE g[k] \in Seq(Chars)
  <2> DEFINE T == {l \in Nat : l \in 0 .. n => g[l] \in Seq(Chars)}
  <2>1. ASSUME NEW l \in Nat, \A j \in Nat : j < l => j \in T PROVE l \in T
    <3> SUFFICES ASSUME l \in 0 .. n, l # 0 PROVE g[l] \in Seq(Chars)
      BY <1>2, <1>10
    <3>1. l - 1 \in Nat /\ l - 1 < l /\ l - 1 \in 0 .. n /\ l \in 1 .. n
      BY <1>2
    <3>2. g[l - 1] \in Seq(Chars)
      BY <2>1, <3>1
    <3> QED
      BY <1>2, <1>11, <3>1, <3>2
  <2>2. Nat \subseteq T
    <3> HIDE DEF T
    <3> QED
      BY <2>1, MeasureInduction
  <2> QED
    BY <1>2, <2>2
<1> QED
  BY <1>10, <1>11, <1>12, <1>13 DEF Joins, n

-----------------------------------------------------------------------------
LEMMA MinIs ==
    ASSUME NEW n \in Nat
    PROVE  /\ Picks(MinPick(n), n)
           /\ \A t \in SUBSET (1 .. n) :
                  MinPick(n)[t] = Min(t) /\ (t # {} => Min(t) \in 1 .. n)
           /\ \A k \in 1 .. n : /\ k .. n \in SUBSET (1 .. n) /\ k .. n # {}
                                /\ Min(k .. n) = k /\ (k .. n) \ {k} = k + 1 .. n
<1>1. ASSUME NEW t \in SUBSET (1 .. n), t # {} PROVE Min(t) \in t /\ \A y \in t : Min(t) <= y
  <2>1. \E x \in t : \A y \in t : x <= y
    <3>1. t \subseteq Nat
      OBVIOUS
    <3> QED
      BY <1>1, <3>1, LeastExists
  <2> QED
    BY <2>1 DEF Min
<1>2. ASSUME NEW k \in 1 .. n
      PROVE  /\ k .. n \in SUBSET (1 .. n) /\ k .. n # {}
             /\ Min(k .. n) = k /\ (k .. n) \ {k} = k + 1 .. n
  <2>1. k .. n \in SUBSET (1 .. n) /\ k \in k .. n
    OBVIOUS
  <2>2. Min(k .. n) \in k .. n /\ Min(k .. n) <= k
    BY <1>1, <2>1
  <2> QED
    BY <2>1, <2>2
<1> QED
  BY <1>1, <1>2 DEF Picks, MinPick

(* The operators left on the stack, applied from the top.                  *)
Applied(ops, base) == FoldRight(LAMBDA operator, vals : Reduced(vals, operator), ops, base)
Applies(g, ops, base) ==
    /\ Applied(ops, base) = g[0] /\ g[Len(ops)] = base
    /\ \A k \in 1 .. Len(ops) : g[k - 1] = Reduced(g[k], ops[k])

LEMMA AppliedAt ==
    ASSUME NEW S, NEW ops \in Seq(S), NEW base \in Seq(Int)
    PROVE  \E g : Applies(g, ops, base)
<1> DEFINE n == Len(ops)
           D == SUBSET DOMAIN ops
           Body(it) ==
               it = [t \in D |-> IF t = {} THEN base
                                 ELSE Reduced(it[t \ {Min(t)}], ops[Min(t)])]
           b == CHOOSE it : Body(it)
           G == [p \in (1 .. n) \X Seq(Int) |-> Reduced(p[2], ops[p[1]])]
<1>1. Applied(ops, base) = b[DOMAIN ops]
  BY DEF Applied, FoldRight, MapThenFoldSet
<1>2. /\ n \in Nat /\ DOMAIN ops = 1 .. n /\ base \in Seq(Int)
      /\ \A i \in 1 .. n, r \in Seq(Int) : Reduced(r, ops[i]) \in Seq(Int)
  BY ReducedType
<1> HIDE DEF n
<1>3. Rounds(G, n, Seq(Int))
  BY <1>2 DEF Rounds
<1>4. ASSUME NEW k \in 1 .. n, NEW r \in Seq(Int) PROVE G[<<k, r>>] = Reduced(r, ops[k])
  OBVIOUS
<1> HIDE DEF G
<1>5. PICK it : Folds(it, Seq(Int), base, G, MinPick(n), n)
  <2>1. Picks(MinPick(n), n)
    BY <1>2, MinIs
  <2> QED
    BY <1>2, <1>3, <2>1, FoldExists
<1>6. Body(it)
  <2> DEFINE u == FoldBody(it, base, G, MinPick(n), n)
             v == [t \in D |-> IF t = {} THEN base
                               ELSE Reduced(it[t \ {Min(t)}], ops[Min(t)])]
  <2>1. ASSUME NEW t \in SUBSET (1 .. n), t # {}
        PROVE  G[<<MinPick(n)[t], it[t \ {MinPick(n)[t]}]>>] =
                   Reduced(it[t \ {Min(t)}], ops[Min(t)])
    <3>1. MinPick(n)[t] = Min(t) /\ Min(t) \in 1 .. n
      BY <1>2, <2>1, MinIs
    <3>2. it[t \ {Min(t)}] \in Seq(Int)
      BY <1>5 DEF Folds
    <3> QED
      BY <1>4, <3>1, <3>2
  <2>2. u = v
    BY <1>2, <2>1 DEF FoldBody
  <2> HIDE DEF u, v
  <2>3. it = v
    BY <1>5, <2>2 DEF u, Folds
  <2> QED
    BY <2>3 DEF v
<1>7. Body(b)
  BY <1>6
<1> HIDE DEF b
<1>8. \A t \in SUBSET (1 .. n) :
          b[t] = IF t = {} THEN base ELSE Reduced(b[t \ {Min(t)}], ops[Min(t)])
  <2> DEFINE v == [t \in D |-> IF t = {} THEN base
                               ELSE Reduced(b[t \ {Min(t)}], ops[Min(t)])]
  <2>1. \A t \in SUBSET (1 .. n) :
            v[t] = IF t = {} THEN base ELSE Reduced(b[t \ {Min(t)}], ops[Min(t)])
    BY <1>2
  <2>2. b = v
    BY <1>7
  <2> HIDE DEF v
  <2> QED
    BY <2>1, <2>2
<1> HIDE DEF Body
<1> DEFINE g == [k \in 0 .. n |-> b[k + 1 .. n]]
<1>9. \A k \in 0 .. n : g[k] = b[k + 1 .. n]
  OBVIOUS
<1> HIDE DEF g
<1>10. g[n] = base
  <2>1. n + 1 .. n = {} /\ n \in 0 .. n
    BY <1>2
  <2> QED
    BY <1>8, <1>9, <2>1
<1>11. ASSUME NEW k \in 1 .. n PROVE g[k - 1] = Reduced(g[k], ops[k])
  <2>1. /\ k .. n \in SUBSET (1 .. n) /\ k .. n # {}
        /\ Min(k .. n) = k /\ (k .. n) \ {k} = k + 1 .. n
    BY <1>2, MinIs
  <2>2. b[k .. n] = Reduced(b[k + 1 .. n], ops[k])
    BY <1>8, <2>1
  <2>3. k \in 0 .. n /\ k - 1 \in 0 .. n /\ (k - 1) + 1 = k
    BY <1>2
  <2> QED
    BY <1>9, <2>2, <2>3
<1>12. Applied(ops, base) = g[0]
  <2>1. 0 \in 0 .. n /\ 0 + 1 = 1
    BY <1>2
  <2> QED
    BY <1>1, <1>2, <1>9, <2>1
<1> QED
  BY <1>10, <1>11, <1>12 DEF Applies, n
-----------------------------------------------------------------------------
(* The digits of a number, and the number they make.                       *)
DigitsBody(F) ==
    [k \in Nat |-> IF k < 10 THEN <<k>> ELSE Append(F[k \div 10], k % 10)]

LEMMA DigitsExist == \E F : F = DigitsBody(F)
<1> DEFINE R == Seq(0 .. 9)
           D == Nat
           B(F) == DigitsBody(F)
           Phi == [F \in [D -> R] |-> B(F)]
           m == [k \in D |-> k]
<1>1. ASSUME NEW F \in [D -> R] PROVE B(F) \in [D -> R]
  <2>1. ASSUME NEW k \in Nat, ~(k < 10) PROVE Append(F[k \div 10], k % 10) \in R
    <3>1. k \div 10 \in Nat /\ k % 10 \in 0 .. 9
      OBVIOUS
    <3>2. F[k \div 10] \in R
      BY <3>1
    <3> QED
      BY <3>1, <3>2
  <2>2. ASSUME NEW k \in Nat, k < 10 PROVE <<k>> \in R
    <3>1. k \in 0 .. 9
      BY <2>2
    <3> QED
      BY <3>1
  <2> HIDE DEF R
  <2> QED
    BY <2>1, <2>2 DEF DigitsBody
<1>2. Phi \in [[D -> R] -> [D -> R]] /\ m \in [D -> Nat] /\ R # {}
  <2>1. m \in [D -> Nat] /\ <<>> \in R
    OBVIOUS
  <2> HIDE DEF B, D, R
  <2> QED
    BY <1>1, <2>1
<1>3. Contracts(Phi, D, R, m)
  <2> SUFFICES ASSUME NEW F \in [D -> R], NEW H \in [D -> R], NEW k \in D,
                      \A l \in D : m[l] < m[k] => F[l] = H[l]
               PROVE  Phi[F][k] = Phi[H][k]
    BY DEF Contracts
  <2>1. Phi[F] = B(F) /\ Phi[H] = B(H)
    <3> HIDE DEF B, D, R
    <3> QED
      OBVIOUS
  <2>2. ~(k < 10) => F[k \div 10] = H[k \div 10]
    <3>1. ~(k < 10) => k \div 10 \in Nat /\ k \div 10 < k
      OBVIOUS
    <3> QED
      BY <3>1
  <2>3. /\ B(F)[k] = IF k < 10 THEN <<k>> ELSE Append(F[k \div 10], k % 10)
        /\ B(H)[k] = IF k < 10 THEN <<k>> ELSE Append(H[k \div 10], k % 10)
    BY DEF DigitsBody
  <2> HIDE DEF Phi, m, B, D
  <2> QED
    BY <2>1, <2>2, <2>3
<1>4. Recursion(Phi, D, R, m)
  <2> HIDE DEF Phi, D, m, R
  <2> QED
    BY <1>2, <1>3 DEF Recursion
<1>5. PICK F \in [D -> R] : F = Phi[F]
  <2> HIDE DEF Phi, D, m, R
  <2> QED
    BY <1>4, RecursionExists
<1>6. F = B(F)
  <2> HIDE DEF B, D, R
  <2> QED
    BY <1>5
<1> QED
  BY <1>6

LEMMA DigitsAt ==
    ASSUME NEW k \in Nat
    PROVE  Digits(k) = IF k < 10 THEN <<k>> ELSE Append(Digits(k \div 10), k % 10)
<1> DEFINE f == CHOOSE F : F = DigitsBody(F)
<1>1. \A l \in Nat : Digits(l) = f[l]
  BY DEF Digits, DigitsBody
<1>2. f = DigitsBody(f)
  BY DigitsExist
<1> HIDE DEF f
<1>3. f[k] = IF k < 10 THEN <<k>> ELSE Append(f[k \div 10], k % 10)
  <2> DEFINE g == DigitsBody(f)
  <2>1. g[k] = IF k < 10 THEN <<k>> ELSE Append(f[k \div 10], k % 10)
    BY DEF DigitsBody
  <2>2. f = g
    BY <1>2
  <2> HIDE DEF g
  <2> QED
    BY <2>1, <2>2
<1>4. k \div 10 \in Nat
  OBVIOUS
<1> QED
  BY <1>1, <1>3, <1>4

LEMMA AppendAt ==
    ASSUME NEW S, NEW s \in Seq(S), NEW x \in S
    PROVE  /\ Append(s, x) \in Seq(S) /\ Len(Append(s, x)) = Len(s) + 1 /\ Len(s) \in Nat
           /\ Append(s, x)[Len(s) + 1] = x /\ Append(s, x) # <<>>
           /\ \A i \in 1 .. Len(s) : Append(s, x)[i] = s[i]
  OBVIOUS

LEMMA UnwoundAppend ==
    ASSUME NEW s \in Seq(Int), NEW d \in Int
    PROVE  Unwound(Append(s, d)) = 10 * Unwound(s) + d
<1> DEFINE t == Append(s, d)
           n == Len(s)
<1>1. t \in Seq(Int) /\ Len(t) = n + 1 /\ n \in Nat /\ t[n + 1] = d
      /\ \A i \in 1 .. n : t[i] = s[i]
  BY AppendAt
<1>2. PICK g : Unwinds(g, s)
  BY UnwoundAt
<1>3. PICK h : Unwinds(h, t)
  <2> HIDE DEF t
  <2> QED
    BY <1>1, UnwoundAt
<1> HIDE DEF t, n
<1>4. /\ Unwound(s) = g[n] /\ g[0] = 0
      /\ \A k \in 1 .. n : g[k] = 10 * g[k - 1] + s[k]
  BY <1>2 DEF Unwinds, n
<1>5. /\ Unwound(t) = h[n + 1] /\ h[0] = 0
      /\ \A k \in 1 .. n + 1 : h[k] = 10 * h[k - 1] + t[k]
  BY <1>1, <1>3 DEF Unwinds
<1> DEFINE T == {k \in Nat : k \in 0 .. n => g[k] = h[k]}
<1>6. ASSUME NEW k \in Nat, \A l \in Nat : l < k => l \in T PROVE k \in T
  <2> SUFFICES ASSUME k \in 0 .. n PROVE g[k] = h[k]
    OBVIOUS
  <2>1. CASE k = 0
    BY <1>4, <1>5, <2>1
  <2>2. CASE k # 0
    <3>1. k - 1 \in Nat /\ k - 1 < k /\ k - 1 \in 0 .. n /\ k \in 1 .. n /\ k \in 1 .. n + 1
      BY <1>1, <2>2
    <3>2. g[k - 1] = h[k - 1]
      BY <1>6, <3>1
    <3> QED
      BY <1>1, <1>4, <1>5, <3>1, <3>2
  <2> QED
    BY <2>1, <2>2
<1>7. Nat \subseteq T
  <2> HIDE DEF T
  <2> QED
    BY <1>6, MeasureInduction
<1>8. g[n] = h[n]
  BY <1>1, <1>7
<1>9. n + 1 \in 1 .. n + 1 /\ (n + 1) - 1 = n
  BY <1>1
<1>10. h[n + 1] = 10 * h[n] + d
  BY <1>1, <1>5, <1>9
<1> QED
  BY <1>4, <1>5, <1>8, <1>10 DEF t

(* The digits of a number, read back, make the number.                     *)
LEMMA DigitsOf ==
    ASSUME NEW k \in Nat
    PROVE  Digits(k) \in Seq(0 .. 9) /\ Digits(k) # <<>> /\ Unwound(Digits(k)) = k
<1> DEFINE R == Seq(0 .. 9)
           Right1(l) == Digits(l) \in R /\ Digits(l) # <<>> /\ Unwound(Digits(l)) = l
           T == {l \in Nat : Right1(l)}
<1>0. Unwound(<<>>) = 0
  <2>1. PICK g : Unwinds(g, <<>>)
    <3>1. <<>> \in Seq(Int)
      OBVIOUS
    <3> QED
      BY <3>1, UnwoundAt
  <2> QED
    BY <2>1 DEF Unwinds
<1>1. ASSUME NEW l \in Nat, \A j \in Nat : j < l => j \in T PROVE l \in T
  <2> SUFFICES Right1(l)
    OBVIOUS
  <2>1. CASE l < 10
    <3>1. Digits(l) = <<l>> /\ l \in 0 .. 9
      BY <2>1, DigitsAt
    <3>2. <<l>> = Append(<<>>, l) /\ <<>> \in Seq(Int) /\ <<l>> \in R /\ <<l>> # <<>>
      BY <3>1
    <3>3. Unwound(Append(<<>>, l)) = 10 * Unwound(<<>>) + l
      <4> DEFINE e == <<>>
      <4>1. e \in Seq(Int) /\ l \in Int
        BY <3>2
      <4> HIDE DEF e
      <4>2. Unwound(Append(e, l)) = 10 * Unwound(e) + l
        BY <4>1, UnwoundAppend
      <4> QED
        BY <4>2 DEF e
    <3>4. Unwound(<<l>>) = l
      BY <1>0, <3>2, <3>3
    <3> QED
      BY <3>1, <3>2, <3>4
  <2>2. CASE ~(l < 10)
    <3> DEFINE q == l \div 10
               d == l % 10
               s == Digits(q)
    <3>1. q \in Nat /\ q < l /\ d \in 0 .. 9 /\ l = 10 * q + d
      BY <2>2
    <3>2. Digits(l) = Append(s, d)
      BY <2>2, DigitsAt
    <3> HIDE DEF q, d
    <3>3. s \in R /\ Unwound(s) = q
      BY <1>1, <3>1
    <3> HIDE DEF s
    <3>4. Append(s, d) \in R /\ Append(s, d) # <<>>
      BY <3>1, <3>3, AppendAt
    <3>5. Unwound(Append(s, d)) = 10 * Unwound(s) + d
      BY <3>1, <3>3, DigitsInts, UnwoundAppend
    <3> QED
      BY <3>1, <3>2, <3>3, <3>4, <3>5
  <2> QED
    BY <2>1, <2>2
<1>2. Nat \subseteq T
  <2> HIDE DEF T
  <2> QED
    BY <1>1, MeasureInduction
<1> QED
  BY <1>2

-----------------------------------------------------------------------------
(* What is stacked after one more character.                               *)
LEMMA StackedType == ASSUME NEW t \in Seq(Chars) PROVE Stacked(t) \in States
<1>1. PICK g : Stacks(g, t)
  BY StackedAt
<1>2. Len(t) \in 0 .. Len(t)
  OBVIOUS
<1> QED
  BY <1>1, <1>2 DEF Stacks

LEMMA StackedNothing == Stacked(<<>>) = [num |-> <<>>, op |-> <<>>, vals |-> <<>>]
<1>1. <<>> \in Seq(Chars)
  OBVIOUS
<1>2. PICK g : Stacks(g, <<>>)
  BY <1>1, StackedAt
<1> QED
  BY <1>2 DEF Stacks

LEMMA StackedAppend ==
    ASSUME NEW s \in Seq(Chars), NEW d \in Chars
    PROVE  Stacked(Append(s, d)) = Scanned(Stacked(s), d)
<1> DEFINE t == Append(s, d)
           n == Len(s)
           e == [num |-> <<>>, op |-> <<>>, vals |-> <<>>]
<1>1. t \in Seq(Chars) /\ Len(t) = n + 1 /\ n \in Nat /\ t[n + 1] = d
      /\ \A i \in 1 .. n : t[i] = s[i]
  BY AppendAt
<1>2. PICK g : Stacks(g, s)
  BY StackedAt
<1>3. PICK h : Stacks(h, t)
  <2> HIDE DEF t
  <2> QED
    BY <1>1, StackedAt
<1> HIDE DEF t, n
<1>4. /\ Stacked(s) = g[n] /\ g[0] = e
      /\ \A k \in 1 .. n : g[k] = Scanned(g[k - 1], s[k])
  BY <1>2 DEF Stacks, n
<1>5. /\ Stacked(t) = h[n + 1] /\ h[0] = e
      /\ \A k \in 1 .. n + 1 : h[k] = Scanned(h[k - 1], t[k])
  BY <1>1, <1>3 DEF Stacks
<1> HIDE DEF e
<1> DEFINE T == {k \in Nat : k \in 0 .. n => g[k] = h[k]}
<1>6. ASSUME NEW k \in Nat, \A l \in Nat : l < k => l \in T PROVE k \in T
  <2> SUFFICES ASSUME k \in 0 .. n PROVE g[k] = h[k]
    OBVIOUS
  <2>1. CASE k = 0
    BY <1>4, <1>5, <2>1
  <2>2. CASE k # 0
    <3>1. k - 1 \in Nat /\ k - 1 < k /\ k - 1 \in 0 .. n /\ k \in 1 .. n /\ k \in 1 .. n + 1
      BY <1>1, <2>2
    <3>2. g[k - 1] = h[k - 1]
      BY <1>6, <3>1
    <3> QED
      BY <1>1, <1>4, <1>5, <3>1, <3>2
  <2> QED
    BY <2>1, <2>2
<1>7. Nat \subseteq T
  <2> HIDE DEF T
  <2> QED
    BY <1>6, MeasureInduction
<1>8. g[n] = h[n]
  BY <1>1, <1>7
<1>9. n + 1 \in 1 .. n + 1 /\ (n + 1) - 1 = n
  BY <1>1
<1>10. h[n + 1] = Scanned(h[n], d)
  BY <1>1, <1>5, <1>9
<1> QED
  BY <1>4, <1>5, <1>8, <1>10 DEF t

LEMMA ConcatAppend ==
    ASSUME NEW S, NEW s \in Seq(S), NEW t \in Seq(S), NEW x \in S
    PROVE  /\ s \o Append(t, x) = Append(s \o t, x) /\ s \o <<x>> = Append(s, x)
           /\ s \o <<>> = s /\ <<>> \o s = s
  OBVIOUS

LEMMA LastSplit ==
    ASSUME NEW S, NEW s \in Seq(S), s # <<>>
    PROVE  /\ Front(s) \in Seq(S) /\ Last(s) \in S /\ s = Append(Front(s), Last(s))
           /\ Len(Front(s)) \in Nat /\ Len(Front(s)) = Len(s) - 1
<1> DEFINE n == Len(s)
           f == SubSeq(s, 1, n - 1)
           x == s[n]
<1>1. Front(s) = f /\ Last(s) = x
  BY DEF Front, Last
<1>2. n \in Nat /\ n - 1 \in Nat /\ n \in 1 .. n /\ x \in S
  OBVIOUS
<1>3. f \in Seq(S) /\ Len(f) = n - 1 /\ \A i \in 1 .. n - 1 : f[i] = s[i]
  <2> DEFINE m == n - 1
  <2>1. m \in Nat /\ m <= Len(s)
    BY <1>2
  <2> HIDE DEF m
  <2>2. /\ SubSeq(s, 1, m) \in Seq(S) /\ Len(SubSeq(s, 1, m)) = m
        /\ \A i \in 1 .. m : SubSeq(s, 1, m)[i] = s[i]
    BY <2>1
  <2> QED
    BY <2>2 DEF m
<1> HIDE DEF f
<1>4. /\ Append(f, x) \in Seq(S) /\ Len(Append(f, x)) = n
      /\ Append(f, x)[n] = x /\ \A i \in 1 .. n - 1 : Append(f, x)[i] = f[i]
  <2> HIDE DEF n, x
  <2>1. (n - 1) + 1 = n
    BY <1>2
  <2> QED
    BY <1>2, <1>3, <2>1, AppendAt
<1>5. \A i \in 1 .. n : Append(f, x)[i] = s[i]
  BY <1>2, <1>3, <1>4
<1>6. s = Append(f, x)
  <2> DEFINE t == Append(f, x)
  <2>1. t \in Seq(S) /\ Len(s) = Len(t) /\ \A i \in 1 .. Len(s) : s[i] = t[i]
    BY <1>4, <1>5
  <2> HIDE DEF t
  <2>2. s = t
    BY <2>1, SameSeq
  <2> QED
    BY <2>2 DEF t
<1> QED
  BY <1>1, <1>2, <1>3, <1>6

(* The digits of a number are stacked on top of what there was.            *)
LEMMA StackedDigits ==
    ASSUME NEW t \in Seq(Chars), NEW ds \in Seq(0 .. 9)
    PROVE  /\ t \o ds \in Seq(Chars)
           /\ Stacked(t \o ds) = [num |-> Stacked(t).num \o ds, op |-> Stacked(t).op,
                                  vals |-> Stacked(t).vals]
<1> DEFINE Z == 0 .. 9
           st == Stacked(t)
           St(u) == [num |-> st.num \o u, op |-> st.op, vals |-> st.vals]
           T == {k \in Nat : \A u \in Seq(Z) : Len(u) = k =>
                    t \o u \in Seq(Chars) /\ Stacked(t \o u) = St(u)}
<1>1. st \in States
  BY StackedType
<1>2. st.num \in Seq(Z) /\ st = [num |-> st.num, op |-> st.op, vals |-> st.vals]
  <2> HIDE DEF st
  <2> QED
    BY <1>1 DEF States
<1> HIDE DEF st, Z
<1>3. ASSUME NEW k \in Nat, \A l \in Nat : l < k => l \in T PROVE k \in T
  <2> SUFFICES ASSUME NEW u \in Seq(Z), Len(u) = k
               PROVE  t \o u \in Seq(Chars) /\ Stacked(t \o u) = St(u)
    OBVIOUS
  <2>1. CASE u = <<>>
    <3>1. t \o <<>> = t /\ st.num \o <<>> = st.num
      BY <1>2
    <3> QED
      BY <1>2, <2>1, <3>1 DEF st
  <2>2. CASE u # <<>>
    <3> DEFINE v == Front(u)
               d == Last(u)
    <3>1. v \in Seq(Z) /\ d \in Z /\ u = Append(v, d) /\ Len(v) \in Nat /\ Len(v) < k
      BY <2>2, LastSplit
    <3> HIDE DEF v, d
    <3>2. t \o v \in Seq(Chars) /\ Stacked(t \o v) = St(v)
      BY <1>3, <3>1
    <3>3. d \in Chars
      BY <3>1 DEF Z, Chars
    <3>4. v \in Seq(Chars)
      <4>1. Z \subseteq Chars
        BY DEF Z, Chars
      <4> QED
        BY <3>1, <4>1
    <3>5. t \o u = Append(t \o v, d) /\ st.num \o u = Append(st.num \o v, d)
      <4>1. t \o Append(v, d) = Append(t \o v, d)
        BY <3>3, <3>4, ConcatAppend
      <4>2. st.num \o Append(v, d) = Append(st.num \o v, d)
        BY <1>2, <3>1, ConcatAppend
      <4> QED
        BY <3>1, <4>1, <4>2
    <3>6. Append(t \o v, d) \in Seq(Chars)
      BY <3>2, <3>3, AppendAt
    <3>7. Stacked(t \o u) = Scanned(St(v), d)
      BY <3>2, <3>3, <3>5, StackedAppend
    <3>8. Scanned(St(v), d) = [St(v) EXCEPT !.num = Append(@, d)]
      BY <3>1 DEF Scanned, Z
    <3>9. [St(v) EXCEPT !.num = Append(@, d)] = [num |-> Append(st.num \o v, d), op |-> st.op, vals |-> st.vals]
      <4> DEFINE a == st.num \o v
                 b == st.op
                 c == st.vals
                 r == [num |-> a, op |-> b, vals |-> c]
                 q == Append(a, d)
      <4>1. St(v) = r
        OBVIOUS
      <4> HIDE DEF a, b, c
      <4>2. [r EXCEPT !.num = Append(@, d)] = [r EXCEPT !.num = q]
        OBVIOUS
      <4> HIDE DEF q
      <4>3. [r EXCEPT !.num = q] = [num |-> q, op |-> b, vals |-> c]
        OBVIOUS
      <4> HIDE DEF r, St
      <4> QED
        BY <4>1, <4>2, <4>3 DEF q, a, b, c
    <3> QED
      BY <3>5, <3>6, <3>7, <3>8, <3>9
  <2> QED
    BY <2>1, <2>2
<1>4. Nat \subseteq T
  <2> HIDE DEF T
  <2> QED
    BY <1>3, MeasureInduction
<1>5. Len(ds) \in T /\ ds \in Seq(Z)
  BY <1>4 DEF Z
<1> QED
  BY <1>5 DEF st
-----------------------------------------------------------------------------
(* What the stacks are inside a product whose value so far is v: only the  *)
(* last number is on num; the ones before it are one product on vals.      *)
InProduct(s, ops, vs, v) ==
    /\ s \in States /\ s.num # <<>>
    /\ \/ s.op = ops /\ s.vals = vs /\ Unwound(s.num) = v
       \/ \E x \in Int : /\ s.op = Append(ops, Times) /\ s.vals = Append(vs, x)
                         /\ x * Unwound(s.num) = v

Waiting(ops, vs) == [num |-> <<>>, op |-> ops, vals |-> vs]

LEMMA LargerSeq == ASSUME NEW S, NEW R, S \subseteq R, NEW s \in Seq(S) PROVE s \in Seq(R)
<1>1. Len(s) \in Nat /\ s \in [1 .. Len(s) -> R]
  OBVIOUS
<1> QED
  BY <1>1

LEMMA AppendedLast ==
    ASSUME NEW S, NEW s \in Seq(S), NEW x \in S
    PROVE  /\ Append(s, x) \in Seq(S) /\ Append(s, x) # <<>>
           /\ Last(Append(s, x)) = x /\ Front(Append(s, x)) = s
<1> DEFINE t == Append(s, x)
           n == Len(s)
<1>1. t \in Seq(S) /\ Len(t) = n + 1 /\ n \in Nat /\ t[n + 1] = x /\ t # <<>>
      /\ \A i \in 1 .. n : t[i] = s[i]
  BY AppendAt
<1> HIDE DEF t, n
<1>2. Last(t) = x
  BY <1>1 DEF Last
<1>3. Front(t) = SubSeq(t, 1, n)
  BY <1>1 DEF Front
<1>4. n <= Len(t)
  BY <1>1
<1>5. /\ SubSeq(t, 1, n) \in Seq(S) /\ Len(SubSeq(t, 1, n)) = n
      /\ \A i \in 1 .. n : SubSeq(t, 1, n)[i] = t[i]
  BY <1>1, <1>4
<1>6. SubSeq(t, 1, n) = s
  <2> DEFINE q == SubSeq(t, 1, n)
  <2>1. q \in Seq(S) /\ Len(q) = Len(s) /\ \A i \in 1 .. Len(q) : q[i] = s[i]
    BY <1>1, <1>5 DEF n
  <2> HIDE DEF q
  <2>2. q = s
    BY <2>1, SameSeq
  <2> QED
    BY <2>2 DEF q
<1> QED
  BY <1>1, <1>2, <1>3, <1>6 DEF t

LEMMA ReducedAt ==
    ASSUME NEW vs \in Seq(Int), NEW x \in Int, NEW y \in Int, NEW o
    PROVE  Reduced(Append(Append(vs, x), y), o) =
               Append(vs, IF o = Times THEN x * y ELSE x + y)
<1> DEFINE u == Append(vs, x)
           t == Append(u, y)
           n == Len(vs)
<1>1. u \in Seq(Int) /\ Len(u) = n + 1 /\ n \in Nat /\ u[n + 1] = x
      /\ \A i \in 1 .. n : u[i] = vs[i]
  BY AppendAt
<1> HIDE DEF u
<1>2. t \in Seq(Int) /\ Len(t) = Len(u) + 1 /\ t[Len(u) + 1] = y
      /\ \A i \in 1 .. Len(u) : t[i] = u[i]
  BY <1>1, AppendAt
<1> HIDE DEF t, n
<1>3. Len(t) = n + 2 /\ t[n + 2] = y
  BY <1>1, <1>2
<1>4. t[n + 1] = x /\ \A i \in 1 .. n : t[i] = vs[i]
  BY <1>1, <1>2
<1>5. ~(Len(t) < 2) /\ Len(t) - 1 = n + 1 /\ Len(t) - 2 = n /\ n <= Len(t)
  BY <1>1, <1>3
<1>6. Reduced(t, o) = Append(SubSeq(t, 1, n), IF o = Times THEN x * y ELSE x + y)
  BY <1>3, <1>4, <1>5 DEF Reduced, Last
<1>7. /\ SubSeq(t, 1, n) \in Seq(Int) /\ Len(SubSeq(t, 1, n)) = n
      /\ \A i \in 1 .. n : SubSeq(t, 1, n)[i] = t[i]
  BY <1>1, <1>2, <1>5
<1>8. SubSeq(t, 1, n) = vs
  <2> DEFINE q == SubSeq(t, 1, n)
  <2>1. q \in Seq(Int) /\ Len(q) = Len(vs) /\ \A i \in 1 .. Len(q) : q[i] = vs[i]
    BY <1>4, <1>7 DEF n
  <2> HIDE DEF q
  <2>2. q = vs
    BY <2>1, SameSeq
  <2> QED
    BY <2>2 DEF q
<1> QED
  BY <1>6, <1>8 DEF t, u

(* An operator ends the product, or waits for its next number: either way  *)
(* the value so far is on vals.                                            *)
LEMMA PushedPending ==
    ASSUME NEW s, NEW ops \in Seq({Plus}), NEW vs \in Seq(Int), NEW v \in Int,
           InProduct(s, ops, vs, v), NEW c \in {Plus, Times}
    PROVE  Scanned(s, c) = Waiting(Append(ops, c), Append(vs, v))
<1> DEFINE y == Unwound(s.num)
           vals == Append(s.vals, y)
           product == s.op # <<>> /\ Last(s.op) = Times
<1>1. s.num \in Seq(0 .. 9) /\ s.vals \in Seq(Int)
  BY DEF InProduct, States
<1>2. y \in Int
  BY <1>1, DigitsInts, UnwoundInt
<1>3. Plus # Times /\ c # Blank /\ c \notin 0 .. 9
  BY DEF Plus, Times, Blank
<1>4. Scanned(s, c) = [num |-> <<>>,
                       op |-> Append(IF product THEN Front(s.op) ELSE s.op, c),
                       vals |-> IF product THEN Reduced(vals, Times) ELSE vals]
  BY <1>3 DEF Scanned, Push
<1>5. CASE s.op = ops /\ s.vals = vs /\ y = v
  <2>1. ~product
    <3>1. ops # <<>> => Last(ops) \in {Plus}
      BY FrontType
    <3> QED
      BY <1>3, <1>5, <3>1
  <2> HIDE DEF product, y
  <2> QED
    BY <1>4, <1>5, <2>1 DEF Waiting
<1>6. ASSUME NEW x \in Int, s.op = Append(ops, Times), s.vals = Append(vs, x), x * y = v
      PROVE  Scanned(s, c) = Waiting(Append(ops, c), Append(vs, v))
  <2>1. product /\ Front(s.op) = ops
    <3>1. ops \in Seq({Plus, Times})
      <4>1. {Plus} \subseteq {Plus, Times}
        OBVIOUS
      <4> QED
        BY <4>1
    <3>2. /\ Append(ops, Times) # <<>> /\ Last(Append(ops, Times)) = Times
          /\ Front(Append(ops, Times)) = ops
      BY <3>1, AppendedLast
    <3> QED
      BY <1>6, <3>2
  <2> HIDE DEF product, y
  <2>2. Reduced(vals, Times) = Append(vs, v)
    <3>1. vals = Append(Append(vs, x), y)
      BY <1>6
    <3>2. Reduced(Append(Append(vs, x), y), Times) = Append(vs, x * y)
      BY <1>2, ReducedAt
    <3> QED
      BY <1>6, <3>1, <3>2
  <2> QED
    BY <1>4, <2>1, <2>2 DEF Waiting
<1> QED
  BY <1>5, <1>6 DEF InProduct

(* A number read where one is waited for: the first of a product, or the   *)
(* one after a sign.                                                       *)
LEMMA NumberRead ==
    ASSUME NEW t \in Seq(Chars), NEW ops, NEW vs, Stacked(t) = Waiting(ops, vs), NEW y \in Nat
    PROVE  /\ t \o Digits(y) \in Seq(Chars)
           /\ Stacked(t \o Digits(y)) = [num |-> Digits(y), op |-> ops, vals |-> vs]
           /\ Stacked(t \o Digits(y)) \in States
<1> DEFINE d == Digits(y)
<1>1. d \in Seq(0 .. 9)
  BY DigitsOf
<1> HIDE DEF d
<1>2. t \o d \in Seq(Chars)
      /\ Stacked(t \o d) = [num |-> Stacked(t).num \o d, op |-> Stacked(t).op,
                            vals |-> Stacked(t).vals]
  BY <1>1, StackedDigits
<1>3. Stacked(t).num = <<>> /\ Stacked(t).op = ops /\ Stacked(t).vals = vs
  BY DEF Waiting
<1>4. <<>> \o d = d
  BY <1>1, ConcatAppend
<1>5. Stacked(t \o d) = [num |-> d, op |-> ops, vals |-> vs]
  BY <1>2, <1>3, <1>4
<1>6. Stacked(t \o d) \in States
  BY <1>2, StackedType
<1> QED
  BY <1>2, <1>5, <1>6 DEF d

LEMMA FirstNumber ==
    ASSUME NEW t \in Seq(Chars), NEW ops, NEW vs, Stacked(t) = Waiting(ops, vs), NEW y \in Nat
    PROVE  t \o Digits(y) \in Seq(Chars) /\ InProduct(Stacked(t \o Digits(y)), ops, vs, y)
<1> DEFINE d == Digits(y)
           s == Stacked(t \o d)
<1>1. t \o d \in Seq(Chars) /\ s = [num |-> d, op |-> ops, vals |-> vs] /\ s \in States
  BY NumberRead
<1>2. d # <<>> /\ Unwound(d) = y
  BY DigitsOf
<1> HIDE DEF d, s
<1>3. s.num = d /\ s.op = ops /\ s.vals = vs
  BY <1>1
<1>4. InProduct(s, ops, vs, y)
  BY <1>1, <1>2, <1>3 DEF InProduct
<1> QED
  BY <1>1, <1>4 DEF s, d

LEMMA NextNumber ==
    ASSUME NEW t \in Seq(Chars), NEW ops, NEW vs, NEW v \in Int, NEW y \in Nat,
           Stacked(t) = Waiting(Append(ops, Times), Append(vs, v))
    PROVE  t \o Digits(y) \in Seq(Chars) /\ InProduct(Stacked(t \o Digits(y)), ops, vs, v * y)
<1> DEFINE d == Digits(y)
           s == Stacked(t \o d)
           op == Append(ops, Times)
           vals == Append(vs, v)
<1>1. t \o d \in Seq(Chars) /\ s = [num |-> d, op |-> op, vals |-> vals] /\ s \in States
  <2>1. Stacked(t) = Waiting(op, vals)
    OBVIOUS
  <2> HIDE DEF op, vals
  <2> QED
    BY <2>1, NumberRead
<1>2. d # <<>> /\ Unwound(d) = y
  BY DigitsOf
<1> HIDE DEF d, s, op, vals
<1>3. s.num = d /\ s.op = op /\ s.vals = vals
  BY <1>1
<1>4. s.op = Append(ops, Times) /\ s.vals = Append(vs, v) /\ v * Unwound(s.num) = v * y
  BY <1>2, <1>3 DEF op, vals
<1>5. InProduct(s, ops, vs, v * y)
  BY <1>1, <1>2, <1>3, <1>4 DEF InProduct
<1> QED
  BY <1>1, <1>5 DEF s, d

(* A text of parts, by what it is after k of them.                         *)
Texts(h, parts, c) ==
    /\ Joined(parts, c) = h[Len(parts)] /\ h[1] = parts[1]
    /\ \A k \in 1 .. Len(parts) : h[k] \in Seq(Chars)
    /\ \A k \in 2 .. Len(parts) : h[k] = h[k - 1] \o <<c>> \o parts[k]

LEMMA TextsAt ==
    ASSUME NEW c \in Chars, NEW parts \in Seq(Seq(Chars)), parts # <<>>
    PROVE  \E h : Texts(h, parts, c)
<1> DEFINE n == Len(parts)
           q == Tail(parts)
<1>1. PICK g : Joins(g, parts, c)
  BY JoinedAt
<1>2. /\ Head(parts) = parts[1] /\ Len(q) = n - 1 /\ n \in Nat \ {0}
      /\ \A i \in 1 .. n - 1 : q[i] = parts[i + 1]
  BY TailAt
<1> HIDE DEF n, q
<1>3. /\ Joined(parts, c) = g[n - 1] /\ g[0] = parts[1]
      /\ \A k \in 0 .. n - 1 : g[k] \in Seq(Chars)
      /\ \A k \in 1 .. n - 1 : g[k] = g[k - 1] \o <<c>> \o q[k]
  BY <1>1, <1>2 DEF Joins, q
<1> DEFINE h == [k \in 1 .. n |-> g[k - 1]]
<1>4. \A k \in 1 .. n : h[k] = g[k - 1]
  OBVIOUS
<1> HIDE DEF h
<1>5. ASSUME NEW k \in 2 .. n PROVE h[k] = h[k - 1] \o <<c>> \o parts[k]
  <2>1. k \in 1 .. n /\ k - 1 \in 1 .. n - 1 /\ k - 1 \in 1 .. n /\ (k - 1) + 1 = k
    BY <1>2
  <2>2. g[k - 1] = g[(k - 1) - 1] \o <<c>> \o q[k - 1]
    BY <1>3, <2>1
  <2>3. q[k - 1] = parts[k]
    BY <1>2, <2>1
  <2> QED
    BY <1>4, <2>1, <2>2, <2>3
<1>6. n \in 1 .. n /\ 1 \in 1 .. n /\ 1 - 1 = 0 /\ \A k \in 1 .. n : k - 1 \in 0 .. n - 1
  BY <1>2
<1>7. h[n] = g[n - 1] /\ h[1] = g[0] /\ \A k \in 1 .. n : h[k] \in Seq(Chars)
  BY <1>3, <1>4, <1>6
<1> QED
  BY <1>3, <1>5, <1>7 DEF Texts, n

(* What is read of a product.                                              *)
LEMMA ProductRead ==
    ASSUME NEW p \in Seq(Nat), p # <<>>, NEW t \in Seq(Chars), NEW ops \in Seq({Plus}),
           NEW vs \in Seq(Int), Stacked(t) = Waiting(ops, vs)
    PROVE  /\ ProductText(p) \in Seq(Chars) /\ t \o ProductText(p) \in Seq(Chars)
           /\ Multiplied(p) \in Int
           /\ InProduct(Stacked(t \o ProductText(p)), ops, vs, Multiplied(p))
<1> DEFINE n == Len(p)
           parts == [j \in DOMAIN p |-> Digits(p[j])]
<1>1. n \in Nat \ {0} /\ DOMAIN p = 1 .. n /\ \A k \in 1 .. n : p[k] \in Nat
  OBVIOUS
<1>2. \A k \in 1 .. n : Digits(p[k]) \in Seq(Chars)
  <2>1. ASSUME NEW k \in 1 .. n PROVE Digits(p[k]) \in Seq(Chars)
    <3> DEFINE d == Digits(p[k])
    <3>1. d \in Seq(0 .. 9)
      BY <1>1, DigitsOf
    <3>2. 0 .. 9 \subseteq Chars
      BY DEF Chars
    <3> HIDE DEF d
    <3>3. d \in Seq(Chars)
      BY <3>1, <3>2, LargerSeq
    <3> QED
      BY <3>3 DEF d
  <2> QED
    BY <2>1
<1>3. ProductText(p) = Joined(parts, Times)
  BY DEF ProductText
<1>4. parts = [j \in 1 .. n |-> Digits(p[j])]
  BY <1>1
<1> HIDE DEF n
<1>5. \A k \in 1 .. n : parts[k] = Digits(p[k])
  BY <1>4
<1>6. parts \in Seq(Seq(Chars)) /\ Len(parts) = n /\ parts # <<>>
  <2>1. parts \in [1 .. n -> Seq(Chars)]
    BY <1>2, <1>4
  <2> DEFINE R == Seq(Chars)
  <2> HIDE DEF parts, R
  <2>2. parts \in Seq(R) /\ Len(parts) = n
    BY <1>1, <2>1, FunctionIsSeq DEF R
  <2> QED
    BY <1>1, <2>2 DEF R
<1> HIDE DEF parts
<1>7. PICK h : Texts(h, parts, Times)
  <2>1. Times \in Chars
    BY DEF Chars, Times
  <2> QED
    BY <1>6, <2>1, TextsAt
<1>8. /\ ProductText(p) = h[n] /\ h[1] = Digits(p[1]) /\ 1 \in 1 .. n /\ n \in 1 .. n
      /\ \A k \in 1 .. n : h[k] \in Seq(Chars)
      /\ \A k \in 2 .. n : h[k] = h[k - 1] \o <<Times>> \o Digits(p[k])
  <2>1. \A k \in 2 .. n : k \in 1 .. n
    OBVIOUS
  <2> QED
    <3>1. /\ Joined(parts, Times) = h[n] /\ h[1] = parts[1]
          /\ \A k \in 1 .. n : h[k] \in Seq(Chars)
          /\ \A k \in 2 .. n : h[k] = h[k - 1] \o <<Times>> \o parts[k]
      BY <1>6, <1>7 DEF Texts
    <3>2. 1 \in 1 .. n /\ n \in 1 .. n
      BY <1>1
    <3>3. \A k \in 2 .. n : h[k] = h[k - 1] \o <<Times>> \o Digits(p[k])
      BY <1>5, <2>1, <3>1
    <3> QED
      BY <1>3, <1>5, <3>1, <3>2, <3>3
<1>9. PICK m : Multiplies(m, p)
  <2>1. p \in Seq(Int)
    OBVIOUS
  <2> QED
    BY <2>1, MultipliedAt
<1>10. /\ Multiplied(p) = m[n] /\ m[0] = 1
       /\ \A k \in 0 .. n : m[k] \in Int
       /\ \A k \in 1 .. n : m[k] = m[k - 1] * p[k]
  BY <1>9 DEF Multiplies, n
<1> DEFINE IsRead(k) == t \o h[k] \in Seq(Chars) /\ InProduct(Stacked(t \o h[k]), ops, vs, m[k])
           T == {k \in Nat : k \in 1 .. n => IsRead(k)}
<1>11. ASSUME NEW k \in Nat, \A l \in Nat : l < k => l \in T PROVE k \in T
  <2> SUFFICES ASSUME k \in 1 .. n PROVE IsRead(k)
    OBVIOUS
  <2>1. CASE k = 1
    <3>1. p[1] \in Nat /\ h[1] = Digits(p[1])
      BY <1>1, <1>8
    <3>2. t \o Digits(p[1]) \in Seq(Chars) /\ InProduct(Stacked(t \o Digits(p[1])), ops, vs, p[1])
      BY <3>1, FirstNumber
    <3>3. m[1] = p[1]
      <4>1. m[1] = m[1 - 1] * p[1] /\ 1 - 1 = 0
        BY <1>8, <1>10
      <4> QED
        BY <1>10, <3>1, <4>1
    <3> QED
      BY <2>1, <3>1, <3>2, <3>3
  <2>2. CASE k # 1
    <3> DEFINE u == t \o h[k - 1]
               v == m[k - 1]
               y == p[k]
               w == Append(u, Times)
    <3>1. k - 1 \in Nat /\ k - 1 < k /\ k - 1 \in 1 .. n /\ k \in 2 .. n /\ k - 1 \in 0 .. n
      BY <1>1, <2>2
    <3>2. u \in Seq(Chars) /\ InProduct(Stacked(u), ops, vs, v)
      BY <1>11, <3>1
    <3>3. v \in Int /\ y \in Nat /\ m[k] = v * y
      BY <1>1, <1>10, <3>1
    <3>4. h[k - 1] \in Seq(Chars) /\ h[k] = h[k - 1] \o <<Times>> \o Digits(y)
      BY <1>8, <3>1
    <3>5. Digits(y) \in Seq(Chars)
      BY <1>2
    <3>6. t \o h[k] = w \o Digits(y)
      <4> DEFINE a == h[k - 1]
                 d == Digits(y)
      <4>1. a \in Seq(Chars) /\ d \in Seq(Chars) /\ Times \in Chars /\ <<Times>> \in Seq(Chars)
        BY <3>4, <3>5 DEF Chars, Times
      <4> HIDE DEF a, d
      <4>2. a \o <<Times>> \in Seq(Chars)
        BY <4>1, ConcatAt
      <4>3. t \o ((a \o <<Times>>) \o d) = (t \o (a \o <<Times>>)) \o d
        <5> DEFINE b == a \o <<Times>>
        <5>1. b \in Seq(Chars)
          BY <4>2
        <5> HIDE DEF b
        <5>2. Associates(t, b, d)
          BY <4>1, <5>1, ConcatAssoc
        <5> QED
          BY <5>2 DEF b, Associates
      <4>4. t \o (a \o <<Times>>) = (t \o a) \o <<Times>>
        <5>1. Associates(t, a, <<Times>>)
          BY <4>1, ConcatAssoc
        <5> QED
          BY <5>1 DEF Associates
      <4>5. t \o a \in Seq(Chars)
        BY <4>1, ConcatAt
      <4>6. (t \o a) \o <<Times>> = Append(t \o a, Times)
        BY <4>1, <4>5, ConcatAppend
      <4>7. t \o ((a \o <<Times>>) \o d) = Append(t \o a, Times) \o d
        BY <4>3, <4>4, <4>6
      <4> QED
        BY <3>4, <4>7 DEF a, d
    <3> HIDE DEF u, v, y
    <3>7. w \in Seq(Chars) /\ Stacked(w) = Waiting(Append(ops, Times), Append(vs, v))
      <4>1. Times \in Chars /\ Times \in {Plus, Times}
        BY DEF Chars, Times
      <4>2. Stacked(w) = Scanned(Stacked(u), Times) /\ w \in Seq(Chars)
        BY <3>2, <4>1, StackedAppend, AppendAt
      <4>3. Scanned(Stacked(u), Times) = Waiting(Append(ops, Times), Append(vs, v))
        BY <3>2, <3>3, <4>1, PushedPending
      <4> QED
        BY <4>2, <4>3
    <3> HIDE DEF w
    <3>8. w \o Digits(y) \in Seq(Chars) /\ InProduct(Stacked(w \o Digits(y)), ops, vs, v * y)
      BY <3>3, <3>7, NextNumber
    <3> QED
      BY <3>3, <3>6, <3>8
  <2> QED
    BY <2>1, <2>2
<1>12. Nat \subseteq T
  <2> HIDE DEF T
  <2> QED
    BY <1>11, MeasureInduction
<1>13. IsRead(n) /\ m[n] \in Int /\ h[n] \in Seq(Chars)
  BY <1>1, <1>8, <1>10, <1>12
<1> QED
  BY <1>8, <1>10, <1>13
-----------------------------------------------------------------------------
(* What waits on op and vals for the end of an expression.                 *)
Pluses(k) == [j \in 1 .. k |-> Plus]
Values(e) == [j \in DOMAIN e |-> Multiplied(e[j])]

LEMMA PlusesAre ==
    ASSUME NEW k \in Nat
    PROVE  /\ Pluses(k) \in Seq({Plus}) /\ Len(Pluses(k)) = k
           /\ \A j \in 1 .. k : Pluses(k)[j] = Plus
           /\ Append(Pluses(k), Plus) = Pluses(k + 1)
<1>1. ASSUME NEW l \in Nat
      PROVE  /\ Pluses(l) \in Seq({Plus}) /\ Len(Pluses(l)) = l
             /\ \A j \in 1 .. l : Pluses(l)[j] = Plus
  <2>1. Pluses(l) \in [1 .. l -> {Plus}] /\ \A j \in 1 .. l : Pluses(l)[j] = Plus
    BY DEF Pluses
  <2> QED
    BY <2>1, FunctionIsSeq
<1> DEFINE s == Pluses(k)
           t == Append(s, Plus)
           u == Pluses(k + 1)
<1>2. /\ s \in Seq({Plus}) /\ Len(s) = k /\ \A j \in 1 .. k : s[j] = Plus
      /\ u \in Seq({Plus}) /\ Len(u) = k + 1 /\ \A j \in 1 .. k + 1 : u[j] = Plus
  <2>1. k + 1 \in Nat
    OBVIOUS
  <2> QED
    BY <1>1, <2>1
<1> HIDE DEF s, u
<1>3. t \in Seq({Plus}) /\ Len(t) = k + 1 /\ t[k + 1] = Plus /\ \A j \in 1 .. k : t[j] = s[j]
  BY <1>2, AppendAt
<1> HIDE DEF t
<1>4. \A j \in 1 .. k + 1 : t[j] = u[j]
  BY <1>2, <1>3
<1>5. t = u
  BY <1>2, <1>3, <1>4, SameSeq
<1> QED
  BY <1>2, <1>5 DEF s, t, u

LEMMA PrefixAt ==
    ASSUME NEW S, NEW v \in Seq(S), NEW k \in 0 .. Len(v)
    PROVE  /\ SubSeq(v, 1, k) \in Seq(S) /\ Len(SubSeq(v, 1, k)) = k
           /\ \A i \in 1 .. k : SubSeq(v, 1, k)[i] = v[i]
  OBVIOUS

LEMMA PrefixNext ==
    ASSUME NEW S, NEW v \in Seq(S), NEW k \in Nat, k < Len(v)
    PROVE  v[k + 1] \in S /\ Append(SubSeq(v, 1, k), v[k + 1]) = SubSeq(v, 1, k + 1)
<1> DEFINE n == Len(v)
           s == SubSeq(v, 1, k)
           u == SubSeq(v, 1, k + 1)
           x == v[k + 1]
           t == Append(s, x)
<1>1. k \in 0 .. n /\ k + 1 \in 0 .. n /\ x \in S
  OBVIOUS
<1>2. s \in Seq(S) /\ Len(s) = k /\ \A i \in 1 .. k : s[i] = v[i]
  BY <1>1, PrefixAt
<1>3. u \in Seq(S) /\ Len(u) = k + 1 /\ \A i \in 1 .. k + 1 : u[i] = v[i]
  BY <1>1, PrefixAt
<1> HIDE DEF s, u, x
<1>4. t \in Seq(S) /\ Len(t) = k + 1 /\ t[k + 1] = x /\ \A j \in 1 .. k : t[j] = s[j]
  BY <1>1, <1>2, AppendAt
<1> HIDE DEF t
<1>5. \A j \in 1 .. k + 1 : t[j] = u[j]
  BY <1>2, <1>3, <1>4 DEF x
<1>6. t = u
  BY <1>3, <1>4, <1>5, SameSeq
<1> QED
  BY <1>1, <1>6 DEF s, t, u, x

LEMMA PrefixEmpty == ASSUME NEW S, NEW v \in Seq(S) PROVE SubSeq(v, 1, 0) = <<>>
<1>1. 0 \in 0 .. Len(v)
  OBVIOUS
<1>2. SubSeq(v, 1, 0) \in Seq(S) /\ Len(SubSeq(v, 1, 0)) = 0
  BY <1>1, PrefixAt
<1> QED
  BY <1>2

(* What is read of an expression: its products but the last are on vals,   *)
(* a plus on op for each.                                                  *)
LEMMA ExpressionRead ==
    ASSUME NEW e \in Seq(Seq(Nat) \ {<<>>}), e # <<>>
    PROVE  /\ Values(e) \in Seq(Int) /\ Len(Values(e)) = Len(e)
           /\ TextOf(e) \in Seq(Chars)
           /\ InProduct(Stacked(TextOf(e)), Pluses(Len(e) - 1),
                      SubSeq(Values(e), 1, Len(e) - 1), Values(e)[Len(e)])
<1> DEFINE n == Len(e)
           V == Values(e)
           parts == [j \in DOMAIN e |-> ProductText(e[j])]
<1>1. n \in Nat \ {0} /\ DOMAIN e = 1 .. n /\ \A j \in 1 .. n : e[j] \in Seq(Nat) /\ e[j] # <<>>
  <2>1. \A j \in 1 .. n : e[j] \in Seq(Nat) \ {<<>>}
    OBVIOUS
  <2>2. n \in Nat \ {0} /\ DOMAIN e = 1 .. n
    OBVIOUS
  <2> QED
    BY <2>1, <2>2
<1> HIDE DEF n
<1>2. <<>> \in Seq(Chars) /\ <<>> \in Seq({Plus}) /\ <<>> \in Seq(Int)
      /\ Stacked(<<>>) = Waiting(<<>>, <<>>)
  BY StackedNothing DEF Waiting
<1>3. ASSUME NEW j \in 1 .. n PROVE ProductText(e[j]) \in Seq(Chars) /\ Multiplied(e[j]) \in Int
  <2> DEFINE p == e[j]
             t == <<>>
  <2>1. p \in Seq(Nat) /\ p # <<>>
    BY <1>1
  <2>2. t \in Seq(Chars) /\ t \in Seq({Plus}) /\ t \in Seq(Int) /\ Stacked(t) = Waiting(t, t)
    BY <1>2
  <2> HIDE DEF p, t
  <2>3. ProductText(p) \in Seq(Chars) /\ Multiplied(p) \in Int
    BY <2>1, <2>2, ProductRead
  <2> QED
    BY <2>3 DEF p
<1>4. V \in Seq(Int) /\ Len(V) = n /\ \A j \in 1 .. n : V[j] = Multiplied(e[j])
  <2>1. V = [j \in 1 .. n |-> Multiplied(e[j])]
    BY <1>1 DEF Values
  <2>2. V \in [1 .. n -> Int] /\ \A j \in 1 .. n : V[j] = Multiplied(e[j])
    BY <1>3, <2>1
  <2> HIDE DEF V
  <2> QED
    BY <1>1, <2>2, FunctionIsSeq
<1>5. TextOf(e) = Joined(parts, Plus)
  BY DEF TextOf
<1>6. parts = [j \in 1 .. n |-> ProductText(e[j])]
  BY <1>1
<1> HIDE DEF V
<1>7. \A j \in 1 .. n : parts[j] = ProductText(e[j])
  BY <1>6
<1>8. parts \in Seq(Seq(Chars)) /\ Len(parts) = n /\ parts # <<>>
  <2>1. parts \in [1 .. n -> Seq(Chars)]
    BY <1>3, <1>6
  <2> DEFINE R == Seq(Chars)
  <2> HIDE DEF parts, R
  <2>2. parts \in Seq(R) /\ Len(parts) = n
    BY <1>1, <2>1, FunctionIsSeq DEF R
  <2> QED
    BY <1>1, <2>2 DEF R
<1> HIDE DEF parts
<1>9. Plus \in Chars /\ Plus \in {Plus, Times} /\ <<Plus>> \in Seq(Chars)
  BY DEF Chars, Plus
<1>10. PICK h : Texts(h, parts, Plus)
  BY <1>8, <1>9, TextsAt
<1>11. /\ TextOf(e) = h[n] /\ h[1] = ProductText(e[1]) /\ 1 \in 1 .. n /\ n \in 1 .. n
       /\ \A k \in 1 .. n : h[k] \in Seq(Chars)
       /\ \A k \in 2 .. n : h[k] = h[k - 1] \o <<Plus>> \o ProductText(e[k])
  <2>1. /\ Joined(parts, Plus) = h[n] /\ h[1] = parts[1]
        /\ \A k \in 1 .. n : h[k] \in Seq(Chars)
        /\ \A k \in 2 .. n : h[k] = h[k - 1] \o <<Plus>> \o parts[k]
    BY <1>8, <1>10 DEF Texts
  <2>2. 1 \in 1 .. n /\ n \in 1 .. n /\ \A k \in 2 .. n : k \in 1 .. n
    BY <1>1
  <2>3. \A k \in 2 .. n : h[k] = h[k - 1] \o <<Plus>> \o ProductText(e[k])
    BY <1>7, <2>1, <2>2
  <2> QED
    BY <1>5, <1>7, <2>1, <2>2, <2>3
<1> DEFINE IsRead(k) == InProduct(Stacked(h[k]), Pluses(k - 1), SubSeq(V, 1, k - 1), V[k])
           T == {k \in Nat : k \in 1 .. n => IsRead(k)}
<1>12. ASSUME NEW k \in Nat, \A l \in Nat : l < k => l \in T PROVE k \in T
  <2> SUFFICES ASSUME k \in 1 .. n PROVE IsRead(k)
    OBVIOUS
  <2> DEFINE p == e[k]
  <2>1. p \in Seq(Nat) /\ p # <<>> /\ V[k] = Multiplied(p)
    BY <1>1, <1>4
  <2> HIDE DEF p
  <2>2. CASE k = 1
    <3> DEFINE t == <<>>
    <3>1. t \in Seq(Chars) /\ t \in Seq({Plus}) /\ t \in Seq(Int) /\ Stacked(t) = Waiting(t, t)
      BY <1>2
    <3>2. t \o ProductText(p) = ProductText(p)
      <4>1. ProductText(p) \in Seq(Chars)
        BY <1>3 DEF p
      <4> QED
        BY <4>1, ConcatAppend, <1>9
    <3>3. Pluses(0) = t
      <4>1. Pluses(0) \in Seq({Plus}) /\ Len(Pluses(0)) = 0
        BY PlusesAre
      <4> QED
        BY <4>1
    <3>4. SubSeq(V, 1, 0) = t
      BY <1>4, PrefixEmpty
    <3> HIDE DEF t
    <3>5. InProduct(Stacked(t \o ProductText(p)), t, t, Multiplied(p))
      BY <2>1, <3>1, ProductRead
    <3>6. h[k] = ProductText(p) /\ k - 1 = 0
      BY <1>11, <2>2 DEF p
    <3> QED
      BY <2>1, <3>2, <3>3, <3>4, <3>5, <3>6
  <2>3. CASE k # 1
    <3> DEFINE i == k - 1
               u == h[i]
               w == Append(u, Plus)
               ops == Pluses(i)
               vs == SubSeq(V, 1, i)
    <3>1. i \in Nat /\ i < k /\ i \in 1 .. n /\ k \in 2 .. n /\ i - 1 \in Nat /\ (i - 1) + 1 = i
          /\ i - 1 < Len(V) /\ i - 1 \in 0 .. Len(V) /\ i \in 0 .. Len(V)
      BY <1>1, <1>4, <2>3
    <3>2. u \in Seq(Chars) /\ InProduct(Stacked(u), Pluses(i - 1), SubSeq(V, 1, i - 1), V[i])
      BY <1>11, <1>12, <3>1
    <3>3. h[k] = u \o <<Plus>> \o ProductText(p)
      BY <1>11, <3>1 DEF p
    <3> HIDE DEF u, i
    <3>4. u \o <<Plus>> = w
      BY <1>9, <3>2, ConcatAppend
    <3>5. /\ Pluses(i - 1) \in Seq({Plus}) /\ Append(Pluses(i - 1), Plus) = ops
          /\ ops \in Seq({Plus})
      BY <3>1, PlusesAre
    <3>6. /\ SubSeq(V, 1, i - 1) \in Seq(Int) /\ vs \in Seq(Int)
      BY <1>4, <3>1, PrefixAt
    <3>7. V[i] \in Int /\ Append(SubSeq(V, 1, i - 1), V[i]) = vs
      <4> DEFINE l == i - 1
      <4>1. l \in Nat /\ l < Len(V) /\ l + 1 = i
        BY <3>1
      <4> HIDE DEF l
      <4>2. V[l + 1] \in Int /\ Append(SubSeq(V, 1, l), V[l + 1]) = SubSeq(V, 1, l + 1)
        BY <1>4, <4>1, PrefixNext
      <4> QED
        BY <4>1, <4>2 DEF l
    <3> HIDE DEF ops, vs
    <3>8. w \in Seq(Chars) /\ Stacked(w) = Waiting(ops, vs)
      <4>1. Stacked(w) = Scanned(Stacked(u), Plus) /\ w \in Seq(Chars)
        BY <1>9, <3>2, StackedAppend, AppendAt
      <4> DEFINE o == Pluses(i - 1)
                 z == SubSeq(V, 1, i - 1)
                 y == V[i]
      <4>2. o \in Seq({Plus}) /\ z \in Seq(Int) /\ y \in Int /\ InProduct(Stacked(u), o, z, y)
        BY <3>2, <3>5, <3>6, <3>7
      <4> HIDE DEF o, z, y, w
      <4>3. Scanned(Stacked(u), Plus) = Waiting(Append(o, Plus), Append(z, y))
        BY <1>9, <4>2, PushedPending
      <4> QED
        BY <3>5, <3>7, <4>1, <4>3 DEF o, z, y
    <3> HIDE DEF w
    <3>9. InProduct(Stacked(w \o ProductText(p)), ops, vs, Multiplied(p))
      BY <2>1, <3>5, <3>6, <3>8, ProductRead
    <3> QED
      BY <2>1, <3>3, <3>4, <3>9 DEF i, ops, vs
  <2> QED
    BY <2>2, <2>3
<1>13. Nat \subseteq T
  <2> HIDE DEF T
  <2> QED
    BY <1>12, MeasureInduction
<1>14. IsRead(n)
  BY <1>1, <1>13
<1>15. TextOf(e) \in Seq(Chars)
  BY <1>11
<1> QED
  BY <1>4, <1>11, <1>14, <1>15 DEF n, V

-----------------------------------------------------------------------------
(* The pluses left on op add the numbers on vals up from the top.          *)
LEMMA AddedUp ==
    ASSUME NEW V \in Seq(Int), V # <<>>, NEW t, Sums(t, V), NEW g,
           g[Len(V) - 1] = Append(SubSeq(V, 1, Len(V) - 1), V[Len(V)]),
           \A k \in 1 .. Len(V) - 1 : g[k - 1] = Reduced(g[k], Plus)
    PROVE  g[0] = <<t[Len(V)]>>
<1> DEFINE n == Len(V)
<1>1. n \in Nat \ {0} /\ \A k \in 1 .. n : V[k] \in Int
  OBVIOUS
<1>2. /\ \A k \in 0 .. n : t[k] \in Int
      /\ \A k \in 1 .. n : t[k] = t[k - 1] + V[k]
      /\ t[0] = 0
  BY DEF Sums
<1>3. /\ g[n - 1] = Append(SubSeq(V, 1, n - 1), V[n])
      /\ \A k \in 1 .. n - 1 : g[k - 1] = Reduced(g[k], Plus)
  OBVIOUS
<1>4. n = Len(V)
  OBVIOUS
<1> HIDE DEF n
<1> DEFINE Added(k) == g[k] = Append(SubSeq(V, 1, k), t[n] - t[k])
           T == {j \in Nat : j <= n - 1 => Added(n - 1 - j)}
<1>5. ASSUME NEW j \in Nat, \A l \in Nat : l < j => l \in T PROVE j \in T
  <2> SUFFICES ASSUME j <= n - 1 PROVE Added(n - 1 - j)
    OBVIOUS
  <2>1. CASE j = 0
    <3>1. t[n] - t[n - 1] = V[n]
      <4>1. n \in 1 .. n /\ n \in 0 .. n /\ n - 1 \in 0 .. n
        BY <1>1
      <4> QED
        BY <1>1, <1>2, <4>1
    <3>2. n - 1 - j = n - 1
      BY <1>1, <2>1
    <3> QED
      BY <1>3, <3>1, <3>2
  <2>2. CASE j # 0
    <3> DEFINE k == n - 1 - (j - 1)
               i == k - 1
               vs == SubSeq(V, 1, i)
               x == V[k]
               z == t[n] - t[k]
    <3>1. /\ k \in 1 .. n - 1 /\ i = n - 1 - j /\ i \in Nat /\ i < n /\ i + 1 = k
          /\ j - 1 \in Nat /\ j - 1 < j /\ j - 1 <= n - 1 /\ k \in 1 .. n
          /\ k \in 0 .. n /\ n \in 0 .. n /\ i \in 0 .. n
      BY <1>1, <2>2
    <3>2. g[k] = Append(SubSeq(V, 1, k), z)
      BY <1>5, <3>1
    <3> HIDE DEF k
    <3>3. x \in Int /\ z \in Int
      <4>1. V[k] \in Int
        BY <1>1, <3>1
      <4>2. t[n] \in Int /\ t[k] \in Int
        BY <1>2, <3>1
      <4> QED
        BY <4>1, <4>2
    <3>4. vs \in Seq(Int) /\ Append(vs, x) = SubSeq(V, 1, k)
      <4> HIDE DEF i
      <4>1. V[i + 1] \in Int /\ Append(SubSeq(V, 1, i), V[i + 1]) = SubSeq(V, 1, i + 1)
        BY <1>4, <3>1, PrefixNext
      <4>2. SubSeq(V, 1, i) \in Seq(Int)
        BY <1>4, <3>1, PrefixAt
      <4> QED
        BY <3>1, <4>1, <4>2
    <3>5. g[i] = Reduced(g[k], Plus)
      BY <1>3, <3>1
    <3>6. Plus # Times
      BY DEF Plus, Times
    <3>7. t[n] - t[i] = x + z
      <4>1. t[k] = t[i] + V[k]
        BY <1>2, <3>1
      <4> QED
        <5>1. t[n] \in Int /\ t[i] \in Int /\ V[k] \in Int
          BY <1>1, <1>2, <3>1
        <5> HIDE DEF i
        <5> QED
          BY <4>1, <5>1
    <3> HIDE DEF vs, x, z, i
    <3>8. Reduced(Append(Append(vs, x), z), Plus) = Append(vs, x + z)
      <4>1. Reduced(Append(Append(vs, x), z), Plus) =
                Append(vs, IF Plus = Times THEN x * z ELSE x + z)
        <5>1. vs \in Seq(Int) /\ x \in Int /\ z \in Int
          BY <3>3, <3>4
        <5> QED
          BY <5>1, ReducedAt, ZenonT(30)
      <4> QED
        BY <3>6, <4>1
    <3>9. g[i] = Append(vs, t[n] - t[i])
      BY <3>2, <3>4, <3>5, <3>7, <3>8
    <3> QED
      BY <3>1, <3>9 DEF vs
  <2> QED
    BY <2>1, <2>2
<1>6. Nat \subseteq T
  <2> HIDE DEF T
  <2> QED
    BY <1>5, MeasureInduction
<1>7. n - 1 \in Nat /\ n - 1 - (n - 1) = 0 /\ n - 1 <= n - 1
  BY <1>1
<1>8. Added(0)
  BY <1>6, <1>7
<1>9. SubSeq(V, 1, 0) = <<>>
  BY PrefixEmpty
<1>10. t[n] - t[0] = t[n]
  <2>1. n \in 0 .. n
    BY <1>1
  <2> QED
    BY <1>2, <2>1
<1>11. Append(<<>>, t[n]) = <<t[n]>>
  OBVIOUS
<1>12. g[0] = <<t[n]>>
  BY <1>8, <1>9, <1>10, <1>11
<1> QED
  BY <1>4, <1>12

(* What is read when the text ends is the sum of the products.             *)
LEMMA FinishedIsSum ==
    ASSUME NEW V \in Seq(Int), V # <<>>, NEW s,
           InProduct(s, Pluses(Len(V) - 1), SubSeq(V, 1, Len(V) - 1), V[Len(V)])
    PROVE  Sum(V) \in Int /\ Finished(s) = <<Sum(V)>>
<1> DEFINE n == Len(V)
           y == Unwound(s.num)
           vs == SubSeq(V, 1, n - 1)
           ops == Pluses(n - 1)
           base == Append(s.vals, y)
<1>1. n \in Nat \ {0} /\ V[n] \in Int /\ n - 1 \in Nat /\ n - 1 \in 0 .. n
  OBVIOUS
<1>2. s.num \in Seq(0 .. 9) /\ s.vals \in Seq(Int) /\ s.op \in Seq({Plus, Times})
  BY DEF InProduct, States
<1>3. y \in Int /\ base \in Seq(Int)
  <2>1. y \in Int
    BY <1>2, DigitsInts, UnwoundInt
  <2> HIDE DEF y
  <2> QED
    BY <1>2, <2>1
<1>4. vs \in Seq(Int)
  BY <1>1, PrefixAt
<1>5. /\ ops \in Seq({Plus}) /\ Len(ops) = n - 1 /\ \A j \in 1 .. n - 1 : ops[j] = Plus
  <2> HIDE DEF n
  <2> QED
    BY <1>1, PlusesAre
<1>6. PICK t : Sums(t, V)
  BY SumAt
<1>7. Sum(V) = t[n] /\ Sum(V) \in Int
  <2>1. n \in 0 .. n
    BY <1>1
  <2> QED
    BY <1>6, <2>1 DEF Sums
<1>8. Finished(s) = Applied(s.op, base)
  BY DEF Finished, Applied
<1>9. PICK g : Applies(g, s.op, base)
  <2> HIDE DEF base
  <2> QED
    BY <1>2, <1>3, AppliedAt
<1>10. /\ Applied(s.op, base) = g[0] /\ g[Len(s.op)] = base
       /\ \A k \in 1 .. Len(s.op) : g[k - 1] = Reduced(g[k], s.op[k])
  BY <1>9 DEF Applies
<1>11. g[n - 1] = Append(vs, V[n]) /\ \A k \in 1 .. n - 1 : g[k - 1] = Reduced(g[k], Plus)
  <2>1. CASE s.op = ops /\ s.vals = vs /\ y = V[n]
    <3> HIDE DEF n, y, ops, vs
    <3> QED
      BY <1>5, <1>10, <2>1
  <2>2. ASSUME NEW x \in Int, s.op = Append(ops, Times), s.vals = Append(vs, x), x * y = V[n]
        PROVE  g[n - 1] = Append(vs, V[n]) /\ \A k \in 1 .. n - 1 : g[k - 1] = Reduced(g[k], Plus)
    <3> DEFINE o == s.op
    <3>1. Len(o) = n /\ o[n] = Times /\ \A k \in 1 .. n - 1 : o[k] = Plus
      <4>1. ops \in Seq({Plus, Times}) /\ Times \in {Plus, Times}
        <5>1. {Plus} \subseteq {Plus, Times}
          OBVIOUS
        <5> HIDE DEF ops
        <5> QED
          BY <1>5, <5>1, LargerSeq
      <4>2. (n - 1) + 1 = n
        BY <1>1
      <4> HIDE DEF ops, n
      <4>3. /\ Len(Append(ops, Times)) = Len(ops) + 1
            /\ Append(ops, Times)[Len(ops) + 1] = Times
            /\ \A i \in 1 .. Len(ops) : Append(ops, Times)[i] = ops[i]
        BY <4>1, AppendAt
      <4> QED
        BY <1>5, <2>2, <4>2, <4>3
    <3>2. n \in 1 .. n
      BY <1>1
    <3>3. g[n] = base /\ g[n - 1] = Reduced(g[n], Times)
      <4> HIDE DEF n, base
      <4> QED
        BY <1>10, <3>1, <3>2
    <3>4. base = Append(Append(vs, x), y)
      BY <2>2
    <3>5. Reduced(Append(Append(vs, x), y), Times) = Append(vs, x * y)
      <4> HIDE DEF vs, y
      <4> QED
        BY <1>3, <1>4, ReducedAt
    <3>6. \A k \in 1 .. n - 1 : k \in 1 .. n
      BY <1>1
    <3> HIDE DEF n, vs, y, base
    <3> QED
      BY <1>10, <2>2, <3>1, <3>3, <3>4, <3>5, <3>6
  <2>3. \/ s.op = ops /\ s.vals = vs /\ y = V[n]
        \/ \E x \in Int : s.op = Append(ops, Times) /\ s.vals = Append(vs, x) /\ x * y = V[n]
    BY DEF InProduct
  <2> QED
    BY <2>1, <2>2, <2>3
<1>12. g[0] = <<t[Len(V)]>>
  <2>1. /\ g[Len(V) - 1] = Append(SubSeq(V, 1, Len(V) - 1), V[Len(V)])
        /\ \A k \in 1 .. Len(V) - 1 : g[k - 1] = Reduced(g[k], Plus)
    BY <1>11
  <2> QED
    BY <1>6, <2>1, AddedUp
<1> QED
  BY <1>7, <1>8, <1>10, <1>12

LEMMA SumOfOne == ASSUME NEW x \in Int PROVE Sum(<<x>>) = x
<1> DEFINE s == <<x>>
<1>1. s \in Seq(Int) /\ Len(s) = 1 /\ s[1] = x
  OBVIOUS
<1> HIDE DEF s
<1>2. PICK g : Sums(g, s)
  BY <1>1, SumAt
<1>3. g[1] = g[1 - 1] + s[1] /\ g[0] = 0 /\ Sum(s) = g[1] /\ 1 - 1 = 0
  BY <1>1, <1>2 DEF Sums
<1>4. Sum(s) = x
  BY <1>1, <1>3
<1> QED
  BY <1>4 DEF s

LEMMA ExpressionComputed ==
    ASSUME NEW e \in Seq(Seq(Nat) \ {<<>>}), e # <<>>
    PROVE  finalRes(TextOf(e)) = Total([j \in DOMAIN e |-> Multiplied(e[j])])
<1> DEFINE t == TextOf(e)
           V == Values(e)
           s == Stacked(t)
<1>1. /\ V \in Seq(Int) /\ Len(V) = Len(e) /\ t \in Seq(Chars)
      /\ InProduct(s, Pluses(Len(e) - 1), SubSeq(V, 1, Len(e) - 1), V[Len(e)])
  BY ExpressionRead
<1>2. V # <<>>
  <2>1. Len(e) # 0
    OBVIOUS
  <2> HIDE DEF V
  <2> QED
    BY <1>1, <2>1
<1>3. t # <<>>
  <2>1. s.num # <<>>
    BY <1>1 DEF InProduct
  <2> HIDE DEF t
  <2>2. ASSUME t = <<>> PROVE FALSE
    BY <2>1, <2>2, StackedNothing
  <2> QED
    BY <2>2
<1> HIDE DEF t, s
<1>4. Sum(V) \in Int /\ Finished(s) = <<Sum(V)>>
  <2> HIDE DEF V
  <2>1. InProduct(s, Pluses(Len(V) - 1), SubSeq(V, 1, Len(V) - 1), V[Len(V)])
    BY <1>1
  <2> QED
    BY <1>1, <1>2, <2>1, FinishedIsSum
<1>5. finalRes(t) = Sum(Finished(s))
  BY <1>3 DEF finalRes, Sum, s
<1>6. finalRes(t) = Sum(V)
  <2> HIDE DEF V
  <2> QED
    BY <1>4, <1>5, SumOfOne
<1>7. Sum(V) = Total([j \in DOMAIN e |-> Multiplied(e[j])])
  BY DEF Sum, Total, Values
<1> QED
  BY <1>6, <1>7 DEF t

(* Whatever the expression, the calculator prints its value.               *)
THEOREM ValueIsComputed == AlgorithmsSpec => []ComputesValue
<1>1. AlgorithmsInit => ComputesValue
  BY DEF AlgorithmsInit, ComputesValue
<1>2. ComputesValue /\ [AlgorithmsNext]_algorithmsVars => ComputesValue'
  <2> SUFFICES ASSUME ComputesValue, [AlgorithmsNext]_algorithmsVars
               PROVE  ComputesValue'
    OBVIOUS
  <2>1. CASE RunCalculator
    <3>1. PICK e \in Expressions :
              algorithm' = "desktop_calc" /\ given' = e /\ output' = finalRes(TextOf(e))
      BY <2>1 DEF RunCalculator, Run
    <3>2. e \in Seq(Seq(Nat) \ {<<>>}) /\ e # <<>>
      BY ExpressionsAssumption
    <3>3. finalRes(TextOf(e)) = Total([j \in DOMAIN e |-> Multiplied(e[j])])
      BY <3>2, ExpressionComputed
    <3> QED
      BY <3>1, <3>3 DEF ComputesValue
  <2>2. CASE RunHeap \/ RunMergeSort \/ RunLookAndSay
    BY <2>2 DEF RunHeap, RunMergeSort, RunLookAndSay, Run, ComputesValue
  <2>3. CASE UNCHANGED algorithmsVars
    BY <2>3 DEF algorithmsVars, ComputesValue
  <2> QED
    BY <2>1, <2>2, <2>3 DEF AlgorithmsNext
<1> QED
  BY <1>1, <1>2, PTL DEF AlgorithmsSpec
=============================================================================

----------------------------- MODULE EchoServer -----------------------------
(***************************************************************************)
(* async_tcp_echo_server.cpp: one thread in io_service::run() calls the    *)
(* completion handlers of asynchronous operations one after the other.  A  *)
(* session reads into its buffer, writes the buffer back, and so on, until *)
(* an operation fails and the session deletes itself; the server always    *)
(* has one more session waiting for a connection.                          *)
(*                                                                         *)
(* External are Boost.Asio (an operation is pending until it completes,    *)
(* its handler then waits in the queue of run()), the sockets, and the     *)
(* clients, who connect, send, receive, shut their side down or reset.     *)
(* Sessions are the addresses operator new returns: one that was deleted   *)
(* may be handed out again.                                                *)
(***************************************************************************)
EXTENDS Naturals, Sequences, FiniteSets, SequencesExt

CONSTANTS
    Clients,     (* the connections clients may make                       *)
    Sessions,    (* the addresses a session may be allocated at            *)
    NoClient,    (* what an unconnected socket is connected to             *)
    MaxLength,   (* the size of a session's buffer                         *)
    Window,      (* how many bytes are on their way in each direction      *)
    MaxBytes,    (* how many bytes each client sends: bounds the traffic   *)
    MaxFailures  (* how many accepts fail: bounds the failures             *)

(* Operator new never fails: each connection occupies one session at most, *)
(* and one more session waits for a connection.                            *)
ASSUME SessionsAssumption ==
    /\ IsFiniteSet(Clients) /\ IsFiniteSet(Sessions)
    /\ Cardinality(Sessions) > Cardinality(Clients)
    /\ NoClient \notin Clients

ASSUME BoundsAssumption ==
    /\ MaxLength \in Nat \ {0} /\ Window \in Nat \ {0}
    /\ MaxBytes \in [Clients -> Nat] /\ MaxFailures \in Nat

VARIABLES
    live,     (* the sessions that are allocated                           *)
    socket,   (* the connection each session's socket_ is connected to     *)
    data,     (* each session's data_                                      *)
    pending,  (* the operations that were started and have not completed   *)
    ready,    (* the handlers waiting to be called                         *)
    client,   (* what each client has done to its connection               *)
    backlog,  (* the connections not accepted yet                          *)
    sent,     (* how many bytes each client has sent                       *)
    toServer, toClient, (* the bytes on their way on each connection       *)
    received, (* the bytes each client got back                            *)
    failures  (* how many accepts failed                                   *)

server == <<live, socket, data, pending, ready>>
network == <<client, backlog, sent, toServer, toClient, received, failures>>
vars == <<live, socket, data, pending, ready,
          client, backlog, sent, toServer, toClient, received, failures>>

(* An operation that was started.  A write has so many bytes to write, of  *)
(* which some are done.                                                    *)
Accept(s) == [kind |-> "accept", session |-> s, bytes |-> 0, done |-> 0]
Read(s) == [kind |-> "read", session |-> s, bytes |-> 0, done |-> 0]

Write(s, n) == [kind |-> "write", session |-> s, bytes |-> n, done |-> 0]

(* A handler with its arguments, and an operation's completion.            *)
Handler(op, error, n) ==
    [kind |-> op.kind, session |-> op.session, failed |-> error, bytes |-> n]

Complete(op, error, n) ==
    /\ pending' = pending \ {op}
    /\ ready' = Append(ready, Handler(op, error, n))

Init ==
    /\ \E s \in Sessions : live = {s} /\ pending = {Accept(s)}
    /\ socket = [s \in Sessions |-> NoClient]
    /\ data = [s \in Sessions |-> [i \in 1 .. MaxLength |-> 0]]
    /\ ready = <<>>
    /\ client = [c \in Clients |-> "idle"]
    /\ backlog = <<>>
    /\ sent = [c \in Clients |-> 0]
    /\ toServer = [c \in Clients |-> <<>>]
    /\ toClient = [c \in Clients |-> <<>>]
    /\ received = [c \in Clients |-> <<>>]
    /\ failures = 0
-----------------------------------------------------------------------------
(* Clients                                                                 *)

Connect(c) ==
    /\ client[c] = "idle"
    /\ client' = [client EXCEPT ![c] = "connected"]
    /\ backlog' = Append(backlog, c)
    /\ UNCHANGED <<server, sent, toServer, toClient, received, failures>>

Send(c) ==
    /\ client[c] = "connected"
    /\ sent[c] < MaxBytes[c]
    /\ Len(toServer[c]) < Window
    /\ sent' = [sent EXCEPT ![c] = @ + 1]
    /\ toServer' = [toServer EXCEPT ![c] = Append(@, sent[c] + 1)]
    /\ UNCHANGED <<server, client, backlog, toClient, received, failures>>

GetEcho(c) ==
    /\ toClient[c] # <<>>
    /\ received' = [received EXCEPT ![c] = Append(@, Head(toClient[c]))]
    /\ toClient' = [toClient EXCEPT ![c] = Tail(@)]
    /\ UNCHANGED <<server, client, backlog, sent, toServer, failures>>

(* The client sends no more; what it sent is still echoed.                 *)
Shutdown(c) ==
    /\ client[c] = "connected"
    /\ client' = [client EXCEPT ![c] = "shut"]
    /\ UNCHANGED <<server, backlog, sent, toServer, toClient, received, failures>>

(* The connection breaks: what was on its way is lost.                     *)
Reset(c) ==
    /\ client[c] \in {"connected", "shut"}
    /\ client' = [client EXCEPT ![c] = "reset"]
    /\ toServer' = [toServer EXCEPT ![c] = <<>>]
    /\ toClient' = [toClient EXCEPT ![c] = <<>>]
    /\ UNCHANGED <<server, backlog, sent, received, failures>>
-----------------------------------------------------------------------------
(* Operations completing                                                   *)

Accepted(op) ==
    /\ op.kind = "accept"
    /\ backlog # <<>>
    /\ socket' = [socket EXCEPT ![op.session] = Head(backlog)]
    /\ backlog' = Tail(backlog)
    /\ Complete(op, FALSE, 0)
    /\ UNCHANGED <<live, data, client, sent, toServer, toClient, received, failures>>

AcceptFails(op) ==
    /\ op.kind = "accept"
    /\ failures < MaxFailures
    /\ failures' = failures + 1
    /\ Complete(op, TRUE, 0)
    /\ UNCHANGED <<live, socket, data, client, backlog, sent, toServer, toClient, received>>

(* async_read_some completes with some of what is there, up to the size of *)
(* the buffer; the rest of the buffer keeps its contents.                  *)
Receive(op) ==
    LET s == op.session
        c == socket[s]
    IN  /\ op.kind = "read"
        /\ \E n \in 1 .. MaxLength :
              /\ n <= Len(toServer[c])
              /\ data' = [data EXCEPT ![s] = [i \in 1 .. MaxLength |->
                             IF i <= n THEN toServer[c][i] ELSE @[i]]]
              /\ toServer' = [toServer EXCEPT ![c] = SubSeq(@, n + 1, Len(@))]
              /\ Complete(op, FALSE, n)
        /\ UNCHANGED <<live, socket, client, backlog, sent, toClient, received, failures>>

(* End of file, or a connection that was reset.                            *)
ReceiveFails(op) ==
    /\ op.kind = "read"
    /\ client[socket[op.session]] \in {"shut", "reset"}
    /\ toServer[socket[op.session]] = <<>>
    /\ Complete(op, TRUE, 0)
    /\ UNCHANGED <<live, socket, data, network>>

(* async_write hands the socket as much as it takes, time and again.       *)
WriteSome(op) ==
    LET s == op.session
        c == socket[s]
    IN  /\ op.kind = "write"
        /\ client[c] # "reset"
        /\ \E n \in 1 .. op.bytes - op.done :
              /\ Len(toClient[c]) + n <= Window
              /\ toClient' = [toClient EXCEPT ![c] =
                                 @ \o SubSeq(data[s], op.done + 1, op.done + n)]
              /\ IF op.done + n = op.bytes
                 THEN Complete(op, FALSE, op.bytes)
                 ELSE /\ pending' = (pending \ {op}) \cup {[op EXCEPT !.done = @ + n]}
                      /\ UNCHANGED ready
        /\ UNCHANGED <<live, socket, data, client, backlog, sent, toServer, received, failures>>

WriteFails(op) ==
    /\ op.kind = "write"
    /\ client[socket[op.session]] = "reset"
    /\ Complete(op, TRUE, op.done)
    /\ UNCHANGED <<live, socket, data, network>>
-----------------------------------------------------------------------------
(* Handlers                                                                *)

Called(kind, error) == ready # <<>> /\ Head(ready).kind = kind /\ Head(ready).failed = error

Start(op) == pending' = pending \cup {op} /\ ready' = Tail(ready)

(* start_accept: a new session, and an accept for it.                      *)
StartAccept(liveNow, pendingNow) ==
    \E s \in Sessions \ liveNow :
        /\ live' = liveNow \cup {s}
        /\ pending' = pendingNow \cup {Accept(s)}

(* delete this closes the socket, which cancels what is pending on it.     *)
Of(s) == {op \in pending : op.session = s}
Cancelled(s) == SetToSeq({Handler(op, TRUE, 0) : op \in Of(s)})
Closed(s) == socket' = [socket EXCEPT ![s] = NoClient]

Delete(s) ==
    /\ live' = live \ {s}
    /\ Closed(s)
    /\ pending' = pending \ Of(s)
    /\ ready' = Tail(ready) \o Cancelled(s)

HandleAccept ==
    /\ Called("accept", FALSE)
    /\ StartAccept(live, pending \cup {Read(Head(ready).session)})
    /\ ready' = Tail(ready)
    /\ UNCHANGED <<socket, data, network>>

(* Mutant: a failed accept is not followed by another one.                 *)
HandleAcceptFailedStops ==
    /\ Called("accept", TRUE)
    /\ Delete(Head(ready).session)
    /\ UNCHANGED <<data, network>>

HandleAcceptFailed ==
    /\ Called("accept", TRUE)
    /\ LET s == Head(ready).session
       IN  /\ StartAccept(live \ {s}, pending \ Of(s))
           /\ Closed(s)
           /\ ready' = Tail(ready) \o Cancelled(s)
    /\ UNCHANGED <<data, network>>

(* Mutant: the next read is started together with the write.               *)
HandleReadAhead ==
    /\ Called("read", FALSE)
    /\ LET s == Head(ready).session
       IN  pending' = pending \cup {Write(s, Head(ready).bytes), Read(s)}
    /\ ready' = Tail(ready)
    /\ UNCHANGED <<live, socket, data, network>>

HandleRead ==
    /\ Called("read", FALSE)
    /\ Start(Write(Head(ready).session, Head(ready).bytes))
    /\ UNCHANGED <<live, socket, data, network>>

(* Mutant: the session whose read failed is not deleted.                   *)
HandleReadFailedLeaks ==
    /\ Called("read", TRUE)
    /\ ready' = Tail(ready)
    /\ UNCHANGED <<live, socket, data, pending, network>>

HandleReadFailed ==
    /\ Called("read", TRUE)
    /\ Delete(Head(ready).session)
    /\ UNCHANGED <<data, network>>

(* Mutant: a session echoes one chunk only.                                *)
HandleWriteOnce ==
    /\ Called("write", FALSE)
    /\ ready' = Tail(ready)
    /\ UNCHANGED <<live, socket, data, pending, network>>

HandleWrite ==
    /\ Called("write", FALSE)
    /\ Start(Read(Head(ready).session))
    /\ UNCHANGED <<live, socket, data, network>>

HandleWriteFailed ==
    /\ Called("write", TRUE)
    /\ Delete(Head(ready).session)
    /\ UNCHANGED <<data, network>>

RunOne == \/ HandleAccept \/ HandleAcceptFailed
          \/ HandleRead \/ HandleReadFailed
          \/ HandleWrite \/ HandleWriteFailed

Progress(op) == Accepted(op) \/ Receive(op) \/ ReceiveFails(op) \/ WriteSome(op) \/ WriteFails(op)

Next ==
    \/ \E c \in Clients : Connect(c) \/ Send(c) \/ GetEcho(c) \/ Shutdown(c) \/ Reset(c)
    \/ \E op \in pending : Progress(op) \/ AcceptFails(op)
    \/ RunOne

Spec == Init /\ [][Next]_vars

(* run() keeps calling handlers, an operation that can complete does, and  *)
(* a client keeps receiving; nobody has to connect, send or close.         *)
FairSpec ==
    /\ Spec
    /\ WF_vars(RunOne)
    /\ \A s \in Sessions : WF_vars(\E op \in Of(s) : Progress(op))
    /\ \A c \in Clients : WF_vars(GetEcho(c))
-----------------------------------------------------------------------------
(* Every variable holds a value of its type.                               *)
TypeOK ==
    /\ live \subseteq Sessions
    /\ socket \in [Sessions -> Clients \cup {NoClient}]
    /\ data \in [Sessions -> [1 .. MaxLength -> Nat]]
    /\ pending \subseteq [kind : {"accept", "read", "write"}, session : Sessions,
                          bytes : 0 .. MaxLength, done : 0 .. MaxLength]
    /\ ready \in Seq([kind : {"accept", "read", "write"}, session : Sessions,
                      failed : BOOLEAN, bytes : 0 .. MaxLength])
    /\ client \in [Clients -> {"idle", "connected", "shut", "reset"}]
    /\ backlog \in Seq(Clients)
    /\ sent \in [Clients -> Nat] /\ \A c \in Clients : sent[c] <= MaxBytes[c]
    /\ toServer \in [Clients -> Seq(Nat)] /\ toClient \in [Clients -> Seq(Nat)]
    /\ received \in [Clients -> Seq(Nat)]
    /\ failures \in 0 .. MaxFailures

InReady(s) == {i \in DOMAIN ready : ready[i].session = s}

(* Every session that is allocated has exactly one operation pending or    *)
(* handler queued, and one that was deleted has none: no handler is called *)
(* on a deleted session, none is forgotten without a handler that could    *)
(* delete it, and no two operations share its buffer.                      *)
OneHandler ==
    \A s \in Sessions :
        Cardinality(Of(s)) + Cardinality(InReady(s)) = IF s \in live THEN 1 ELSE 0

(* Exactly one session waits for a connection, whatever happens to the     *)
(* others: the server is always accepting, and no socket is connected to   *)
(* two sessions.                                                           *)
AlwaysAccepting ==
    /\ Cardinality({op \in pending : op.kind = "accept"})
       + Cardinality({i \in DOMAIN ready : ready[i].kind = "accept"}) = 1
    /\ \A s, u \in live : socket[s] = socket[u] => s = u \/ socket[s] = NoClient

(* Each client gets its own bytes back, in order, none lost and none       *)
(* twice, however reads and writes are cut up and sessions reuse memory;   *)
(* under fairness it gets every one of them unless it resets.              *)
Promised == INSTANCE Echo WITH reset <- {c \in Clients : client[c] = "reset"}
ImplementsEcho == Promised!Spec
ImplementsFairEcho == Promised!FairSpec

(* Once a client shuts down or resets, its session is deleted for good.    *)
SessionsFreed ==
    \A c \in Clients :
        client[c] \in {"shut", "reset"} ~> [](\A s \in live : socket[s] # c)

(* Every connection is accepted, even after accepts failed.                *)
ConnectionsAccepted ==
    \A c \in Clients : c \in ToSet(backlog) ~> c \notin ToSet(backlog)
=============================================================================

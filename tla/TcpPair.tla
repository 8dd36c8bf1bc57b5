------------------------------ MODULE TcpPair -------------------------------
(***************************************************************************)
(* simple_tcp_server.c and simple_tcp_client.c: the server accepts one     *)
(* connection, reads once, answers and returns; a client connects, asks    *)
(* its user for a line, writes it, reads once, prints and returns.         *)
(*                                                                         *)
(* A message is its length: 0 is what fgets leaves at the end of the input *)
(* or what strlen makes of a line that starts with a 0.  A connection is a *)
(* stream: a read returns some of what was written.  The network, the      *)
(* kernel's queue of connections and the users are external.               *)
(***************************************************************************)
EXTENDS Naturals, FiniteSets, Sequences, SequencesExt

CONSTANTS
    Clients,   (* client processes                                         *)
    NoClient,  (* not a client                                             *)
    Lengths,   (* lengths a message may have                               *)
    Answer,    (* the length of "I got your message"                       *)
    MaxFaults  (* a bound: calls that fail though the peer is there        *)

ASSUME ClientsAssumption == NoClient \notin Clients
ASSUME LengthsAssumption == Lengths \subseteq Nat /\ Answer \in Nat \ {0}
ASSUME MaxFaultsAssumption == MaxFaults \in Nat

VARIABLES
    server,     (* where the server is                                     *)
    backlog,    (* connections the kernel holds for accept                 *)
    accepted,   (* the client of newsockfd                                 *)
    received,   (* bytes the server's read returned                        *)
    client,     (* where each client is                                    *)
    message,    (* the length of what its user entered                     *)
    toServer,   (* bytes written by a client and not read                  *)
    toClient,   (* bytes written by the server and not read                *)
    link,       (* "none", "open", "closed" by one side, "reset"           *)
    printed,    (* bytes of the answer a client printed                    *)
    faults

serverVars == <<server, backlog, accepted, received>>
streams == <<toServer, toClient, link>>
users == <<message, printed>>
vars == <<server, backlog, accepted, received, client, message,
          toServer, toClient, link, printed, faults>>

Init ==
    /\ server = "setup" /\ backlog = <<>> /\ accepted = NoClient /\ received = 0
    /\ client = [c \in Clients |-> "connect"]
    /\ message = [c \in Clients |-> 0]
    /\ toServer = [c \in Clients |-> 0] /\ toClient = [c \in Clients |-> 0]
    /\ link = [c \in Clients |-> "none"]
    /\ printed = [c \in Clients |-> 0]
    /\ faults = 0

Fault == faults < MaxFaults /\ faults' = faults + 1

(* Mutant: the accepted connection is reset whatever was read from it.     *)
ServerExitsHard ==
    /\ server' = "exited"
    /\ link' = [c \in Clients |->
                  IF c \in ToSet(backlog) \cup {accepted} THEN "reset" ELSE link[c]]
    /\ backlog' = <<>>

(* The process ends: its sockets close.  Connections nobody accepted are   *)
(* reset, and so is the accepted one if bytes were left unread in it.      *)
ServerExits ==
    /\ server' = "exited"
    /\ link' = [c \in Clients |->
                  IF c \in ToSet(backlog) \/ (c = accepted /\ toServer[c] > 0)
                  THEN "reset"
                  ELSE IF c = accepted THEN "closed" ELSE link[c]]
    /\ backlog' = <<>>

(* socket, bind and listen.                                                *)
Listen ==
    /\ server = "setup"
    /\ server' = "accept"
    /\ UNCHANGED <<backlog, accepted, received, client, streams, users, faults>>

Accept ==
    /\ server = "accept"
    /\ backlog # <<>>
    /\ accepted' = Head(backlog)
    /\ backlog' = Tail(backlog)
    /\ server' = "read"
    /\ UNCHANGED <<received, client, streams, users, faults>>

(* Mutant: the server reads until the client has closed the connection.    *)
ServerReadAll ==
    /\ server = "read"
    /\ link[accepted] # "open"
    /\ received' = toServer[accepted]
    /\ toServer' = [toServer EXCEPT ![accepted] = 0]
    /\ server' = "write"
    /\ UNCHANGED <<backlog, accepted, client, toClient, link, users, faults>>

(* Mutant: the server does not wait for the message.                       *)
ServerReadNoWait ==
    /\ server = "read"
    /\ \E n \in 0 .. toServer[accepted] :
          /\ received' = n
          /\ toServer' = [toServer EXCEPT ![accepted] = @ - n]
    /\ server' = "write"
    /\ UNCHANGED <<backlog, accepted, client, toClient, link, users, faults>>

(* One read: some of the bytes that were written, or none once the client  *)
(* has closed the connection and nothing is left.                          *)
ServerRead ==
    /\ server = "read"
    /\ \/ \E n \in 1 .. toServer[accepted] :
             /\ received' = n
             /\ toServer' = [toServer EXCEPT ![accepted] = @ - n]
       \/ /\ toServer[accepted] = 0 /\ link[accepted] # "open"
          /\ UNCHANGED <<received, toServer>>
    /\ server' = "write"
    /\ UNCHANGED <<backlog, accepted, client, toClient, link, users, faults>>

(* The answer is written and main returns.                                 *)
ServerWrite ==
    /\ server = "write"
    /\ toClient' = [toClient EXCEPT ![accepted] = Answer]
    /\ ServerExits
    /\ UNCHANGED <<accepted, received, client, toServer, users, faults>>

(* Any call of the server fails: error() ends the process.                 *)
ServerFails ==
    /\ server # "exited"
    /\ Fault
    /\ ServerExits
    /\ UNCHANGED <<accepted, received, client, toServer, toClient, users>>

-----------------------------------------------------------------------------
ClientAt(c, here, there) ==
    client[c] = here /\ client' = [client EXCEPT ![c] = there]

(* The process ends: its socket closes.                                    *)
ClientExits(c, here) ==
    /\ ClientAt(c, here, "exited")
    /\ link' = [link EXCEPT ![c] = IF @ = "open" THEN "closed" ELSE @]

Listening == server \notin {"setup", "exited"}

Connect(c) ==
    /\ Listening
    /\ ClientAt(c, "connect", "prompt")
    /\ link' = [link EXCEPT ![c] = "open"]
    /\ backlog' = Append(backlog, c)
    /\ UNCHANGED <<server, accepted, received, toServer, toClient, users, faults>>

ConnectRefused(c) ==
    /\ ~Listening
    /\ ClientExits(c, "connect")
    /\ UNCHANGED <<serverVars, toServer, toClient, users, faults>>

(* fgets                                                                   *)
Enter(c) ==
    /\ ClientAt(c, "prompt", "write")
    /\ \E n \in Lengths : message' = [message EXCEPT ![c] = n]
    /\ UNCHANGED <<serverVars, streams, printed, faults>>

(* The user interrupts the program at the prompt.                          *)
Interrupt(c) ==
    /\ ClientExits(c, "prompt")
    /\ UNCHANGED <<serverVars, toServer, toClient, users, faults>>

(* Mutant: the end of the line is cut off.                                 *)
ClientWriteCut(c) ==
    /\ ClientAt(c, "write", "read")
    /\ toServer' = [toServer EXCEPT ![c] =
                      IF link[c] = "open" /\ message[c] > 0 THEN message[c] - 1 ELSE @]
    /\ UNCHANGED <<serverVars, toClient, link, users, faults>>

(* Bytes written to a connection that is closed go nowhere.                 *)
ClientWrite(c) ==
    /\ ClientAt(c, "write", "read")
    /\ toServer' = [toServer EXCEPT ![c] = IF link[c] = "open" THEN message[c] ELSE @]
    /\ UNCHANGED <<serverVars, toClient, link, users, faults>>

ClientWriteFails(c) ==
    /\ link[c] = "reset"
    /\ ClientExits(c, "write")
    /\ UNCHANGED <<serverVars, toServer, toClient, users, faults>>

(* One read: some of the answer, or none once the server has closed the    *)
(* connection and nothing is left.                                         *)
ClientRead(c) ==
    /\ \/ \E n \in 1 .. toClient[c] :
             /\ printed' = [printed EXCEPT ![c] = n]
             /\ toClient' = [toClient EXCEPT ![c] = @ - n]
       \/ /\ toClient[c] = 0 /\ link[c] = "closed"
          /\ UNCHANGED <<printed, toClient>>
    /\ ClientExits(c, "read")
    /\ UNCHANGED <<serverVars, toServer, message, faults>>

(* A reset may overtake the answer.                                        *)
ClientReadFails(c) ==
    /\ link[c] = "reset"
    /\ ClientExits(c, "read")
    /\ UNCHANGED <<serverVars, toServer, toClient, users, faults>>

ClientFails(c) ==
    /\ \E here \in {"connect", "write", "read"} : ClientExits(c, here)
    /\ Fault
    /\ UNCHANGED <<serverVars, toServer, toClient, users>>

Server == Accept \/ ServerRead \/ ServerWrite

Client(c) ==
    \/ Connect(c) \/ ConnectRefused(c)
    \/ ClientWrite(c) \/ ClientWriteFails(c)
    \/ ClientRead(c) \/ ClientReadFails(c)

Next ==
    \/ Listen \/ Server \/ ServerFails
    \/ \E c \in Clients : Client(c) \/ Enter(c) \/ Interrupt(c) \/ ClientFails(c)

(* Both programs run; nobody has to start the server or to type.           *)
Spec ==
    /\ Init /\ [][Next]_vars
    /\ WF_vars(Server) /\ \A c \in Clients : WF_vars(Client(c))

-----------------------------------------------------------------------------
TypeOK ==
    /\ server \in {"setup", "accept", "read", "write", "exited"}
    /\ backlog \in Seq(Clients) /\ IsInjective(backlog)
    /\ accepted \in Clients \cup {NoClient}
    /\ server \in {"read", "write"} => accepted # NoClient
    /\ client \in [Clients -> {"connect", "prompt", "write", "read", "exited"}]
    /\ link \in [Clients -> {"none", "open", "closed", "reset"}]
    /\ message \in [Clients -> Nat] /\ toServer \in [Clients -> Nat]
    /\ toClient \in [Clients -> 0 .. Answer] /\ printed \in [Clients -> 0 .. Answer]
    /\ received \in Nat /\ faults \in 0 .. MaxFaults

(* A client prints an answer only if the server had read from it, not from *)
(* another client, and not because nothing was there to be read.           *)
AnswerMeansReceived ==
    \A c \in Clients : printed[c] > 0 => accepted = c /\ received > 0

(* Each waits in read for the other, with nothing under way: the programs  *)
(* never end.                                                              *)
BothWait ==
    /\ server = "read" /\ link[accepted] = "open"
    /\ client[accepted] = "read"
    /\ toServer[accepted] = 0 /\ toClient[accepted] = 0

(* The only message that leads there is the empty one.                     *)
BothWaitOnlyIfEmpty == BothWait => message[accepted] = 0

(* If no call fails and the message was read at once, the client prints an *)
(* answer: only what is left unread resets the connection.                 *)
WholeMessageAnswered ==
    \A c \in Clients :
        /\ c = accepted /\ client[c] = "exited" /\ faults = 0
        /\ received > 0 /\ received = message[c]
        => printed[c] > 0

(* A client that has sent its message ends, accepted or not, unless the    *)
(* accepted client keeps the server waiting for ever: at its prompt, or    *)
(* with an empty message.                                                  *)
ServerHeld ==
    /\ server = "read"
    /\ client[accepted] = "prompt" \/ BothWait

ClientsReturn ==
    \A c \in Clients :
        [](client[c] = "read" => <>(client[c] = "exited") \/ <>[]ServerHeld)
=============================================================================

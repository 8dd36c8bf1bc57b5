-------------------------------- MODULE Echo --------------------------------
(***************************************************************************)
(* What the echo server promises the clients of its connections: each gets *)
(* back the bytes it sent, in the order it sent them, none missing and     *)
(* none twice, until it resets its connection.  A connection's bytes are   *)
(* numbered from 1.                                                        *)
(***************************************************************************)
EXTENDS Naturals, Sequences

CONSTANTS
    Clients, (* the connections that clients may make                      *)
    MaxBytes (* how many bytes each client sends: bounds the traffic       *)

VARIABLES
    sent,     (* how many bytes each client has sent                       *)
    received, (* the bytes each client got back                            *)
    reset     (* the clients that reset their connection                   *)

vars == <<sent, received, reset>>

Init ==
    /\ sent = [c \in Clients |-> 0]
    /\ received = [c \in Clients |-> <<>>]
    /\ reset = {}

Send(c) ==
    /\ c \notin reset
    /\ sent[c] < MaxBytes[c]
    /\ sent' = [sent EXCEPT ![c] = @ + 1]
    /\ UNCHANGED <<received, reset>>

Receive(c) ==
    /\ c \notin reset
    /\ Len(received[c]) < sent[c]
    /\ received' = [received EXCEPT ![c] = Append(@, Len(@) + 1)]
    /\ UNCHANGED <<sent, reset>>

Reset(c) ==
    /\ c \notin reset
    /\ reset' = reset \cup {c}
    /\ UNCHANGED <<sent, received>>

Next == \E c \in Clients : Send(c) \/ Receive(c) \/ Reset(c)

Spec == Init /\ [][Next]_vars

(* What was sent is echoed.                                                *)
FairSpec == Spec /\ \A c \in Clients : WF_vars(Receive(c))
=============================================================================

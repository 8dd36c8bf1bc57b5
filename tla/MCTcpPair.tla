----------------------------- MODULE MCTcpPair ------------------------------
(* A small instance of TcpPair: two clients, one of which waits in the     *)
(* backlog, and messages that are empty, read at once, or read in part.    *)
EXTENDS TcpPair

CONSTANTS c1, c2

TwoClients == {c1, c2}
=============================================================================

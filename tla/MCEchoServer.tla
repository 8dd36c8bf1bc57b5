---------------------------- MODULE MCEchoServer ----------------------------
(* Small instances of EchoServer.                                          *)
EXTENDS EchoServer

CONSTANTS c1, c2, s1, s2, s3

TwoClients == {c1, c2}
ThreeSessions == {s1, s2, s3}

TwoAndOne == [c \in TwoClients |-> IF c = c1 THEN 2 ELSE 1]
=============================================================================

--------------------------- MODULE MCEpollReader ---------------------------
(* A small instance of EpollReader: a buffer that holds the line "stop"    *)
(* and one byte more, so that lines arrive alone, together or cut.         *)
EXTENDS EpollReader

MCLines == {<<>>, <<"x">>, <<"stop">>, <<"x", "stop">>}
=============================================================================

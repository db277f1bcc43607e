----------------------------- MODULE MCReadPath ----------------------------
(* Reads of up to a full readScratch, one byte longer than the ring holds,  *)
(* with line ends at every place, in more pieces than the parser has data   *)
(* events for, without text, and with one and two subnegotiations;          *)
(* ReadLine's buffer is shorter than the ring.                              *)
EXTENDS ReadPath

MCChunks ==
    { <<"x">>, <<"CR">>, <<"LF">>, <<"x", "CR", "LF">>, <<"LF", "y", "CR">>,
      <<"x", "LF", "y", "LF">>, <<"x", "y", "CR", "LF", "y">>,
      <<"y", "CR", "cmd", "LF">>, <<"cmd">>, <<"IAC", "x", "IAC", "LF", "IAC">>,
      <<"naws">>, <<"x", "ttype", "CR">>, <<"naws", "ttype">>, <<"short">>,
      <<"wide">> }
MCPlain == {<<"x">>, <<"x", "LF", "y", "LF">>, <<"CR", "LF">>}
============================================================================

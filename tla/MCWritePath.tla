---------------------------- MODULE MCWritePath ----------------------------
(* Texts with and without IAC, shorter and longer than what is left of the  *)
(* buffer; zlib output that holds IAC; a payload that holds IAC and SE and  *)
(* is longer than the buffer.                                               *)
EXTENDS WritePath

MCTexts    == {<<65>>, <<65, CmdIAC, 65>>}
MCZipped   == {<<120, CmdIAC>>}
MCCommands == {<<CmdDo, 1>>}
MCSubnegs  == {<<1, <<CmdIAC, CmdSE>>>>}
============================================================================

------------------------------ MODULE MCParser -----------------------------
(* Parser over every sequence of up to two bytes of an alphabet with one    *)
(* byte of each role, and longer chunks that overrun the event tables; any  *)
(* chunk may follow any other, so every split of longer input occurs.       *)
EXTENDS Parser

MCByte == {0, CmdSE, CmdSB, CmdWill, CmdIAC}
MCChunks == UNION {[1..n -> MCByte] : n \in 1..2} \cup
    { <<0, CmdIAC, CmdIAC, CmdIAC, CmdIAC, CmdIAC, CmdIAC, 0>>,
      <<0, CmdIAC, 0, 0, CmdIAC, CmdSB>>,
      <<CmdIAC, CmdWill, 0, CmdIAC, CmdWill, 0, CmdIAC, CmdWill, CmdSE>>,
      <<CmdSB, 0, CmdIAC, CmdSE, CmdIAC, CmdSB, CmdSE, CmdSB, CmdIAC, CmdSE, 0>>,
      <<CmdIAC, CmdSB, 0, CmdSB, CmdIAC, CmdSE, CmdIAC, CmdSB, 0, 0>> }
============================================================================

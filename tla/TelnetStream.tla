---------------------------- MODULE TelnetStream ---------------------------
(***************************************************************************)
(* The reference decoder: what a TELNET byte stream means, one byte at a   *)
(* time, with no chunks, slices, event tables or size limits.  Text, the   *)
(* negotiation commands and the subnegotiations decoded since the last     *)
(* Mark are kept as sequences of their own.                                *)
(***************************************************************************)
EXTENDS Integers, Sequences

CmdIAC  == 255
CmdDont == 254
CmdDo   == 253
CmdWont == 252
CmdWill == 251
CmdSB   == 250
CmdSE   == 240

CONSTANT Observed   \* payload bytes of a subnegotiation that are recorded

Verbs == {CmdWill, CmdWont, CmdDo, CmdDont}

VARIABLES mode,    \* where in a TELNET sequence the stream stands
          verb,    \* the verb whose option byte is awaited
          opt,     \* the option of the open subnegotiation
          body,    \* its unescaped payload so far, up to Observed bytes
          text,    \* data bytes since the last Mark
          cmds,    \* <<verb, option>> pairs since the last Mark
          subs     \* <<option, payload>> pairs since the last Mark

refVars == <<mode, verb, opt, body, text, cmds, subs>>

RefInit == /\ mode = "text"
           /\ verb = 0 /\ opt = 0 /\ body = << >>
           /\ text = << >> /\ cmds = << >> /\ subs = << >>

(* Starts a new observation; the place in the stream is kept. *)
Mark == /\ text' = << >> /\ cmds' = << >> /\ subs' = << >>
        /\ UNCHANGED <<mode, verb, opt, body>>

(* Forgets the place in the stream, and with an open subnegotiation the    *)
(* ones before it: it may have taken the room they were kept in.           *)
Restart == /\ mode' = "text" /\ verb' = 0 /\ opt' = 0 /\ body' = << >>
           /\ subs' = IF mode \in {"sb", "body", "bodyiac"} THEN << >> ELSE subs
           /\ UNCHANGED <<text, cmds>>

TextByte(b) ==
    /\ mode = "text"
    /\ mode' = IF b = CmdIAC THEN "iac" ELSE "text"
    /\ text' = IF b = CmdIAC THEN text ELSE Append(text, b)
    /\ UNCHANGED <<verb, opt, body, cmds, subs>>

AfterIAC(b) ==
    /\ mode = "iac"
    /\ mode' = IF b \in Verbs THEN "verb" ELSE IF b = CmdSB THEN "sb" ELSE "text"
    /\ text' = IF b = CmdIAC THEN Append(text, b) ELSE text
    /\ verb' = IF b \in Verbs THEN b ELSE verb
    /\ body' = IF b = CmdSB THEN << >> ELSE body
    /\ UNCHANGED <<opt, cmds, subs>>

OptionByte(b) ==
    /\ mode = "verb"
    /\ mode' = "text"
    /\ cmds' = Append(cmds, <<verb, b>>)
    /\ UNCHANGED <<verb, opt, body, text, subs>>

SubOption(b) ==
    /\ mode = "sb"
    /\ mode' = "body"
    /\ opt' = b
    /\ UNCHANGED <<verb, body, text, cmds, subs>>

Record(bytes) == SubSeq(body \o bytes, 1,
    IF Len(body \o bytes) < Observed THEN Len(body \o bytes) ELSE Observed)

SubByte(b) ==
    /\ mode = "body"
    /\ mode' = IF b = CmdIAC THEN "bodyiac" ELSE "body"
    /\ body' = IF b = CmdIAC THEN body ELSE Record(<<b>>)
    /\ UNCHANGED <<verb, opt, text, cmds, subs>>

(* IAC SE ends the subnegotiation and IAC IAC is one payload byte; any     *)
(* other pair is kept as it came.                                          *)
SubAfterIAC(b) ==
    /\ mode = "bodyiac"
    /\ mode' = IF b = CmdSE THEN "text" ELSE "body"
    /\ body' = CASE b = CmdSE  -> body
                 [] b = CmdIAC -> Record(<<CmdIAC>>)
                 [] OTHER      -> Record(<<CmdIAC, b>>)
    /\ subs' = IF b = CmdSE THEN Append(subs, <<opt, body>>) ELSE subs
    /\ UNCHANGED <<verb, opt, text, cmds>>

Take(b) == \/ TextByte(b)  \/ AfterIAC(b) \/ OptionByte(b)
           \/ SubOption(b) \/ SubByte(b)  \/ SubAfterIAC(b)
============================================================================

------------------------------- MODULE Parser ------------------------------
(***************************************************************************)
(* Parser of parser.go, beside the reference decoder of TelnetStream fed   *)
(* the same bytes.  Parse(data, result) is one action per byte of its loop, *)
(* between an action that enters it and one that flushes and returns.      *)
(*                                                                         *)
(* A data event is a slice of the caller's chunk, kept here as the pair    *)
(* <<lo, hi>> of its offsets.  A subnegotiation event is a slice of the    *)
(* parser's own accumulator, whose array outlives snBuf.Reset: it is kept  *)
(* as <<option, length>> and its bytes are read from snArr.                *)
(***************************************************************************)
EXTENDS TelnetStream, SequencesExt

CONSTANTS Byte,            \* the values of a byte
          Chunks,          \* what one Read of the socket may return
          MaxDataEvents,   \* len(result.DataEvents): 64 in the code
          MaxCmdEvents,    \* len(result.CommandEvents): 16
          MaxSNEvents,     \* len(result.SNEvents): 8
          SnCap            \* cap(p.snBuf.buf): 512

ASSUME ParserAssumption ==
    /\ Byte \subseteq 0..255
    /\ 0 \in Byte /\ CmdIAC \in Byte
    /\ Chunks \subseteq Seq(Byte)
    /\ MaxDataEvents \in Nat /\ MaxCmdEvents \in Nat
    /\ MaxSNEvents \in Nat /\ SnCap \in Nat
    /\ Observed \in Nat /\ SnCap <= Observed

VARIABLES state, cmd, snOption,   \* fields of Parser
          snArr, snLen,           \* p.snBuf.buf: its array and its length
          pc,                     \* "parse" while a call of Parse runs
          data, i, dataStart,     \* parameter and locals of Parse
          dataEv, cmdEv, snEv     \* result.DataEvents[:DataCount] and so on

parserVars == <<state, cmd, snOption, snArr, snLen>>
local      == <<data, i, dataStart>>
result     == <<dataEv, cmdEv, snEv>>
vars == <<parserVars, pc, local, result, refVars>>

Init == /\ state = "Data" /\ cmd = 0 /\ snOption = 0
        /\ snArr = [k \in 1..SnCap |-> 0] /\ snLen = 0
        /\ pc = "idle" /\ data = << >> /\ i = 0 /\ dataStart = 0
        /\ dataEv = << >> /\ cmdEv = << >> /\ snEv = << >>
        /\ RefInit
----------------------------------------------------------------------------
(* appendData: extends the last event if the new piece starts where it     *)
(* ends in the chunk, else takes a new one while there is room.            *)
appendData(ev, lo, hi) ==
    IF lo = hi THEN ev
    ELSE IF ev # << >> /\ ev[Len(ev)][2] = lo
    THEN [ev EXCEPT ![Len(ev)] = <<@[1], hi>>]
    ELSE IF Len(ev) < MaxDataEvents THEN Append(ev, <<lo, hi>>) ELSE ev

appendCommand(ev, c, option) ==
    IF Len(ev) < MaxCmdEvents THEN Append(ev, <<c, option>>) ELSE ev

appendSubnegotiation(ev, option, len) ==
    IF Len(ev) < MaxSNEvents THEN Append(ev, <<option, len>>) ELSE ev

(* Mutant: the accumulator has no limit. *)
SnWriteUnbounded(sn, b) ==
    [arr |-> [sn.arr EXCEPT ![sn.len + 1] = b], len |-> sn.len + 1]

(* StaticBuffer.WriteByte on [arr, len]: a byte past the limit is refused, *)
(* and Parse ignores the error.                                            *)
SnWrite(sn, b) ==
    IF sn.len < SnCap
    THEN [arr |-> [sn.arr EXCEPT ![sn.len + 1] = b], len |-> sn.len + 1]
    ELSE sn

SetSnBuf(sn) == snArr' = sn.arr /\ snLen' = sn.len
SnBuf == [arr |-> snArr, len |-> snLen]
----------------------------------------------------------------------------
(* Entry of Parse: the counts of the result are reset, dataStart is 0. *)
Feed(chunk) ==
    /\ pc = "idle"
    /\ pc' = "parse"
    /\ data' = chunk /\ i' = 0 /\ dataStart' = 0
    /\ dataEv' = << >> /\ cmdEv' = << >> /\ snEv' = << >>
    /\ UNCHANGED parserVars
    /\ Mark

Current == data[i + 1]

Advance == /\ pc = "parse"
           /\ i < Len(data)
           /\ i' = i + 1
           /\ UNCHANGED <<pc, data>>
           /\ Take(Current)

(* Mutant: pending data is not flushed when IAC interrupts it. *)
OnDataUnflushed ==
    /\ Advance
    /\ state = "Data"
    /\ state' = IF Current = CmdIAC THEN "IAC" ELSE "Data"
    /\ UNCHANGED <<dataEv, cmd, snOption, snArr, snLen, dataStart, cmdEv, snEv>>

OnData ==
    /\ Advance
    /\ state = "Data"
    /\ state'  = IF Current = CmdIAC THEN "IAC" ELSE "Data"
    /\ dataEv' = IF Current = CmdIAC THEN appendData(dataEv, dataStart, i) ELSE dataEv
    /\ UNCHANGED <<cmd, snOption, snArr, snLen, dataStart, cmdEv, snEv>>

(* Mutant: the start of plain data is not moved past the escaped byte. *)
OnIACEscapedStale ==
    /\ Advance
    /\ state = "IAC" /\ Current = CmdIAC
    /\ dataEv' = appendData(dataEv, i, i + 1)
    /\ state' = "Data"
    /\ UNCHANGED <<cmd, snOption, snArr, snLen, dataStart, cmdEv, snEv>>

OnIACEscaped ==
    /\ Advance
    /\ state = "IAC" /\ Current = CmdIAC
    /\ dataEv' = appendData(dataEv, i, i + 1)
    /\ dataStart' = i + 1
    /\ state' = "Data"
    /\ UNCHANGED <<cmd, snOption, snArr, snLen, cmdEv, snEv>>

OnIACVerb ==
    /\ Advance
    /\ state = "IAC" /\ Current \in Verbs
    /\ cmd' = Current
    /\ state' = "Negotiation"
    /\ UNCHANGED <<snOption, snArr, snLen, dataStart, result>>

(* Mutant: the accumulator of the previous subnegotiation is not reset. *)
OnIACSBKept ==
    /\ Advance
    /\ state = "IAC" /\ Current = CmdSB
    /\ state' = "SubnegotiationOption"
    /\ UNCHANGED <<cmd, snOption, snArr, snLen, dataStart, result>>

OnIACSB ==
    /\ Advance
    /\ state = "IAC" /\ Current = CmdSB
    /\ snLen' = 0
    /\ state' = "SubnegotiationOption"
    /\ UNCHANGED <<cmd, snOption, snArr, dataStart, result>>

(* Mutant: an unknown command leaves the parser waiting for another one. *)
OnIACOtherStuck ==
    /\ Advance
    /\ state = "IAC" /\ Current \notin Verbs \cup {CmdIAC, CmdSB}
    /\ dataStart' = i + 1
    /\ UNCHANGED <<state, cmd, snOption, snArr, snLen, result>>

(* The single-byte commands and the unknown ones are skipped alike. *)
OnIACOther ==
    /\ Advance
    /\ state = "IAC" /\ Current \notin Verbs \cup {CmdIAC, CmdSB}
    /\ dataStart' = i + 1
    /\ state' = "Data"
    /\ UNCHANGED <<cmd, snOption, snArr, snLen, result>>

(* Mutant: the command is recorded with the option of the subnegotiation. *)
OnNegotiationMixed ==
    /\ Advance
    /\ state = "Negotiation"
    /\ cmdEv' = appendCommand(cmdEv, cmd, snOption)
    /\ dataStart' = i + 1
    /\ state' = "Data"
    /\ UNCHANGED <<cmd, snOption, snArr, snLen, dataEv, snEv>>

OnNegotiation ==
    /\ Advance
    /\ state = "Negotiation"
    /\ cmdEv' = appendCommand(cmdEv, cmd, Current)
    /\ dataStart' = i + 1
    /\ state' = "Data"
    /\ UNCHANGED <<cmd, snOption, snArr, snLen, dataEv, snEv>>

OnSubnegotiationOption ==
    /\ Advance
    /\ state = "SubnegotiationOption"
    /\ snOption' = Current
    /\ state' = "Subnegotiation"
    /\ UNCHANGED <<cmd, snArr, snLen, dataStart, result>>

OnSubnegotiation ==
    /\ Advance
    /\ state = "Subnegotiation"
    /\ state' = IF Current = CmdIAC THEN "SubnegotiationIAC" ELSE "Subnegotiation"
    /\ SetSnBuf(IF Current = CmdIAC THEN SnBuf ELSE SnWrite(SnBuf, Current))
    /\ UNCHANGED <<cmd, snOption, dataStart, result>>

OnSubnegotiationEnd ==
    /\ Advance
    /\ state = "SubnegotiationIAC" /\ Current = CmdSE
    /\ snEv' = appendSubnegotiation(snEv, snOption, snLen)
    /\ dataStart' = i + 1
    /\ state' = "Data"
    /\ UNCHANGED <<cmd, snOption, snArr, snLen, dataEv, cmdEv>>

OnSubnegotiationIAC ==
    /\ Advance
    /\ state = "SubnegotiationIAC" /\ Current # CmdSE
    /\ SetSnBuf(SnWrite(SnWrite(SnBuf, CmdIAC), Current))
    /\ state' = "Subnegotiation"
    /\ UNCHANGED <<cmd, snOption, dataStart, result>>

ParseByte == \/ OnData
             \/ OnIACEscaped \/ OnIACVerb \/ OnIACSB \/ OnIACOther
             \/ OnNegotiation
             \/ OnSubnegotiationOption \/ OnSubnegotiation
             \/ OnSubnegotiationEnd \/ OnSubnegotiationIAC

(* The loop is over: what is left of plain data is flushed, and the locals *)
(* are dead.                                                               *)
EndParse ==
    /\ pc = "parse"
    /\ i = Len(data)
    /\ dataEv' = IF state = "Data" /\ dataStart < Len(data)
                 THEN appendData(dataEv, dataStart, Len(data)) ELSE dataEv
    /\ dataStart' = Len(data)
    /\ pc' = "idle"
    /\ UNCHANGED <<parserVars, data, i, cmdEv, snEv, refVars>>

Reset ==
    /\ pc = "idle"
    /\ state' = "Data" /\ cmd' = 0 /\ snOption' = 0 /\ snLen' = 0
    /\ UNCHANGED <<snArr, pc, local, result>>
    /\ Restart

Next == \/ \E chunk \in Chunks : Feed(chunk)
        \/ ParseByte
        \/ EndParse
        \/ Reset

Spec == Init /\ [][Next]_vars
----------------------------------------------------------------------------
States == {"Data", "IAC", "Negotiation", "SubnegotiationOption",
           "Subnegotiation", "SubnegotiationIAC"}

TypeOK ==
    /\ state \in States
    /\ cmd \in Byte /\ snOption \in Byte
    /\ snArr \in [1..SnCap -> Byte] /\ snLen \in 0..SnCap
    /\ pc \in {"idle", "parse"}
    /\ data \in Seq(Byte) /\ i \in 0..Len(data) /\ dataStart \in 0..i
    /\ dataEv \in Seq(Nat \X Nat) /\ Len(dataEv) <= MaxDataEvents
    /\ cmdEv \in Seq(Verbs \X Byte) /\ Len(cmdEv) <= MaxCmdEvents
    /\ snEv \in Seq(Byte \X (0..SnCap)) /\ Len(snEv) <= MaxSNEvents

(* The data events are non-empty slices of the part of the chunk already   *)
(* read, in order and with a gap between any two: the pointer comparison   *)
(* and the re-slicing in appendData never join, overlap or reorder pieces, *)
(* and never reach past what the socket returned.                          *)
EventsOrdered ==
    /\ \A k \in 1..Len(dataEv) : dataEv[k][1] < dataEv[k][2] /\ dataEv[k][2] <= i
    /\ \A k \in 1..(Len(dataEv) - 1) : dataEv[k][2] < dataEv[k + 1][1]

(* Plain data not yet in an event starts after every event. *)
EventsBehind == (state = "Data" \/ pc = "idle") =>
                    \A k \in 1..Len(dataEv) : dataEv[k][2] <= dataStart

(* The parser stands where the reference decoder stands, byte for byte:    *)
(* neither a chunk boundary nor an event dropped at a limit makes it take  *)
(* text for commands or commands for text.                                 *)
InSync ==
    <<state, mode>> \in
       {<<"Data", "text">>, <<"IAC", "iac">>, <<"Negotiation", "verb">>,
        <<"SubnegotiationOption", "sb">>, <<"Subnegotiation", "body">>,
        <<"SubnegotiationIAC", "bodyiac">>}

Slice(ev) == SubSeq(data, ev[1] + 1, ev[2])
Stored  == FlattenSeq([k \in 1..Len(dataEv) |-> Slice(dataEv[k])])
Pending == IF pc = "parse" /\ state = "Data" THEN SubSeq(data, dataStart + 1, i) ELSE << >>

(* What the data events of a Parse call hold is a prefix of the text in    *)
(* the chunk; it is all of it unless the event table is full.              *)
DataDecoded ==
    /\ IsPrefix(Stored, text)
    /\ Len(dataEv) < MaxDataEvents => Stored \o Pending = text

(* The command events are the first MaxCmdEvents negotiation commands of   *)
(* the chunk, verb and option paired as sent, also when a chunk boundary   *)
(* falls inside one.                                                       *)
CommandsDecoded ==
    cmdEv = SubSeq(cmds, 1, IF Len(cmds) < MaxCmdEvents THEN Len(cmds) ELSE MaxCmdEvents)

SnData(k) == SubSeq(snArr, 1, snEv[k][2])
InSubnegotiation == state \in {"SubnegotiationOption", "Subnegotiation", "SubnegotiationIAC"}

(* The newest subnegotiation event holds the option that was sent and,     *)
(* until the next subnegotiation opens, the payload, cut to the            *)
(* accumulator's capacity, if the payload has no byte 255: also when       *)
(* chunks cut it anywhere, tables are full, or Reset left half of another. *)
(* (An escaped 255 is stored as the two bytes that came, parser.go:151.)   *)
SubnegotiationDecoded ==
    LET k == Len(snEv)
        payload == subs[k][2]
    IN k > 0 /\ k = Len(subs) /\ ~InSubnegotiation
       => /\ snEv[k][1] = subs[k][1]
          /\ (\A j \in 1..Len(payload) : payload[j] # CmdIAC)
             => SnData(k) = SubSeq(payload, 1, IF Len(payload) < SnCap THEN Len(payload)
                                              ELSE SnCap)

(* The inductive invariant behind TypeOK, EventsOrdered, InSync and        *)
(* CommandsDecoded.                                                        *)
RefOK == /\ verb \in Byte /\ opt \in Byte /\ cmds \in Seq(Verbs \X Byte)
         /\ state = "Negotiation" => cmd = verb /\ cmd \in Verbs
         /\ pc = "idle" => i = dataStart

IndInv == TypeOK /\ EventsOrdered /\ EventsBehind /\ InSync /\ RefOK /\ CommandsDecoded
============================================================================

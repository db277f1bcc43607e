----------------------------- MODULE WritePath -----------------------------
(***************************************************************************)
(* The write path of a Conn, byte by byte: Write's escaping loop,          *)
(* SendCommand, SendSubnegotiation, Flush, the MCCPWriter of mud.go on top *)
(* of them, and a socket whose Write may time out after part of the        *)
(* buffer.  The peer is the reference decoder of TelnetStream.             *)
(*                                                                         *)
(* writeMu makes every call a step, except that Write appends one byte per *)
(* step; p # << >> says that it holds the lock.                            *)
(*                                                                         *)
(* zlib is whatever bytes its writer hands to Write, in as many calls as   *)
(* it likes; the peer's inflater is not modelled.                          *)
(***************************************************************************)
EXTENDS TelnetStream, SequencesExt, FiniteSetsExt

CONSTANTS WriteCap,     \* cap(c.writeBuf.buf) of a new Conn
          Texts,        \* arguments of Write
          Zipped,       \* what the zlib writer writes at once
          Commands,     \* <<verb, option>>: arguments of SendCommand
          Subnegs,      \* <<option, payload>>: arguments of SendSubnegotiation
          OptMCCP2,
          MaxCalls, MaxFaults     \* bounds on the calls and on the failing writes

ASSUME WriteAssumption == /\ WriteCap \in Nat /\ WriteCap >= 5
                          /\ MaxCalls \in Nat /\ MaxFaults \in Nat

(* A subnegotiation is no longer than what is recorded of it at the peer. *)
ASSUME CallAssumption == /\ Texts \subseteq Seq(Nat) /\ Zipped \subseteq Seq(Nat)
                         /\ Commands \subseteq Verbs \X Nat
                         /\ Subnegs \subseteq Nat \X Seq(Nat)
                         /\ \A s \in Subnegs : Len(s[2]) <= Observed
                         /\ OptMCCP2 \in Nat /\ Observed \in Nat

VARIABLES buf, cap,   \* c.writeBuf.buf and its capacity
          p,          \* what the Write in progress has still to append
          by,         \* whose it is: "app" or "zlib"
          zip,        \* the MCCPWriter: "none" yet, "plain" (writer nil), "zlib",
                      \* "failed" (an error sticks to the zlib writer)
          next,       \* the call of the MCCPWriter in progress, or "none"
          wire,       \* bytes on their way to the peer
          sent,       \* how much of buf a failed write has sent already
          again,      \* part of buf has been sent a second time
          out,        \* what the calls have accepted: [text, cmds, subs]
          calls, faults

vars == <<buf, cap, p, by, zip, next, wire, sent, again, out, calls, faults, refVars>>

Init == /\ buf = << >> /\ cap = WriteCap /\ p = << >> /\ by = "app"
        /\ zip = "none" /\ next = "none"
        /\ wire = << >> /\ sent = 0 /\ again = FALSE
        /\ out = [text |-> << >>, cmds |-> << >>, subs |-> << >>]
        /\ calls = 0 /\ faults = 0
        /\ RefInit
----------------------------------------------------------------------------
(* Mutant: the byte is sent as it is. *)
EscapedNot(b) == <<b>>

Escaped(b) == IF b = CmdIAC THEN <<b, CmdIAC>> ELSE <<b>>

(* The encoders: EscapeIAC's output, and what the other two write and the  *)
(* count they return, negative when dst is too small.                      *)
EscapeIAC(src) == FlattenSeq([k \in 1..Len(src) |-> Escaped(src[k])])
Fit(dst, bytes) == [n |-> IF dst < Len(bytes) THEN -Len(bytes) ELSE Len(bytes),
                    bytes |-> IF dst < Len(bytes) THEN << >> ELSE bytes]
BuildCommand(dst, cmd, option) == Fit(dst, <<CmdIAC, cmd, option>>)
BuildSubnegotiation(dst, option, data) ==
    Fit(dst, <<CmdIAC, CmdSB, option>> \o EscapeIAC(data) \o <<CmdIAC, CmdSE>>)

(* append(c.writeBuf.buf, bytes...): the runtime moves a slice that is too *)
(* short to an array longer by about a quarter, or as long as it needs.    *)
append(b, bytes) ==
    LET len == Len(b) + Len(bytes)
    IN /\ buf' = b \o bytes
       /\ cap' = IF len <= cap THEN cap ELSE Max({len, cap + cap \div 4})

(* Mutant: a failed write is taken for a finished one. *)
FlushFailsSilently ==
    /\ faults < MaxFaults /\ faults' = faults + 1
    /\ \E n \in 0..(Len(buf) - 1) : wire' = wire \o SubSeq(buf, 1, n)
    /\ buf' = << >>
    /\ UNCHANGED <<cap, again, sent>>

(* flushLocked, when netConn.Write fails after n bytes: all of buf stays. *)
FlushFails ==
    /\ faults < MaxFaults /\ faults' = faults + 1
    /\ \E n \in 0..(Len(buf) - 1) :
          /\ wire' = wire \o SubSeq(buf, 1, n)
          /\ again' = (again \/ (sent > 0 /\ n > 0))
          /\ sent' = Max({sent, n})
    /\ UNCHANGED <<buf, cap>>

(* ... and when it does not. *)
Flushed == /\ wire' = wire \o buf
           /\ again' = (again \/ sent > 0)
           /\ sent' = 0

(* What every call does: flush if there is no room, then append. *)
Emit(full, bytes) ==
    /\ IF full THEN Flushed /\ append(<< >>, bytes)
               ELSE append(buf, bytes) /\ UNCHANGED <<wire, sent, again>>
    /\ UNCHANGED faults

(* The peer has read what has arrived before the Conn goes on: nothing in  *)
(* the Conn depends on how far it is.                                      *)
CaughtUp == wire = << >>

Call == CaughtUp /\ p = << >> /\ calls < MaxCalls /\ calls' = calls + 1
Keep == UNCHANGED <<by, zip, refVars>>
----------------------------------------------------------------------------
(* Write: data without IAC that fits is appended at once. *)
BeginWrite(data) ==
    /\ LET needsEscape == CmdIAC \in ToSet(data)
       IN IF ~needsEscape /\ Len(buf) + Len(data) <= cap
          THEN /\ append(buf, data)
               /\ out' = [out EXCEPT !.text = @ \o data]
               /\ UNCHANGED p
          ELSE /\ p' = data
               /\ UNCHANGED <<buf, cap, out>>
    /\ UNCHANGED <<zip, next, wire, sent, again, faults, refVars>>

(* Any goroutine, with a zlib stream or without: Conn.Write knows of none. *)
Write(data) == Call /\ BeginWrite(data) /\ by' = "app"

(* The loop.  A failed flush returns the number of bytes taken so far; the *)
(* error sticks to a zlib writer that made the call and ends its caller's. *)
WriteNext ==
    /\ CaughtUp /\ p # << >>
    /\ LET full == Len(buf) >= cap
       IN \/ /\ Emit(full, Escaped(Head(p)))
             /\ p' = Tail(p)
             /\ out' = [out EXCEPT !.text = Append(@, Head(p))]
             /\ UNCHANGED <<next, zip>>
          \/ /\ full /\ FlushFails
             /\ p' = << >>
             /\ next' = IF by = "zlib" THEN "none" ELSE next
             /\ zip' = IF by = "zlib" THEN "failed" ELSE zip
             /\ UNCHANGED out
    /\ UNCHANGED <<by, calls, refVars>>

(* SendCommand and what its caller does next if it succeeds. *)
PutCommand(c, then) ==
    LET full == Len(buf) + 3 > cap
    IN \/ /\ Emit(full, BuildCommand(3, c[1], c[2]).bytes)
          /\ out' = [out EXCEPT !.cmds = Append(@, c)]
          /\ next' = then
       \/ full /\ FlushFails /\ UNCHANGED <<out, next>>

(* Any goroutine: the reader answers with it. *)
SendCommand(c) == Call /\ PutCommand(c, next) /\ UNCHANGED p /\ Keep

Required(s) == 5 + Len(s[2]) + Quantify(DOMAIN s[2], LAMBDA k : s[2][k] = CmdIAC)

PutSubnegotiation(s, then) ==
    LET full == Len(buf) + Required(s) > cap
    IN \/ /\ Emit(full, BuildSubnegotiation(Required(s), s[1], s[2]).bytes)
          /\ out' = [out EXCEPT !.subs = Append(@, s)]
          /\ next' = then
       \/ full /\ FlushFails /\ UNCHANGED <<out, next>>

SendSubnegotiation(s) == Call /\ PutSubnegotiation(s, next) /\ UNCHANGED p /\ Keep

flushLocked == \/ Flushed /\ buf' = << >> /\ UNCHANGED <<cap, faults>>
               \/ FlushFails

Flush ==
    /\ Call /\ buf # << >>
    /\ flushLocked
    /\ UNCHANGED <<p, next, out>> /\ Keep
----------------------------------------------------------------------------
(* EnableMCCP2 sends WILL, StartCompression the marker; both then flush.   *)
(* The second may find a zlib writer there and replaces it.                *)
EnableMCCP2 ==
    /\ Call /\ next = "none" /\ zip = "none"
    /\ PutCommand(<<CmdWill, OptMCCP2>>, "enable")
    /\ UNCHANGED p /\ Keep

StartCompression ==
    /\ Call /\ next = "none" /\ zip # "none"
    /\ PutSubnegotiation(<<OptMCCP2, << >>>>, "start")
    /\ UNCHANGED p /\ Keep

(* MCCPWriter.Write, Flush and Close once the zlib writer is there; before, *)
(* they are Write, Flush and nothing, and after an error they return it.   *)
CompressedCall(call) ==
    /\ Call /\ next = "none" /\ zip = "zlib"
    /\ next' = call
    /\ UNCHANGED <<buf, cap, p, wire, sent, again, out, faults>> /\ Keep

(* In each of them the zlib writer puts out what it likes, call by call of *)
(* Write; other goroutines come between.                                   *)
ZipWrites(data) ==
    /\ Call /\ next \in {"write", "flush", "close"}
    /\ BeginWrite(data) /\ by' = "zlib"

(* MCCPWriter.Write returns; Close forgets the writer and flushes nothing. *)
CompressedReturn ==
    /\ CaughtUp /\ p = << >> /\ next \in {"write", "close"}
    /\ zip' = IF next = "close" THEN "plain" ELSE zip
    /\ next' = "none"
    /\ UNCHANGED <<buf, cap, p, by, wire, sent, again, out, calls, faults, refVars>>

(* The Conn's Flush at the end of EnableMCCP2, StartCompression and Flush. *)
FlushNext ==
    /\ CaughtUp /\ p = << >> /\ next \in {"enable", "start", "flush"}
    /\ \/ /\ Flushed /\ buf' = << >> /\ UNCHANGED <<cap, faults>>
          /\ zip' = CASE next = "enable" -> "plain" [] next = "start" -> "zlib" [] OTHER -> zip
       \/ FlushFails /\ UNCHANGED zip
    /\ next' = "none"
    /\ UNCHANGED <<p, by, out, calls, refVars>>

MCCP == \/ EnableMCCP2 \/ StartCompression \/ FlushNext \/ CompressedReturn
        \/ \E call \in {"write", "flush", "close"} : CompressedCall(call)
        \/ \E data \in Zipped : ZipWrites(data)
----------------------------------------------------------------------------
PeerReads ==
    /\ wire # << >>
    /\ Take(Head(wire))
    /\ wire' = Tail(wire)
    /\ UNCHANGED <<buf, cap, p, by, zip, next, sent, again, out, calls, faults>>

Next == \/ \E data \in Texts : Write(data)
        \/ WriteNext
        \/ \E c \in Commands : SendCommand(c)
        \/ \E s \in Subnegs : SendSubnegotiation(s)
        \/ Flush
        \/ MCCP
        \/ PeerReads

Spec == Init /\ [][Next]_vars
----------------------------------------------------------------------------
(* What the peer decodes is what was handed over, each of text, commands   *)
(* and subnegotiations complete, in order and unmixed, however the buffer  *)
(* fills in the middle of an escape and whoever else sends; the text is    *)
(* the bytes of all calls of Write, the zlib writer's among them.  A write *)
(* that fails in the middle of the buffer only cuts it short, as long as   *)
(* the same bytes are not flushed again.                                   *)
Delivered ==
    ~again => /\ IsPrefix(text, out.text)
              /\ IsPrefix(cmds, out.cmds)
              /\ IsPrefix(subs, out.subs)

(* Once the buffer is flushed and the wire is empty nothing is missing and *)
(* the peer is between two sequences.                                      *)
Complete ==
    /\ wire = << >> /\ buf = << >> /\ faults = 0
    => mode = "text" /\ text = out.text /\ cmds = out.cmds /\ subs = out.subs

(* The write buffer keeps the array it got from the pool, but for two      *)
(* cases: an IAC written into its last byte, and a subnegotiation longer   *)
(* than all of it.  Text and commands never make it grow.                  *)
GrowsOnlyForEscapes ==
    [][cap' # cap => \/ p # << >> /\ Head(p) = CmdIAC /\ Len(buf) = cap - 1
                     \/ \E s \in Subnegs : Len(out'.subs) > Len(out.subs) /\ Required(s) > cap]_vars
============================================================================

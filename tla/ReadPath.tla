------------------------------ MODULE ReadPath -----------------------------
(***************************************************************************)
(* What becomes of the bytes a Conn receives: readLocked and               *)
(* processReadLocked between the socket and the ring, Read and ReadLine on *)
(* the other side of it, handleSubnegotiation, and TerminalSize called     *)
(* from another goroutine.  The ring is the bounded queue that Ring is     *)
(* proved to implement.  The parser is reduced to what it yields: a chunk  *)
(* is a sequence of items, each a byte of text, be it escaped or not, a    *)
(* command or a subnegotiation; commands are the subject of                *)
(* ConnNegotiation.  Lengths count items, of which some take several bytes *)
(* of readScratch: reads of more text than the code could make occur too.  *)
(***************************************************************************)
EXTENDS Integers, SequencesExt, FiniteSetsExt

CONSTANTS RingCap,      \* c.readBuf.Cap(), one less than its array
          ScratchLen,   \* len(c.readScratch)
          LineBuf,      \* len(buf) in ReadLine: 1024 in the code
          Chunks,       \* what one netConn.Read may return
          MaxPieces,    \* data events of one Parse: 64 in the code
          MaxReads      \* bound on the reads of the socket

Letters == {"x", "y"}
Text    == Letters \cup {"CR", "LF", "IAC"}    \* "IAC": sent as IAC IAC
Subneg  == {"naws", "ttype", "short", "wide"}

ASSUME ReadAssumption ==
    /\ RingCap \in Nat \ {0} /\ LineBuf \in Nat \ {0}
    /\ MaxPieces \in Nat /\ MaxReads \in Nat
    /\ ScratchLen \in 0..(RingCap + 1)
    /\ \A c \in Chunks : c \in Seq(Text \cup Subneg \cup {"cmd"}) /\ Len(c) <= ScratchLen

VARIABLES how,          \* the application uses "Read" or "ReadLine"
          pc,           \* "idle", "line" inside ReadLine, "eof" after it has failed
          ring,         \* the readable bytes of c.readBuf
          line,         \* the local of ReadLine
          readLineCR,
          subs,         \* subnegotiation events processReadLocked has still to handle
          half,         \* the width of the first of them is stored, the height is not
          termType, termWidth, termHeight,
          probe,        \* TerminalSize: the width it has loaded, << >> between calls
          size,         \* and the last pair it returned
          stream,       \* history: all text received,
          got,          \*   what Read, or each ReadLine, has returned,
          lost,         \*   bytes not stored, among them those
          dropped,      \*     for which the parser had no event left,
          full,         \*   reads that filled readScratch with text,
          upset,        \*   bytes put back behind others, or a CR forgotten
          blurred,      \*   a payload with a 255, or two payloads in one chunk
          reads,        \*   reads of the socket,
          sizes, types  \*   and the NAWS and terminal types received

lineVars == <<pc, line, readLineCR>>
termVars == <<subs, half, termType, termWidth, termHeight>>
sizeVars == <<probe, size>>
histVars == <<stream, lost, dropped, full, upset, blurred, reads, sizes, types>>
vars == <<how, ring, lineVars, termVars, sizeVars, histVars, got>>

Init == /\ how \in {"Read", "ReadLine"} /\ pc = "idle"
        /\ ring = << >> /\ line = << >> /\ readLineCR = FALSE
        /\ subs = << >> /\ half = FALSE
        /\ termType = << >> /\ termWidth = 0 /\ termHeight = 0
        /\ probe = << >> /\ size = <<0, 0>>
        /\ stream = << >> /\ got = << >> /\ lost = 0 /\ dropped = 0 /\ full = 0
        /\ upset = FALSE /\ blurred = FALSE /\ reads = 0 /\ sizes = 0 /\ types = 0
----------------------------------------------------------------------------
(* Mutant: a piece of text is stored as a whole or not at all. *)
RingWriteWhole(r, s) == IF Len(s) <= RingCap - Len(r) THEN r \o s ELSE r

(* Ring.Write, whose count and error both callers ignore. *)
RingWrite(r, s) == r \o SubSeq(s, 1, Min({Len(s), RingCap - Len(r)}))

(* The elements of s that are in T, in order. *)
Only(s, T) == FlattenSeq([k \in 1..Len(s) |-> IF s[k] \in T THEN <<s[k]>> ELSE << >>])

(* A data event is a slice of the chunk.  A new one begins where text does *)
(* not follow text, and at the second byte of an escaped IAC.  Text past   *)
(* the last event the table has room for is gone.                          *)
Begins(chunk, k) == /\ chunk[k] \in Text
                    /\ k = 1 \/ chunk[k - 1] \notin Text \/ chunk[k] = "IAC"
Pieces(chunk, n) == Cardinality({k \in 1..n : Begins(chunk, k)})
Tabled(chunk) == [k \in 1..Len(chunk) |-> IF chunk[k] \in Text /\ Pieces(chunk, k) > MaxPieces
                                          THEN "none" ELSE chunk[k]]

(* The payload of a subnegotiation in the parser's accumulator: the k-th   *)
(* size is k wide and k high, the k-th terminal type is the code 0 and the *)
(* name k, and some payload is too short.  A size 255 wide is stored with  *)
(* the 255 doubled, as it was sent.                                        *)
Payload(item, k) == CASE item = "naws"  -> <<0, k, 0, k>>
                      [] item = "wide"  -> <<0, 255, 255, 0, k>>
                      [] item = "ttype" -> <<0, k>>
                      [] item = "short" -> <<0>>

SubnegsOf(chunk) == Only(chunk, Subneg)
Sizes(items) == Len(Only(items, {"naws", "wide"}))
Types(items) == Len(Only(items, {"ttype"}))
Number(items) == IF Last(items) = "ttype" THEN types + Types(items) ELSE sizes + Sizes(items)

(* The events of the subnegotiations of a chunk.  All of them are slices   *)
(* of the parser's accumulator, looked at after the last one has been      *)
(* written: a byte is that of the last payload long enough to have it.     *)
Events(items) ==
    LET bytes == [e \in 1..Len(items) |-> Payload(items[e], Number(SubSeq(items, 1, e)))]
        Seen(e) == [j \in 1..Len(bytes[e]) |->
                       bytes[Max({f \in 1..Len(items) : j <= Len(bytes[f])})][j]]
    IN [e \in 1..Len(items) |-> [option |-> IF items[e] = "ttype" THEN "ttype" ELSE "naws",
                                 data   |-> Seen(e)]]

(* One read of the socket by readLocked, which makes it only when the ring *)
(* is empty, and processReadLocked up to the subnegotiations.  ReadLine    *)
(* takes a read without text for the end of a pending CR.                  *)
Receive(chunk) ==
    /\ how = "ReadLine" => pc = "line"
    /\ ring = << >> /\ subs = << >> /\ reads < MaxReads
    /\ LET text == Only(chunk, Text)
           kept == Only(Tabled(chunk), Text)
       IN /\ ring' = RingWrite(ring, kept)
          /\ readLineCR' = (readLineCR /\ ring' # << >>)
          /\ stream' = stream \o text
          /\ lost' = lost + Len(text) - Len(ring')
          /\ dropped' = dropped + Len(text) - Len(kept)
          /\ full' = IF Len(kept) = ScratchLen THEN full + 1 ELSE full
          /\ upset' = (upset \/ (readLineCR /\ ring' = << >>))
    /\ LET items == SubnegsOf(chunk)
       IN /\ subs' = Events(items)
          /\ blurred' = (blurred \/ Len(items) > 1 \/ items = <<"wide">>)
          /\ sizes' = sizes + Sizes(items)
          /\ types' = types + Types(items)
    /\ reads' = reads + 1
    /\ UNCHANGED <<how, pc, line, half, termType, termWidth, termHeight, sizeVars, got>>

(* handleSubnegotiation of the next event: width and height are stored one *)
(* after the other.                                                        *)
Data == Head(subs).data

Handled == subs' = Tail(subs) /\ half' = FALSE

(* Mutant: the code byte is kept as part of the name. *)
HandleTTypeRaw ==
    /\ subs # << >> /\ Head(subs).option = "ttype"
    /\ termType' = Data
    /\ Handled
    /\ UNCHANGED <<how, ring, lineVars, termWidth, termHeight, sizeVars, histVars, got>>

HandleTType ==
    /\ subs # << >> /\ Head(subs).option = "ttype"
    /\ termType' = IF Len(Data) > 1 /\ Data[1] = 0 THEN Tail(Data) ELSE termType
    /\ Handled
    /\ UNCHANGED <<how, ring, lineVars, termWidth, termHeight, sizeVars, histVars, got>>

HandleShort ==
    /\ subs # << >> /\ Head(subs).option = "naws" /\ Len(Data) < 4
    /\ Handled
    /\ UNCHANGED <<how, ring, lineVars, termType, termWidth, termHeight, sizeVars, histVars, got>>

StoreWidth ==
    /\ subs # << >> /\ Head(subs).option = "naws" /\ Len(Data) >= 4 /\ ~half
    /\ termWidth' = 256 * Data[1] + Data[2]
    /\ half' = TRUE
    /\ UNCHANGED <<how, ring, lineVars, subs, termType, termHeight, sizeVars, histVars, got>>

StoreHeight ==
    /\ half
    /\ termHeight' = 256 * Data[3] + Data[4]
    /\ Handled
    /\ UNCHANGED <<how, ring, lineVars, termType, termWidth, sizeVars, histVars, got>>

handleSubnegotiation == HandleTType \/ HandleShort \/ StoreWidth \/ StoreHeight
----------------------------------------------------------------------------
(* Read returns up to n bytes of the ring. *)
Read(n) ==
    /\ how = "Read" /\ subs = << >> /\ ring # << >>
    /\ LET k == Min({n, Len(ring)})
       IN /\ got' = got \o SubSeq(ring, 1, k)
          /\ ring' = SubSeq(ring, k + 1, Len(ring))
    /\ UNCHANGED <<how, lineVars, termVars, sizeVars, histVars>>

ReadLine ==
    /\ how = "ReadLine" /\ pc = "idle"
    /\ pc' = "line" /\ line' = << >>
    /\ UNCHANGED <<how, ring, readLineCR, termVars, sizeVars, histVars, got>>

(* The place of the first LF in b, 0 if there is none. *)
FirstLF(b) == SelectInSeq(b, LAMBDA c : c = "LF")

(* Mutant: a CR at the end of the last read is not looked for. *)
EndOfLineHere(b, i) ==
    line \o SubSeq(b, 1, IF i > 1 /\ b[i - 1] = "CR" THEN i - 2 ELSE i - 1)

(* The line up to the LF at b[i], without a CR in front of it, be it in b  *)
(* or at the end of what was read before.                                  *)
EndOfLine(b, i) ==
    IF i = 1 /\ readLineCR
    THEN SubSeq(line, 1, Max({Len(line) - 1, 0}))
    ELSE line \o SubSeq(b, 1, IF i > 1 /\ b[i - 1] = "CR" THEN i - 2 ELSE i - 1)

(* One turn of ReadLine's loop with bytes in the ring. *)
LineStep ==
    /\ pc = "line" /\ subs = << >> /\ ring # << >>
    /\ LET n    == Min({LineBuf, Len(ring)})
           b    == SubSeq(ring, 1, n)
           rest == SubSeq(ring, n + 1, Len(ring))
           i    == FirstLF(b)
       IN IF i = 0
          THEN /\ line' = line \o b
               /\ readLineCR' = (b[n] = "CR")
               /\ ring' = rest
               /\ UNCHANGED <<pc, got, upset>>
          ELSE /\ got' = Append(got, EndOfLine(b, i))
               /\ ring' = RingWrite(rest, SubSeq(b, i + 1, n))
               /\ readLineCR' = FALSE
               /\ pc' = "idle" /\ line' = << >>
               /\ upset' = (upset \/ (i < n /\ rest # << >>))
    /\ UNCHANGED <<how, termVars, sizeVars, stream, lost, dropped, full, blurred, reads,
                   sizes, types>>

(* The socket fails: ReadLine returns what it has. *)
LineError ==
    /\ pc = "line" /\ subs = << >> /\ ring = << >>
    /\ got' = Append(got, line)
    /\ readLineCR' = FALSE
    /\ pc' = "eof" /\ line' = << >>
    /\ UNCHANGED <<how, ring, termVars, sizeVars, histVars>>
----------------------------------------------------------------------------
LoadWidth ==
    /\ probe = << >>
    /\ probe' = <<termWidth>>
    /\ UNCHANGED <<how, ring, lineVars, termVars, size, histVars, got>>

LoadHeight ==
    /\ probe # << >>
    /\ size' = <<probe[1], termHeight>>
    /\ probe' = << >>
    /\ UNCHANGED <<how, ring, lineVars, termVars, histVars, got>>

(* Mutant: the height is loaded before the width. *)
TerminalSizeSwapped ==
    /\ \/ probe = << >> /\ probe' = <<termHeight>> /\ UNCHANGED size
       \/ probe # << >> /\ probe' = << >> /\ size' = <<termWidth, probe[1]>>
    /\ UNCHANGED <<how, ring, lineVars, termVars, histVars, got>>

TerminalSize == LoadWidth \/ LoadHeight
----------------------------------------------------------------------------
Next == \/ \E chunk \in Chunks : Receive(chunk)
        \/ handleSubnegotiation
        \/ \E n \in 1..RingCap : Read(n)
        \/ ReadLine \/ LineStep \/ LineError
        \/ TerminalSize

Spec == Init /\ [][Next]_vars
----------------------------------------------------------------------------
(* The lines of a text: ended by LF, without the CR in front of it. *)
NoCR(l) == IF l # << >> /\ Last(l) = "CR" THEN Front(l) ELSE l
AfterByte(a, c) == IF c = "LF" THEN [done |-> Append(a.done, NoCR(a.open)), open |-> << >>]
                   ELSE [done |-> a.done, open |-> Append(a.open, c)]
Lines(text) ==
    LET scan[n \in 0..Len(text)] == IF n = 0 THEN [done |-> << >>, open |-> << >>]
                                    ELSE AfterByte(scan[n - 1], text[n])
    IN scan[Len(text)]

(* Text arrives complete and in order: what Read has returned and what the *)
(* ring holds is what was received; ReadLine returns the lines of it, and  *)
(* at the end the open one, wherever the reads and ReadLine's own buffer   *)
(* cut it.  Two things upset a line, apart from bytes lost to a full ring  *)
(* or a full table: more than LineBuf bytes waiting when a line ends       *)
(* before the last of them, and a read without text between CR and LF.     *)
TextIntact ==
    ~upset /\ lost = 0 =>
        IF how = "Read" THEN got \o ring = stream
        ELSE /\ pc = "eof" => got = Append(Lines(stream).done, Lines(stream).open)
             /\ pc # "eof" => IsPrefix(got, Lines(stream).done)

(* Apart from text past the MaxPieces-th piece of a read, which the parser *)
(* drops, no more than one byte of a read is lost, and only if the read    *)
(* fills readScratch with text, which may be a byte longer than the ring.  *)
LossBounded == lost <= full + dropped

(* TerminalSize may pair a width with a height of another NAWS, but never  *)
(* with one older than the NAWS before it, if no payload was blurred.      *)
SizeSkew == ~blurred => size[2] >= size[1] - 1

(* When Read or ReadLine is done with a chunk, terminal size and terminal  *)
(* type are the last ones received, if no chunk held two subnegotiations   *)
(* and no size a byte 255.                                                 *)
TerminalCurrent ==
    ~blurred /\ subs = << >> => /\ termWidth = sizes /\ termHeight = sizes
                               /\ termType = IF types = 0 THEN << >> ELSE <<types>>
----------------------------------------------------------------------------
(* conn.go: "ReadLine reads a line up to \r\n or \n": the lines returned   *)
(* are the lines received.                                                 *)
LinesExact == how = "ReadLine" /\ pc # "eof" => IsPrefix(got, Lines(stream).done)
============================================================================

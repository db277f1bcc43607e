# A verification of telnetty

telnetty is a TELNET library in Go: a connection type that decodes and encodes
the protocol over a `net.Conn`, and a server around it. This directory holds
TLA+ models of its core, the TLC configurations that check them on small
instances, and TLAPS proofs of what holds for every instance. Every definition
is a translation of the Go source; `PROJECT.json` gives the lines.

## The system

| part | source | state | operations |
|---|---|---|---|
| Ring | buffer.go | byte array, `rhead`, `wtail` (uint32, atomic) | Write, WriteByte, Read, ReadByte, Peek, Discard, Bytes, Reset, Free |
| StaticBuffer, pool | buffer.go | slice with a limit; `sync.Pool`s | WriteByte, Reset, Advance, Free; getBuf, putBuf |
| Parser | parser.go | state, pending verb, option and accumulator of a subnegotiation | Parse(chunk), Reset |
| Encoders | parser.go | none | EscapeIAC, BuildCommand, BuildSubnegotiation |
| Negotiator | options.go | per option `us` and `him` (atomic) | Handle of WILL, WONT, DO, DONT; four requests; Reset |
| Conn | conn.go | one of each of the above, `readMu`, `writeMu`, event channel, closed flag, counters, terminal size and type | NewConn, Read, ReadLine, Write, SendCommand, SendSubnegotiation, Flush, Close, accessors |
| Server | server.go | listener, `closing`/`closeDone` channels, `acceptLimit`, map of connections, counters | Serve, ListenAndServe, handleConn, Close, Shutdown |
| MUD protocols | mud.go | the zlib writer of an MCCPWriter | MSDP, MSSP, GMCP, MCP encoders and decoders; EnableMCCP2, StartCompression, Write, Flush, Close |
| Colors, utilities | color.go, utils.go | arrays shared by the Attrs of colours | variants of colours, ANSI sequences; width, padding, wrapping, line splitting |

How they interact. `Server` starts one goroutine per accepted socket; it makes a
`Conn`, registers it, and runs the user's handler. `Conn.Read` takes `readMu`,
reads the socket into a scratch buffer and gives the chunk to the `Parser`; the
text goes to the `Ring`, each command through a policy (is the option enabled,
is it known) to the `Negotiator`, whose answer goes through `SendCommand`, under
`writeMu`, into the write buffer, which leaves when it is full or flushed; each
command and subnegotiation is queued for the event dispatcher, a goroutine that
calls the user's callbacks. `Close` sets a flag, flushes, stops and awaits the
dispatcher, takes the two locks in turn to free the buffers, and closes the
socket. `Server.Close` closes the listener and every registered `Conn`.

What is hard, and what has to hold:

* Ring: one producer and one consumer without a lock, indices that wrap at 2^32
  over a buffer that wraps at its size. It has to be a FIFO queue with no two
  sides ever in one slot.
* Parser: input cut anywhere; text returned as slices of the chunk, coalesced by
  comparing pointers; bounded tables. It has to stay in step with the stream
  whatever the cuts and whatever is dropped.
* Negotiator: requests crossing on the wire. The two ends have to agree once
  nothing is in flight, and the exchange has to end.
* Conn: three or four goroutines, two locks, an event queue that must not block
  the reader, and a Close that frees memory the others use.
* Write path: escapes that double bytes at the end of the buffer, subnegotiations
  larger than it, writes that fail half way, a zlib writer among other writers. The
  peer has to decode exactly what was handed over.
* Read path: reads larger than the ring or in too many pieces, line ends cut by reads and by ReadLine's
  own buffer, bytes put back, payloads that share one array, a size read while it
  is stored.
* Pure functions: encoders that visit a map in any order and decoders that have
  to find its structure again; layout with runes of 0, 1 and 2 columns; values
  that share memory behind a copied struct.
* Server: an accept loop, handlers and a closer that race for the same
  connections; a limit on connections; a timeout.

The list of hazards, each at its line, is in `PROJECT.json`.

## Modules

| module | what it is |
|---|---|
| `ByteQueue` | abstract specification: a bounded FIFO queue of bytes |
| `Ring` | the ring; `Fifo` is `ByteQueue!Spec` under the mapping of the readable slots to the queue |
| `RingProofs` | theorems about `Ring`, the refinement of `ByteQueue` among them |
| `TelnetStream` | reference decoder of a TELNET stream, byte by byte, without chunks or limits |
| `Parser` | `Parse` as a machine that takes one byte per step, beside the reference decoder |
| `ParserProofs` | theorems about `Parser` |
| `FlattenTheorems` | what `FlattenSeq` computes, and induction over naturals, for `ParserProofs`, `ReadPathProofs` and `WritePathProofs` |
| `Negotiator` | the transition tables of options.go as operators |
| `OptionFields` | the fields `us` and `him`, declared once for the next two modules |
| `NegotiatorPair` | two Negotiators and the wire between them |
| `ConnNegotiation` | two Conns: initial offers, policy, write buffer, wire (uses `Negotiator`) |
| `NegotiatorProofs` | theorems about `NegotiatorPair` (its `PairSpec`) and `ConnNegotiation` |
| `WritePath` | one Conn's writers byte by byte, the MCCPWriter, a failing socket, and `TelnetStream` as the peer |
| `WritePathProofs` | theorems about `WritePath` |
| `ReadPath` | one Conn from the socket through the ring (as the queue of `ByteQueue`) to Read, ReadLine, TerminalType and TerminalSize |
| `ReadPathProofs` | theorems about `ReadPath` |
| `MudCodecs`, `TextHelpers` | encoders and decoders of mud.go and text functions of utils.go, as operators |
| `Colors` | the colours of color.go and the arrays behind their slices |
| `Codecs` | a program that calls these functions (extends the three) |
| `ConnLife` | one Conn: reader, writer, dispatcher, closer, locks, freed buffers |
| `ConnLifeProofs` | theorems about `ConnLife` |
| `Server` | accept loop, handlers, Close or Shutdown |
| `ServerProofs` | theorems about `Server` |
| `MC...` | instances for TLC |

A definition whose comment begins with "Mutant:" is a plausible bug in the
definition below it. It is not used by the specification; putting it in the
place of that definition makes a property fail, which `PROJECT.json` records.

### Ring

`buf`, `rhead` and `wtail` are the fields; `wpc`, `wp`, `wi`, `werr` the locals of
the producer's call, `rpc`, `rn`, `rp` those of the consumer's, `ack` and `got`
what the last calls returned. A call is cut where the other side can see a
difference: loading the indices and deciding (`Write`, `Read`, ...), copying one
byte (`CopyIn`, `CopyOut`), storing the index (`PublishTail`, `ReleaseHead`). A
side's load of its own index commutes with everything and is not a step. Go's
atomics are sequentially consistent, so interleaving is the right semantics for
them; the plain accesses to `buf` have it too because `RaceFree` holds. `Peek`
leaves the consumer in state "peek" until its next call, since the slice it
returned aliases `buf`. `Reset` stores both indices and belongs to neither side:
it is allowed only between calls. Indices are modulo `IndexMod` (2^32 in the
code), which must be a multiple of `Size`.

### Parser

One action per branch of the loop in `Parse`, `Feed` for its entry, `EndParse`
for the flush after the loop. A data event is a pair of offsets into the chunk,
so that coalescing by pointer comparison is comparison of offsets (two pieces of
one chunk are contiguous exactly if one ends where the other begins). A
subnegotiation event is a length of the accumulator, whose array is shared with
all later subnegotiations, as in the code. Every byte is given to
`TelnetStream!Take` in the same step. `Parser.Reset` empties the accumulator but
not the event table of the caller: a subnegotiation it cuts off may already have
overwritten the payload of an earlier event, so `TelnetStream!Restart` then forgets
the earlier ones and `SubnegotiationDecoded` claims nothing of them. (The first
version of the model did claim it; the proof of `SubnegotiationExact` failed there,
and the chunk that shows it is now one of the run's.)

### Negotiation

In `NegotiatorPair` the state splits into independent halves, an option in one
direction: `us` of the end that performs it, `him` at the other. Only commands
about the same half are kept in order; that allows more than TCP does. A call of
the Negotiator is one step: inside the library every call is made under `readMu`.
A Negotiator that an application shares between goroutines of its own is another
matter, since a call is a load followed by a store; that is listed as a hazard.

In `ConnNegotiation` the wire between two `Conn`s is one queue per direction,
and a read takes any number of commands of it, of which at most `MaxCmdEvents`
survive the parser. `NewConn` sends its offers without telling the Negotiator,
and `processReadLocked` refuses past it, as in the code. NAWS, which follows its
offer as a subnegotiation, does not touch this state. The applications send
commands of their own, withdrawals among them; `Withdrawn` says that one has.

### WritePath

`buf` and `cap` are the slice of `writeBuf`. `writeMu` makes a call one step, but
Write appends byte by byte (`WriteNext`), so that a flush in the middle of its
argument, and a failure of that flush, have their place. Every call flushes
first if there is no room (`Emit`); `FlushFails` is a `netConn.Write` that takes
some bytes and returns an error, after which all of `buf` stays. `append` grows the
slice as the runtime does, to a larger array. An MCCPWriter is `zip`, and `next` the
call of it in progress: each of its calls is several calls of the Conn, and other
goroutines may send in between. Conn.Write knows nothing of it, so any goroutine may
write past a stream that is open (`Write` has no guard on `zip`). zlib is external:
inside a call of the MCCPWriter it hands any bytes of `Zipped` to Write, in as many
calls as it likes (`ZipWrites`), and keeps an error it gets. What arrives is decoded by
`TelnetStream`, and that is all the peer does: text is the bytes handed to Write, by
the application or by zlib. Whether an inflater could make sense of them is not
modelled (see Known deviations).

### ReadPath

A chunk is a sequence of items: a byte of text, a command, or a subnegotiation.
`Receive` is one read of the socket with the parser's text written to the ring, as
far as it has data events for it: `Begins` marks the items where a new piece of text
starts, as it does at every escaped IAC, and `Tabled` leaves out what lies past the
`MaxPieces`-th (64 in the code). After that
the subnegotiations follow one at a time, width and height in two steps, before
Read or ReadLine gets any text, because `processReadLocked` runs to its end first.
`Only` takes the items of one kind out of a chunk; `Payload` numbers sizes and terminal
types, so that each differs from the one before, and stores the 255 of a "wide" size
twice, as the parser does; `Events` gives each event the bytes the shared accumulator
holds after the whole chunk. The histories `lost`, `dropped` (part of `lost`), `full`,
`upset` and `blurred` record what the premises of the properties are about. `LineStep` is one turn of
ReadLine's loop; `Lines` is what the lines of a text are, one byte at a time and
without buffers. `how` is Read or ReadLine, not
both, as the comment on ReadLine demands.

### MudCodecs, TextHelpers, Colors, Codecs

Names and texts are sequences of symbols for classes of bytes or runes. Encoding
a map gives the set of encodings of its orders. A decoder returns the number of
bytes it took, -1 for an error, and -2 (`Hangs`) for the loop over array elements
that takes nothing and never ends. An MCP line is the sequence of its fields.
`Colors` keeps the arrays: a variant is appended in place if the array has room,
else to a copy of twice the size. `Codecs` makes one call with any input of the
given sets, or builds a palette.

### ConnLife and Server

Both follow the goroutines from one point of interference to the next: taking a
lock, loading or storing an atomic, a channel operation, a system call. In
`ConnLife` what is read is abstract (text, command, subnegotiation, both), what
is written has identity. `netConn.Write` takes all or nothing, and has no deadline:
like `netConn.Read` it may wait for the peer for ever, holding its lock
(`ReaderWaits`, `WriterWaits`, `CloserWaits`). In `Server` a
`Conn` is reduced to its closed flag, whether its handler waits for the peer inside
Read or Write (`blocked`) and so holds `readMu` or `writeMu`, and its socket; `c.Close`
is the flag, a Flush that may wait for the peer (`CloseFlush`, `HandlerSocket`), and
the locks and the socket (`CloseSocket`). The handler is the user's and may read, write,
or return, at any time.

## Runs

| run | result | what it shows |
|---|---|---|
| `ring` | holds | no data race on `buf`, peeked slices are stable, FIFO refinement |
| `parser` | holds | in step with the reference decoder; text, commands and subnegotiations decoded as far as the tables go, payloads if they hold no 255 |
| `negotiators` | holds | agreement at rest, conflict branches never taken, every request settles, no loop |
| `conn_negotiation` | holds | two Conns agree at rest, every enabled option gets on if nothing is withdrawn, nothing else does; the exchange ends if the applications flush and withdraw nothing |
| `server` | holds | connection limit, token and counter accounting, Serve stops after Close whatever the peers do; Close and Shutdown return unless the peer of one connection holds them up for ever |
| `conn_life` | holds | writes before Close reach the socket once and in order, pushEvent never blocks, callbacks are over before buffers are freed; Close returns unless it waits for the peer for ever |
| `write_path` | holds | at the TELNET layer text, commands and subnegotiations reach the peer complete, in order and unmixed, through a full buffer, writes that fail once and a zlib writer beside the others |
| `read_path` | holds | Read and ReadLine return the text received, in order; how much a read may lose; how far the two words of a size may be apart; size and terminal type are the last received |
| `codecs` | holds | which MSDP, MCP and GMCP messages survive a round trip; layout keeps to its width; lines do not depend on the cuts of the input, but for one between CR and LF; colours keep their attributes |
| `read_line` | violated | ReadLine puts bytes back behind later ones when more than its buffer was waiting |
| `server_missed` | violated | a connection that registers after Close's snapshot survives Close |
| `conn_freed` | violated | a Read that passed the closed check uses freed buffers |

Each violated run states what a comment, a test or the README of the repository
says; the quotation and the line are under `findings`.

### Known deviations

What the code does besides the three findings that a reader of its comments and tests
would not expect. The models have all of it: each is an outcome of an action or an
operator. The properties that hold exclude it by a premise, named here, and so say
nothing about it. Each is a hazard in `PROJECT.json`.

* parser_test.go:146, "The data should contain a single 255, not IAC IAC": an escaped
  IAC in a subnegotiation is stored as two bytes (the test's assertion accepts both). A
  size with a 255 in it comes out wrong. Premise of `SubnegotiationDecoded`, that the
  payload holds no 255; `~blurred` in `SizeSkew` and `TerminalCurrent`.
* A subnegotiation event is overwritten by the next subnegotiation of its chunk;
  a NAWS and a terminal type in one chunk are both read from the last payload
  (`~blurred` again; `SubnegotiationDecoded` is about the newest event).
* A full read of plain text loses its last byte, and a read with more than 64 pieces of
  text, which 65 escaped IACs are, all text behind the 64th. `LossBounded` says
  that nothing else is lost; `TextIntact` has the premise `lost = 0`.
* readline_test.go:11, a CR is stripped "even if it arrives in a different chunk": not if
  a command, in a read of its own, comes between CR and LF (`~upset` in `TextIntact`).
* A flush after a partial write sends bytes twice (premise `~again` of `Delivered`).
* buffer.go:234, a StaticBuffer "never grows beyond its cap", and README.md:99, "No growth,
  no allocation": the write buffer grows when an IAC falls on its last byte, and for a
  subnegotiation larger than it, and is of no size of the pool any more. `GrowthBounded`
  proves that these are the only two cases (`GrowsOnlyForEscapes`).
* mud.go:218, "After this call, all writes go through zlib": true of writes through the
  MCCPWriter only. SendCommand, and so every answer of the reader, and direct writes go
  out uncompressed inside the compressed stream, and IAC bytes of the stream are
  doubled, while MCCP2 has the peer inflate before it undoes TELNET. `Delivered` and
  `Complete` stop at the TELNET layer and do not show that the peer could inflate
  anything. Also, if the flush behind the marker of StartCompression fails, the marker
  is still sent later although plain text follows it.
* mud.go:73, "UnmarshalMSDP parses MSDP wire format into a map": it never returns on an
  array with a string directly before a table, and fails on one with a string directly
  before an array, both of which `MarshalMSDP` writes (premise `Plain` of `MsdpRoundTrip`).
* utils.go:197, SplitLines "splits on \r\n": a CR and an LF in different reads make an extra
  empty line in a Scanner (premise `~split` of `CutsInvisible`).
* An MCP message without auth key, or with parameters and without tag, is not read
  back (`MessagesRoundTrip` has the exact condition).
* Two variants of a colour with three attributes, or of a variant of a 256-colour,
  overwrite each other (`VariantsStable`).
* An offer withdrawn with SendCommand (WONT) before it was answered leaves two
  Conns exchanging the same four commands for ever, since the Negotiator does not
  know of the offer. The run has such a WONT; `Converges` has the premise that it is
  not sent, and fails without it.
* server.go:220, "Shutdown gracefully shuts down the server with a timeout": it closes the
  connections before it looks at its context, and Conn.Close waits for a blocked reader,
  for a blocked writer and for its own Flush. One peer that does not send, or does not
  read, keeps Shutdown past its context. `CloseEnds` says that only a peer can.

### Bounds

* `ring`: 4 slots, 8 index values, slices up to 3 bytes, 2 byte values. Usable
  capacity is 3, so a slice fills it exactly and is cut at 0, 1 and 2 bytes of
  room; indices go round twice per wrap. The proofs remove all four bounds.
* `parser`: an alphabet with one byte of each role (text that is also a code,
  IAC, SB, SE, WILL), all chunks of one or two bytes and five longer ones, which
  overrun each table and leave a second subnegotiation open (2 texts, 2 commands, 1 subnegotiation, 2 payload bytes).
  Chunks follow each other freely, so every cut of longer sequences occurs.
  Cutting at the limits is the same at 2 as at 64; the proofs hold for any limit.
  `Observed` = 3 recorded payload bytes is one more than the accumulator holds.
* `negotiators`: two halves; they are independent, and queues are bounded by the
  protocol itself (the invariant shows at most two commands per direction).
* `conn_negotiation`: a server with one option, a client with two, one option
  unknown to both, four application commands, one of them a WONT for an option
  NewConn offers; write buffer of 3 commands.
  `MaxCmdEvents` is 16, as in the code, and more than can be in flight here. Below
  the number of commands in flight `AgreeAtRest` fails (set it to 2): commands past
  the table are dropped and never repeated. In the code 14 offers and 14 answers
  can meet in one read, so the agreement shown is that of connections with fewer
  options; the hazard is listed at parser.go:178.
* `server`: 3 clients, limit 2, so that a client waits for a token while two
  hold one.
* `write_path`: a buffer of 6 bytes, one more than the smallest subnegotiation;
  texts of one byte and of three with an IAC in the middle, so that an IAC falls on
  every position of the buffer, the last included; a payload of IAC and SE, which is
  larger than the buffer; zlib output with an IAC in it; 6 calls, 1 failing write at any
  length. 6 calls are enough for enable, start, a compressed write in two pieces and
  two calls of other goroutines in between.
* `read_path`: a ring of 4 bytes with a scratch buffer of 5, ReadLine's buffer of
  3, so that it is the shortest of the three as in the code; a table of 2 pieces; 15
  chunks with line ends at every place, none, three escaped IACs, and one or two
  subnegotiations; 4 reads. `read_line`
  has a scratch buffer of 4, so that nothing is lost.
* `codecs`: MSDP values of depth 3 with at most two members each, empty names and
  strings included; MCP messages with every part present or absent and up to two
  parameters; texts up to 4 runes at widths 0 to 6; streams of up to 5 bytes at
  every cut; 6 colours, which reaches the first clash of both kinds of base (the
  fourth attribute of a named colour).
* `conn_life`: 3 writes, 3 chunks, a write buffer of 2 and an event queue of 1,
  so that both overflow.

Connections may come to rest in `ConnNegotiation`, `WritePath`, `ReadPath`, `Server`
and `ConnLife`, and a program may stop calling functions (`Codecs`), so
deadlock is not checked there; that Close does not get stuck is what
`CloseEnds` is for.

### Fairness

* `NegotiatorPair`: commands in flight are delivered. Requests are not fair.
* `ConnNegotiation`: each end comes up and keeps reading and processing what has
  arrived; an application that does not read does not negotiate. Flushing is not
  fair: the library leaves it to the application, so it is a premise of `Converges`
  (`Flushing`), and without it responses stay in the buffer. Application commands are
  not fair.
* `Server`, `ConnLife`: weak fairness of each goroutine that can run, which the Go
  scheduler gives; Go's mutex has a starvation mode, and no run needs more than
  weak fairness of the lock steps. `Serve` is assumed to be called. The user's
  handler is fair only once Read or Write would return `ErrConnClosed`; callbacks return.
* A `netConn.Read` or `netConn.Write` on an open socket is never fair, since no deadline
  is set: the peer need not send, read or hang up. `CloseEnds` assumes nothing of the
  peer; it says that the closer returns or, from some time on, waits for the peer at
  every moment (`PeerHoldsClose`, `HeldUpBy`), in `Server` for that of one connection.
  Closing the socket first, or a deadline, would make it return always.

With `Closer = "callback"`, Close called from an event callback, `ConnLife` shows
Close waiting for the dispatcher that is running it. The repository does not
promise otherwise, so this is recorded as a hazard and is not a run.

## Theorems

All proofs are checked by TLAPS with no assumption beyond the named `ASSUME`s of
the modules.

* `RingProofs` (`TypeCorrect`, `NoRace`, `PeekIsStable`): for every `Byte`, `Size`,
  slice length and `IndexMod` that is a multiple of `Size`. `RaceFree` alone is not
  inductive: `IndInv` adds that the ring never holds more than `Size - 1` bytes,
  that the producer's slice fits into the room it saw (the room only grows while
  it copies), that the copied part of it is in place, and that what the consumer
  claims is readable and its copy is equal to it. The arithmetic core is that slots
  of indices less than `Size` apart are different although indices wrap
  (`ModUnique`, `ModDistinct`, `SlotOfWrapped`).
* `RingProofs` (`RingIsFifo`): `Ring!Spec => ByteQueue!Spec`. Every action but
  `PublishTail`, `ReleaseHead`, `ReturnBytes`, `Peek`, the two reports and `Reset` is
  a stutter. The proof uses `IndInv`.
* `ParserProofs` (`ParserTypeCorrect`, `EventsInOrder`, `ParserInSync`,
  `CommandsExact`, `DataExact`, `SubnegotiationExact`): for every alphabet, set of
  chunks and limits, as long as at least as much of a payload is recorded as the
  accumulator holds (`SnCap <= Observed`; `Observed` is a bound of the model).
  `IndInv` adds that plain text not yet in an event starts behind all events, and
  that the pending verb is the reference decoder's. `DataDecoded` needs `DataInv`
  besides: text is complete not only while the table has room but also while the
  pending piece touches the last event, which it will be joined to; and no event
  touches the byte being read inside a command, or text on both sides of it would
  be joined. `SubnegotiationDecoded` needs `SubInv`: the accumulator holds the open
  payload (with some of its 255s doubled), the newest event the last closed one,
  and events and subnegotiations are equally many until the table is full.
* `NegotiatorProofs`, first part (`NegotiatorsTypeCorrect`, `NegotiatorsAgree`,
  `ConflictsUnreachable`), about `NegotiatorPair`: for any set of halves. `IndInv` lists
  the sixteen points an exchange about one half can be at.
* `NegotiatorProofs`, second part, about `ConnNegotiation`: for every set of options,
  every two configurations and every set of application commands. `NothingElsePerformed`
  (`OnlyEnabled`, half of `OffersTakeEffect`) has no premise: whatever is sent and dropped, a Conn
  performs only what its `Config` enables and lets the peer perform only what it knows. `ConnsAgree` (`AgreeAtRest`) has the premise
  `ReadsFit`: no read takes more commands from the wire than `processReadLocked` keeps
  of one. Without it the statement is false, since a dropped command is never repeated.
  `EnabledIsOn` (`OffersTakeEffect`) has the same premise; the property itself claims
  nothing once an application has sent WONT or DONT (`Withdrawn`), since the option is then off. The invariants: `Balance`, where the two ends disagree about an
  option a command that will tell one of them is in the write buffer or on the wire; `Offers`,
  an enabled option has been accepted or its WILL is on the way, and nothing on the
  way speaks against it. Both are about sets of commands, not their order, because the
  state of a Negotiator in this use is Yes or No and every handler's answer repeats
  what it has become.
* `ServerProofs` (`ServerTypeCorrect`, `TokensAlwaysMatch`, `OpenSocketsBounded`,
  `NothingLeftBehind`): for every finite set of clients and every limit above 0.
  `IndInv` adds that each counter of Stats is the number of handlers at the points
  where it counts (`CountersMatch`); that a closer past the listener leaves no Accept
  that can succeed (`CloserOrder`), without which a socket could be opened after
  Close had returned; and that an open socket belongs to a handler that has yet to
  close it or is the one the closer is about to close (`SocketOwner`).
  `OpenBounded` does not follow from the tokens: a handler that loses the race for
  its connection gives its token back before the closer has closed the socket. It
  holds because the loser is then the only one, and the Accept its token would
  allow fails, the listener being closed before any connection is.
* `ConnLifeProofs` (`LocksExclude`, `PushNeverBlocksReader`, `CallbacksOverBeforeFree`,
  `WritesSurvive`): for any number of writes and chunks, any write buffer and event
  queue, and Close called by the application or a callback. `IndInv` adds who holds
  which lock (`LockHeld`), what the closer has passed (`CloserOrder`), that only one
  Write can get past the closed flag and finish later (`LateWrite`), and that wire and
  buffer together continue the numbering of the writes (`NothingLost`): only the
  wire is what `WritesSurviveClose` is about, but a flush moves the buffer there.
* `ReadPathProofs` (`TextReadIntact`, `LossesBounded`, `TerminalUpToDate`,
  `SizesSkewedByOne`): for a ring, a `ReadLine` buffer and chunks of any size, with a
  scratch buffer of at most the size of the ring's array (`NewConn` asks for
  the same size for both, and the ring rounds it up). Three invariants. `Losses`: the ring is empty when the socket is
  read, so at most one byte of the text that has events has no room. `TextReadIntact` has
  the premises of `TextIntact`, `~upset` and `lost = 0`, the other two `~blurred`. `Terminal`: what the one event of
  a chunk still has to store, and that the width `TerminalSize` has loaded is at most
  one NAWS ahead of the height. `TextInv`: the text received is some text c followed
  by the ring, and what was returned and the local `line` are the lines of c
  (`InOrder`), with `readLineCR` exactly if `line` ends in CR. `LinesOpen`,
  `LinesAppend` and `LinesPrefix` say how the lines of a text change as it grows.
* `WritePathProofs` (`TextDelivered`, `NothingMissing`, `GrowthBounded`): for every set of
  texts, pieces of zlib output, commands and subnegotiations, every buffer of at least
  five bytes (the arrays `getBuf` returns have 4096 or more), any number of calls and failing writes. The
  payloads are at most `Observed` bytes long, a bound of the reference decoder only.
  `Delivered` says nothing of the bytes on their way, so it is not inductive. `Stream`
  follows them: what the peer has not read, on the wire and in the part of the buffer no failed
  write has sent (`Rest`), leads its decoder to a state with exactly the text, commands and
  subnegotiations accepted (`Final`). "Leads" is a function from positions to decoder states, so
  no recursion is needed; runs can be continued at the end (a call appends:
  `LeadsOn`), begun (the peer reads: `LeadsFrom`), and only add to what is
  decoded (`LeadsGrows`), from which `Delivered` follows. Every call is then shown in two
  parts. It carries some bytes to the end of `Rest`, whichever of flush, append and
  growth happens on the way, or sends a part a second time (`Carries`); the premise
  `~again` excludes the second. And those bytes move every such state to one
  with what the call accepts (`Moves`): an escaped byte is one data byte, a command one
  command, an escaped payload is recorded as it was. The calls of the MCCPWriter and of
  other goroutines need nothing more, since each is one of these.
  `GrowthBounded` uses that what `SendSubnegotiation` counts is the length of what
  `EscapeIAC` writes (`EscapeLen`) and that a byte escaped is one or two.
* `FlattenTheorems` are lemmas about `FlattenSeq` for the other proofs. The
  induction theorems of the library take an operator, which the provers cannot
  instantiate; `NatSetInduction` has a set instead and follows from the least element
  of a set of naturals. A recursive function is then handled by showing that its
  defining equation has a solution and only one.

The inductive invariants were model-checked on the instances of the runs before
they were proved.

Only model-checked:

* the liveness properties, `Settles`, `NoLoop`, `Converges`, `ServeStops` and the two
  `CloseEnds`: they need fairness, which is outside what this prover does;
* the codecs (`MsdpRoundTrip`, `MessagesRoundTrip`, `FitsWidth`, `CutsInvisible`,
  `VariantsStable`), which are written with RECURSIVE operators, on which the prover's
  main backend gives up;
* the three violated runs, which are counterexamples.

Every other property of a run is stated by a theorem.

## Not modelled

* MTTS (mud.go:303): a number parsed and a bit tested. JSON of GMCP is opaque.
* `ParseColor` is a table of names; `Sprintf` and `WriteColor` compose what is modelled.
* `IsPrintable` and `Sanitize` are the Unicode tables; `strings.Repeat` panics on the
  negative counts that Box and ProgressBar pass it for widths too small, which is
  left out.
* The size classes of the pool; `StaticBuffer.Write` and `Advance`, which only tests
  use; `chunkWriter`, which nothing uses.
* Deadlines, TCP options, and the counters of `Stats` other than the server's, which
  carry no control. ReadLine as a reader of `ConnLife`.
* The examples are programs that use the library.

## What could be added

* ReadLine as a reader of `ConnLife`, and Close from a callback as a second closer.
* A failing write in `ConnNegotiation`: the Negotiator has changed its state by then and
  the response is lost (conn.go:331).
* The codecs as recursive functions instead of operators, and proofs about them.

------------------------------ MODULE ConnLife -----------------------------
(***************************************************************************)
(* The life of one Conn of conn.go with its goroutines: one that calls     *)
(* Read, one that calls Write and Flush, the event dispatcher, and one     *)
(* that calls Close; and its locks, readMu and writeMu.  A step is what    *)
(* happens between two points where another goroutine can interfere.       *)
(*                                                                         *)
(* What is read is abstract: a chunk from the socket carries text, a       *)
(* command to be answered, a subnegotiation, or text and a command.  The   *)
(* ring holds a number of unread texts.  What is written has identity: the *)
(* application's writes are numbered, 0 is a response.                     *)
(***************************************************************************)
EXTENDS Integers, Sequences

CONSTANTS MaxWrites,    \* writes the application makes
          MaxChunks,    \* chunks the peer sends
          WriteCap,     \* writes that fit into writeBuf
          EventCap,     \* cap(c.events): 256 in the code
          Closer        \* who calls Close: "app", or an event "callback"

ASSUME ConnAssumption ==
    /\ MaxWrites \in Nat /\ MaxChunks \in Nat
    /\ WriteCap \in Nat \ {0} /\ EventCap \in Nat \ {0}
    /\ Closer \in {"app", "callback"}

VARIABLES closed,              \* c.closed
          readMu, writeMu,     \* their holders
          ring, ringFreed,     \* texts in readBuf; Free has run
          scratchFreed,        \* readScratch is back in the pool
          wbuf, wbufFreed,     \* writeBuf; Free has run
          wire,                \* what netConn.Write has taken
          net,                 \* netConn: "open", "broken" or "closed"
          rpc, chunks,         \* the reader, and the chunks it has received
          wpc, written,        \* the writer, and the writes that returned nil
          events, eventDone, dpc,   \* the event queue and its dispatcher
          cpc, due             \* Close, and what was written when it was called

readVars  == <<ring, rpc, chunks>>
writeVars == <<wpc, written>>
freeVars  == <<ringFreed, scratchFreed, wbufFreed>>
outVars   == <<wbuf, wire>>
eventVars == <<events, dpc>>
closeVars == <<closed, cpc, due, eventDone>>
vars == <<readMu, writeMu, readVars, writeVars, freeVars, outVars, net, eventVars, closeVars>>

Init == /\ closed = FALSE /\ readMu = "free" /\ writeMu = "free"
        /\ ring = 0 /\ ringFreed = FALSE /\ scratchFreed = FALSE
        /\ wbuf = << >> /\ wbufFreed = FALSE /\ wire = << >> /\ net = "open"
        /\ rpc = "idle" /\ chunks = 0
        /\ wpc = "idle" /\ written = 0
        /\ events = 0 /\ eventDone = FALSE /\ dpc = "select"
        /\ cpc = "idle" /\ due = 0
----------------------------------------------------------------------------
(* flushLocked, with writeMu held: netConn takes all or, broken or closed, *)
(* nothing, and then the buffer stays as it is.  netConn.Write sets no     *)
(* deadline: on an open socket it returns when the peer makes room, which  *)
(* may be never (FlushWaits, AppendWaits), and holds writeMu until then.   *)
FlushOK == wbuf = << >> \/ net = "open"
flushLocked ==
    IF FlushOK THEN wire' = wire \o wbuf /\ wbuf' = << >> ELSE UNCHANGED outVars

(* Append one write, flushing first when the buffer is full. *)
append(x) ==
    IF Len(wbuf) < WriteCap THEN wbuf' = Append(wbuf, x) /\ UNCHANGED wire
    ELSE wire' = wire \o wbuf /\ wbuf' = <<x>>

CanAppend == Len(wbuf) < WriteCap \/ net = "open"

FlushWaits  == wbuf # << >> /\ net = "open"
AppendWaits == Len(wbuf) >= WriteCap /\ net = "open"
----------------------------------------------------------------------------
(* Read: the flag is looked at before the lock is taken. *)
ReadCheck ==
    /\ rpc = "idle"
    /\ rpc' = IF closed THEN "stopped" ELSE "lock"
    /\ UNCHANGED <<readMu, writeMu, ring, chunks, writeVars, freeVars, outVars, net,
                   eventVars, closeVars>>

ReadLock ==
    /\ rpc = "lock" /\ readMu = "free"
    /\ readMu' = "reader"
    /\ rpc' = IF ring > 0 THEN "return" ELSE "net"
    /\ UNCHANGED <<writeMu, ring, chunks, writeVars, freeVars, outVars, net, eventVars,
                   closeVars>>

(* netConn.Read returns a chunk; Parse and the loop over the data events.  *)
(* A freed ring has no array: writing to it panics.                        *)
ReadNet(c) ==
    /\ rpc = "net" /\ net = "open" /\ chunks < MaxChunks
    /\ chunks' = chunks + 1
    /\ ring' = IF c \in {"text", "both"} THEN ring + 1 ELSE ring
    /\ rpc' = CASE c \in {"text", "both"} /\ ringFreed -> "panic"
                [] c = "text"                          -> "return"
                [] c \in {"command", "both"}           -> "respond"
                [] c = "sub"                           -> "event"
    /\ UNCHANGED <<readMu, writeMu, writeVars, freeVars, outVars, net, eventVars, closeVars>>

(* The peer has hung up or the connection is gone. *)
ReadError ==
    /\ rpc = "net"
    /\ rpc' = "stopped"
    /\ readMu' = "free"
    /\ UNCHANGED <<writeMu, ring, chunks, writeVars, freeVars, outVars, net, eventVars,
                   closeVars>>

(* SendCommand from processReadLocked, still holding readMu. *)
Respond ==
    /\ rpc = "respond"
    /\ rpc' = IF closed THEN "event" ELSE "sendlock"
    /\ UNCHANGED <<readMu, writeMu, ring, chunks, writeVars, freeVars, outVars, net,
                   eventVars, closeVars>>

RespondLock ==
    /\ rpc = "sendlock" /\ writeMu = "free"
    /\ writeMu' = "reader"
    /\ rpc' = "send"
    /\ UNCHANGED <<readMu, ring, chunks, writeVars, freeVars, outVars, net, eventVars,
                   closeVars>>

RespondSend ==
    /\ rpc = "send"
    /\ IF CanAppend THEN append(0) ELSE UNCHANGED outVars
    /\ writeMu' = "free"
    /\ rpc' = "event"
    /\ UNCHANGED <<readMu, ring, chunks, writeVars, freeVars, net, eventVars, closeVars>>

(* Mutant: a full queue is waited for instead of making room. *)
PushEventBlocking ==
    /\ rpc = "event"
    /\ rpc' = IF closed \/ events < EventCap THEN "return" ELSE "resend"
    /\ events' = IF ~closed /\ events < EventCap THEN events + 1 ELSE events
    /\ UNCHANGED <<readMu, writeMu, ring, chunks, writeVars, freeVars, outVars, net, dpc,
                   closeVars>>

(* pushEvent: the first select. *)
PushEvent ==
    /\ rpc = "event"
    /\ rpc' = IF closed \/ events < EventCap THEN "return" ELSE "makeroom"
    /\ events' = IF ~closed /\ events < EventCap THEN events + 1 ELSE events
    /\ UNCHANGED <<readMu, writeMu, ring, chunks, writeVars, freeVars, outVars, net, dpc,
                   closeVars>>

(* The second select: takes the oldest event out, or gives up if the       *)
(* dispatcher has emptied the queue meanwhile.                             *)
PushDropOldest ==
    /\ rpc = "makeroom"
    /\ events' = IF events > 0 THEN events - 1 ELSE events
    /\ rpc' = IF events > 0 THEN "resend" ELSE "return"
    /\ UNCHANGED <<readMu, writeMu, ring, chunks, writeVars, freeVars, outVars, net, dpc,
                   closeVars>>

(* The send inside it, which blocks while the queue is full. *)
PushResend ==
    /\ rpc = "resend" /\ events < EventCap
    /\ events' = events + 1
    /\ rpc' = "return"
    /\ UNCHANGED <<readMu, writeMu, ring, chunks, writeVars, freeVars, outVars, net, dpc,
                   closeVars>>

(* readBuf.Read, if it holds anything, and the deferred Unlock.  Reading a *)
(* freed ring panics.                                                      *)
ReadReturn ==
    /\ rpc = "return"
    /\ ring' = IF ring > 0 THEN ring - 1 ELSE ring
    /\ rpc' = IF ring > 0 /\ ringFreed THEN "panic" ELSE "idle"
    /\ readMu' = "free"
    /\ UNCHANGED <<writeMu, chunks, writeVars, freeVars, outVars, net, eventVars, closeVars>>

Chunks == {"text", "command", "sub", "both"}

Read == \/ ReadCheck \/ ReadLock \/ (\E c \in Chunks : ReadNet(c)) \/ ReadError
        \/ Respond \/ RespondLock \/ RespondSend
        \/ PushEvent \/ PushDropOldest \/ PushResend \/ ReadReturn
----------------------------------------------------------------------------
writeRest == <<readMu, readVars, freeVars, net, eventVars, closeVars>>

WriteCheck ==
    /\ wpc = "idle" /\ written < MaxWrites
    /\ wpc' = IF closed THEN "stopped" ELSE "lock"
    /\ UNCHANGED <<writeRest, writeMu, written, outVars>>

WriteLock ==
    /\ wpc = "lock" /\ writeMu = "free"
    /\ writeMu' = "writer"
    /\ wpc' = "write"
    /\ UNCHANGED <<writeRest, written, outVars>>

(* A Write whose flush fails returns the error; the application stops. *)
WriteData ==
    /\ wpc = "write"
    /\ IF CanAppend THEN append(written + 1) /\ written' = written + 1 /\ wpc' = "idle"
       ELSE UNCHANGED <<outVars, written>> /\ wpc' = "stopped"
    /\ writeMu' = "free"
    /\ UNCHANGED writeRest

(* Flush asks for the lock at once: it does not look at the flag. *)
FlushLock ==
    /\ wpc = "idle" /\ wbuf # << >> /\ writeMu = "free"
    /\ writeMu' = "writer"
    /\ wpc' = "flush"
    /\ UNCHANGED <<writeRest, written, outVars>>

FlushData ==
    /\ wpc = "flush"
    /\ flushLocked
    /\ wpc' = IF FlushOK THEN "idle" ELSE "stopped"
    /\ writeMu' = "free"
    /\ UNCHANGED <<writeRest, written>>

Write == WriteCheck \/ WriteLock \/ WriteData \/ FlushLock \/ FlushData
----------------------------------------------------------------------------
dispatchRest == <<readMu, writeMu, readVars, writeVars, freeVars, outVars, net, closeVars>>

(* eventDispatcher: either branch of the select when both are ready. *)
Dispatch ==
    /\ dpc = "select"
    /\ \/ events > 0 /\ events' = events - 1 /\ dpc' = "callback"
       \/ eventDone /\ dpc' = "exit" /\ UNCHANGED events
    /\ UNCHANGED dispatchRest

(* The user's callback; one that calls Close returns after Close. *)
CallbackReturns ==
    /\ dpc = "callback"
    /\ Closer = "callback" => cpc \in {"idle", "returned"}
    /\ dpc' = "select"
    /\ UNCHANGED <<events, dispatchRest>>
----------------------------------------------------------------------------
closeRest == <<readVars, writeVars, net, eventVars>>

CloseBegins ==
    /\ cpc = "idle"
    /\ Closer = "callback" => dpc = "callback"
    /\ closed' = TRUE
    /\ due' = written
    /\ cpc' = "flushlock"
    /\ UNCHANGED <<closeRest, readMu, writeMu, freeVars, outVars, eventDone>>

Step(from, to) == cpc = from /\ cpc' = to

CloseFlushLock ==
    /\ Step("flushlock", "flush")
    /\ writeMu = "free" /\ writeMu' = "closer"
    /\ UNCHANGED <<closeRest, readMu, freeVars, outVars, closed, due, eventDone>>

(* Mutant: what is still in the buffer is not flushed. *)
CloseFlushNothing ==
    /\ Step("flush", "signal")
    /\ writeMu' = "free"
    /\ UNCHANGED <<closeRest, readMu, freeVars, outVars, closed, due, eventDone>>

(* Mutant: the lock is not released after the flush. *)
CloseFlushHolding ==
    /\ Step("flush", "signal")
    /\ flushLocked
    /\ UNCHANGED <<closeRest, readMu, writeMu, freeVars, closed, due, eventDone>>

CloseFlush ==
    /\ Step("flush", "signal")
    /\ flushLocked
    /\ writeMu' = "free"
    /\ UNCHANGED <<closeRest, readMu, freeVars, closed, due, eventDone>>

CloseSignal ==
    /\ Step("signal", "wait")
    /\ eventDone' = TRUE
    /\ UNCHANGED <<closeRest, readMu, writeMu, freeVars, outVars, closed, due>>

(* Mutant: the dispatcher is told to stop but not waited for. *)
CloseWaitNot ==
    /\ Step("wait", "ringlock")
    /\ UNCHANGED <<closeRest, readMu, writeMu, freeVars, outVars, closed, due, eventDone>>

CloseWait ==
    /\ Step("wait", "ringlock")
    /\ dpc = "exit"
    /\ UNCHANGED <<closeRest, readMu, writeMu, freeVars, outVars, closed, due, eventDone>>

CloseRingLock ==
    /\ Step("ringlock", "ring")
    /\ readMu = "free" /\ readMu' = "closer"
    /\ UNCHANGED <<closeRest, writeMu, freeVars, outVars, closed, due, eventDone>>

CloseFreeRing ==
    /\ Step("ring", "wbuflock")
    /\ ringFreed' = TRUE
    /\ readMu' = "free"
    /\ UNCHANGED <<closeRest, writeMu, scratchFreed, wbufFreed, outVars, closed, due, eventDone>>

CloseWbufLock ==
    /\ Step("wbuflock", "wbuf")
    /\ writeMu = "free" /\ writeMu' = "closer"
    /\ UNCHANGED <<closeRest, readMu, freeVars, outVars, closed, due, eventDone>>

(* What a late Write has put into the buffer goes with it. *)
CloseFreeWbuf ==
    /\ Step("wbuf", "scratch")
    /\ wbufFreed' = TRUE /\ wbuf' = << >>
    /\ writeMu' = "free"
    /\ UNCHANGED <<closeRest, readMu, ringFreed, scratchFreed, wire, closed, due, eventDone>>

CloseFreeScratch ==
    /\ Step("scratch", "net")
    /\ scratchFreed' = TRUE
    /\ UNCHANGED <<closeRest, readMu, writeMu, ringFreed, wbufFreed, outVars, closed, due, eventDone>>

CloseNet ==
    /\ Step("net", "returned")
    /\ net' = IF net = "open" THEN "closed" ELSE net
    /\ UNCHANGED <<readVars, writeVars, eventVars, readMu, writeMu, freeVars, outVars, closed, due,
                   eventDone>>

Close == \/ CloseBegins \/ CloseFlushLock \/ CloseFlush \/ CloseSignal \/ CloseWait
         \/ CloseRingLock \/ CloseFreeRing \/ CloseWbufLock \/ CloseFreeWbuf
         \/ CloseFreeScratch \/ CloseNet

(* The connection breaks: netConn refuses writes, and reads fail. *)
NetBreaks ==
    /\ net = "open" /\ net' = "broken"
    /\ UNCHANGED <<readMu, writeMu, readVars, writeVars, freeVars, outVars, eventVars, closeVars>>
----------------------------------------------------------------------------
Next == Read \/ Write \/ Dispatch \/ CallbackReturns \/ Close \/ NetBreaks

(* The steps whose end is up to the peer: a netConn.Read, and a            *)
(* netConn.Write, on a socket that is still open.                          *)
ReaderWaits == \/ rpc = "net" /\ net = "open"
               \/ rpc = "send" /\ AppendWaits
WriterWaits == \/ wpc = "write" /\ AppendWaits
               \/ wpc = "flush" /\ FlushWaits
CloserWaits == cpc = "flush" /\ FlushWaits

(* Every other step of a goroutine that can run is taken in the end;       *)
(* callbacks return; Close goes on once called.                            *)
Progress ==
    /\ WF_vars(~ReaderWaits /\ Read)
    /\ WF_vars(WriteLock)
    /\ WF_vars(~WriterWaits /\ (WriteData \/ FlushData))
    /\ WF_vars(Dispatch) /\ WF_vars(CallbackReturns)
    /\ WF_vars(cpc # "idle" /\ ~CloserWaits /\ Close)

Spec == Init /\ [][Next]_vars /\ Progress
----------------------------------------------------------------------------
(* The application's writes in s come once each and in order, with none    *)
(* left out; all up to n are there.                                        *)
Numbered(s) ==
    /\ \A i, j \in 1..Len(s) : i < j /\ s[i] > 0 /\ s[j] > 0 => s[i] < s[j]
    /\ \A j \in 1..Len(s) : \A n \in 1..(s[j] - 1) : \E i \in 1..(j - 1) : s[i] = n
HasAll(s, n) == \A m \in 1..n : \E k \in 1..Len(s) : s[k] = m

(* What was written before Close was called has been handed to the socket, *)
(* once and in order, by the time the buffers are freed, also when a       *)
(* response or a late Write gets in between, unless the connection broke.  *)
WritesSurviveClose ==
    /\ Numbered(wire)
    /\ wbufFreed /\ net # "broken" => HasAll(wire, due)

(* pushEvent never blocks Read: when the inner send is reached there is    *)
(* room, because only the reader adds events.                              *)
PushNeverBlocks == rpc = "resend" => events < EventCap

(* No callback runs, or starts, once Close is past the wait for the        *)
(* dispatcher: the buffers are freed and the socket closed after the last. *)
CallbacksOver == ringFreed \/ net = "closed" => dpc = "exit"

(* Close waits for the peer: it is in the netConn.Write of its own Flush,  *)
(* or it wants a lock whose holder is in a netConn.Read or a netConn.Write *)
(* or, holding readMu, wants writeMu from such a holder.                   *)
WriteMuWaits == WriterWaits \/ (rpc = "send" /\ AppendWaits)
PeerHoldsClose ==
    \/ CloserWaits
    \/ cpc \in {"flushlock", "wbuflock"} /\ WriteMuWaits
    \/ cpc = "ringlock" /\ (ReaderWaits \/ (rpc = "sendlock" /\ WriteMuWaits))

(* Close returns whatever its Reads, Writes, callbacks and locks do, but   *)
(* for the peer: either it returns or from some time on it waits, at every *)
(* moment, for the peer to send or to read something, or to hang up.       *)
CloseEnds == closed ~> (cpc = "returned" \/ []PeerHoldsClose)
----------------------------------------------------------------------------
(* Close says of its locking "Synchronize with in-progress Read/Write      *)
(* before freeing buffers": no Read uses the ring or the scratch buffer    *)
(* after Close has given them back to the pool.                            *)
FreedUnused == /\ rpc # "panic"
               /\ rpc = "net" => ~scratchFreed
============================================================================

-------------------------------- MODULE Ring -------------------------------
(***************************************************************************)
(* Ring of buffer.go: the single-producer single-consumer byte ring that   *)
(* holds a connection's decoded input.  The producer and the consumer take *)
(* no lock: each loads the other's index, copies bytes one by one, and     *)
(* stores its own index.  Loads of an index by the side that owns it       *)
(* commute with everything, so an operation is three kinds of step: load   *)
(* (and decide), copy one byte, publish the index.                         *)
(*                                                                         *)
(* Indices are uint32 and are never reset by wrap-around of the buffer:    *)
(* they run over 0 .. IndexMod-1 (2^32 in the code) and the slot is        *)
(* index & mask.                                                           *)
(***************************************************************************)
EXTENDS Integers, Sequences

CONSTANTS Byte,       \* the values of a byte
          Size,       \* len(r.buf), a power of two in the code
          IndexMod,   \* number of values of an index: 2^32 in the code
          MaxLen      \* longest slice a caller passes

ASSUME SizeAssumption ==
    /\ Size \in Nat \ {0}
    /\ IndexMod \in Nat
    /\ \E k \in 1..IndexMod : IndexMod = k * Size
    /\ MaxLen \in Nat

VARIABLES buf,      \* r.buf
          rhead,    \* r.rhead, stored only by the consumer
          wtail,    \* r.wtail, stored only by the producer
          wpc,      \* the producer: idle, or copying wp into buf
          wp,       \* its slice p, already cut to the room there is
          wi,       \* how many bytes of it are copied
          werr,     \* the error it is going to return
          rpc,      \* the consumer's call in progress
          rn,       \* how many bytes it is about
          rp,       \* the bytes it has copied out so far
          ack,      \* p[:n] and err of the last Write / WriteByte
          got       \* bytes handed to the caller by the last consumer call

shared   == <<buf, rhead, wtail>>
producer == <<wpc, wp, wi, werr>>
consumer == <<rpc, rn, rp>>
vars == <<shared, producer, consumer, ack, got>>

Index == 0..(IndexMod - 1)
mask  == Size - 1
Cap   == mask

(* Mutant: the sum is not wrapped to 32 bits. *)
Add32Unwrapped(a, b) == a + b

(* uint32 arithmetic. *)
Add32(a, b) == (a + b) % IndexMod
Sub32(a, b) == (a - b) % IndexMod

Slot(index) == index % Size      \* index & r.mask, Size a power of two

NoBytes == << >>

Prefix(s, n) == SubSeq(s, 1, n)
Lower(a, b)  == IF a <= b THEN a ELSE b

RingLen == Sub32(wtail, rhead)

Init == /\ buf \in [0..mask -> Byte]
        /\ rhead = 0
        /\ wtail = 0
        /\ wpc = "idle" /\ wp = NoBytes /\ wi = 0 /\ werr = "nil"
        /\ rpc = "idle" /\ rn = 0 /\ rp = NoBytes
        /\ ack = [p |-> NoBytes, err |-> "nil"]
        /\ got = NoBytes
----------------------------------------------------------------------------
(* The producer. *)

ReportFull == /\ ack' = [p |-> NoBytes, err |-> "full"]
              /\ UNCHANGED <<shared, producer, consumer, got>>

StartCopy(p, err) == /\ wpc' = "copy" /\ wp' = p /\ wi' = 0 /\ werr' = err
                     /\ UNCHANGED <<shared, consumer, ack, got>>

Cut(p, avail) == IF Len(p) > avail THEN "full" ELSE "nil"

(* Mutant: a slice longer than the room is not cut. *)
WriteUncut(p) ==
    LET avail == mask - RingLen
    IN /\ wpc = "idle"
       /\ \/ avail <= 0 /\ ReportFull
          \/ avail > 0 /\ StartCopy(p, Cut(p, avail))

Write(p) ==
    LET avail == mask - RingLen
    IN /\ wpc = "idle"
       /\ \/ avail <= 0 /\ ReportFull
          \/ avail > 0 /\ StartCopy(Prefix(p, Lower(Len(p), avail)), Cut(p, avail))

(* Mutant: the byte is stored without looking for room. *)
WriteByteUnchecked(c) ==
    /\ wpc = "idle"
    /\ StartCopy(<<c>>, "nil")

WriteByte(c) ==
    /\ wpc = "idle"
    /\ \/ RingLen >= mask /\ ReportFull
       \/ RingLen < mask /\ StartCopy(<<c>>, "nil")

CopyIn ==
    /\ wpc = "copy"
    /\ wi < Len(wp)
    /\ buf' = [buf EXCEPT ![Slot(Add32(wtail, wi))] = wp[wi + 1]]
    /\ wi' = wi + 1
    /\ UNCHANGED <<rhead, wtail, wpc, wp, werr, consumer, ack, got>>

(* Mutant: the index may be stored before the last bytes are copied. *)
PublishTailEarly ==
    /\ wpc = "copy"
    /\ wi > 0
    /\ wtail' = Add32(wtail, Len(wp))
    /\ ack' = [p |-> wp, err |-> werr]
    /\ wpc' = "idle" /\ wp' = NoBytes /\ wi' = 0 /\ werr' = "nil"
    /\ UNCHANGED <<buf, rhead, consumer, got>>

PublishTail ==
    /\ wpc = "copy"
    /\ wi = Len(wp)
    /\ wtail' = Add32(wtail, Len(wp))
    /\ ack' = [p |-> wp, err |-> werr]
    /\ wpc' = "idle" /\ wp' = NoBytes /\ wi' = 0 /\ werr' = "nil"
    /\ UNCHANGED <<buf, rhead, consumer, got>>
----------------------------------------------------------------------------
(* The consumer.  A slice returned by Peek aliases buf and lives until the *)
(* consumer's next call, so a call may start while one is outstanding.     *)

ConsumerFree == rpc \in {"idle", "peek"}

Return(bytes) == /\ got' = bytes
                 /\ rpc' = "idle" /\ rn' = 0 /\ rp' = NoBytes

ReportEmpty == /\ Return(NoBytes)
               /\ UNCHANGED <<shared, producer, ack>>

StartRead(pc, n) == /\ rpc' = pc /\ rn' = n /\ rp' = NoBytes
                    /\ UNCHANGED <<shared, producer, ack, got>>

Read(n) ==
    /\ ConsumerFree
    /\ \/ RingLen = 0 /\ ReportEmpty
       \/ RingLen # 0 /\ StartRead("read", Lower(n, RingLen))

ReadByte ==
    /\ ConsumerFree
    /\ \/ wtail = rhead /\ ReportEmpty
       \/ wtail # rhead /\ StartRead("read", 1)

(* Discard of a positive n; for n <= 0 the code returns at once. *)
Discard(n) ==
    /\ ConsumerFree
    /\ StartRead("skip", Lower(n, RingLen))

Bytes ==
    /\ ConsumerFree
    /\ \/ RingLen = 0 /\ ReportEmpty
       \/ RingLen # 0 /\ StartRead("look", RingLen)

(* Only the contiguous part up to the end of buf is returned. *)
Contiguous(n) == Lower(n, Size - Slot(rhead))
View(n) == [j \in 1..n |-> buf[Slot(rhead) + (j - 1)]]

Peek(n) ==
    LET k == Contiguous(Lower(n, RingLen))
    IN /\ ConsumerFree
       /\ \/ RingLen = 0 /\ ReportEmpty
          \/ /\ RingLen # 0
             /\ rpc' = "peek" /\ rn' = k /\ rp' = NoBytes
             /\ got' = View(k)
             /\ UNCHANGED <<shared, producer, ack>>

CopyOut ==
    /\ rpc \in {"read", "look"}
    /\ Len(rp) < rn
    /\ rp' = Append(rp, buf[Slot(Add32(rhead, Len(rp)))])
    /\ UNCHANGED <<shared, producer, rpc, rn, ack, got>>

ReleaseHead ==
    /\ \/ rpc = "read" /\ Len(rp) = rn
       \/ rpc = "skip"
    /\ rhead' = Add32(rhead, rn)
    /\ Return(rp)
    /\ UNCHANGED <<buf, wtail, producer, ack>>

ReturnBytes ==
    /\ rpc = "look"
    /\ Len(rp) = rn
    /\ Return(rp)
    /\ UNCHANGED <<shared, producer, ack>>

(* Two stores, with no call in progress on either side: Reset belongs to   *)
(* neither the producer nor the consumer.                                  *)
Reset ==
    /\ wpc = "idle"
    /\ rpc = "idle"
    /\ rhead' = 0
    /\ wtail' = 0
    /\ UNCHANGED <<buf, producer, consumer, ack, got>>
----------------------------------------------------------------------------
Slices == UNION {[1..n -> Byte] : n \in 1..MaxLen}

Producer == \/ \E p \in Slices : Write(p)
            \/ \E c \in Byte : WriteByte(c)
            \/ CopyIn
            \/ PublishTail

Consumer == \/ \E n \in 1..MaxLen : Read(n) \/ Discard(n) \/ Peek(n)
            \/ ReadByte
            \/ Bytes
            \/ CopyOut
            \/ ReleaseHead
            \/ ReturnBytes

Next == Producer \/ Consumer \/ Reset

Spec == Init /\ [][Next]_vars
----------------------------------------------------------------------------
TypeOK ==
    /\ buf \in [0..mask -> Byte]
    /\ rhead \in Index
    /\ wtail \in Index
    /\ wpc \in {"idle", "copy"}
    /\ wp \in Seq(Byte)
    /\ wi \in Nat
    /\ werr \in {"nil", "full"}
    /\ rpc \in {"idle", "read", "look", "skip", "peek"}
    /\ rn \in Nat
    /\ rp \in Seq(Byte)
    /\ ack \in [p : Seq(Byte), err : {"nil", "full"}]
    /\ got \in Seq(Byte)

(* Slots that hold published, unread bytes. *)
Readable == {Slot(rhead + j) : j \in 0..(RingLen - 1)}

(* The producer of Ring.Write and WriteByte never stores into a slot the   *)
(* consumer may be copying from or has peeked at: the lock-free design is  *)
(* free of data races on buf.                                              *)
RaceFree == wpc = "copy" =>
    \A j \in wi..(Len(wp) - 1) : Slot(Add32(wtail, j)) \notin Readable

(* The slice Peek returned still shows the bytes it showed when it was     *)
(* returned, whatever the producer has written since: buffer.go says it is *)
(* valid until the next Read/Write, and it outlives concurrent Writes.     *)
PeekStable == rpc = "peek" => got = View(rn)

(* The inductive strengthening: what each side has copied so far is in     *)
(* place, and neither has claimed more than the other side granted it.     *)
ProducerOK == wpc = "copy" =>
    /\ wi <= Len(wp)
    /\ Len(wp) >= 1
    /\ RingLen + Len(wp) <= mask
    /\ \A j \in 0..(wi - 1) : buf[Slot(wtail + j)] = wp[j + 1]

ConsumerOK ==
    /\ rpc \in {"read", "look"} =>
          /\ rn \in 1..RingLen
          /\ Len(rp) <= rn
          /\ \A j \in 1..Len(rp) : rp[j] = buf[Slot(rhead + (j - 1))]
    /\ rpc = "skip" => rn \in 0..RingLen /\ rp = NoBytes
    /\ rpc = "peek" => /\ rn \in 1..RingLen
                       /\ Slot(rhead) + rn <= Size
                       /\ got = View(rn)

IndInv == /\ TypeOK
          /\ RingLen <= mask
          /\ ProducerOK
          /\ ConsumerOK

(* Refinement: the readable bytes form the abstract queue. *)
Contents == [j \in 1..RingLen |-> buf[Slot(rhead + (j - 1))]]

Q == INSTANCE ByteQueue WITH Capacity <- Cap, queue <- Contents

(* Ring implements a bounded FIFO queue: Write publishes its bytes in      *)
(* order and at once, Read, ReadByte and Discard take them from the front, *)
(* Peek and Bytes show a prefix, and errBufferFull with n = 0 is returned  *)
(* only when Cap bytes are waiting -- across wrap-around of the buffer and *)
(* of the 32-bit indices, under every interleaving of the two sides.       *)
Fifo == Q!Spec
============================================================================

--------------------------- MODULE ConnLifeProofs ---------------------------
(***************************************************************************)
(* Proofs about ConnLife: the mutual exclusion of readMu and writeMu,      *)
(* PushNeverBlocks, CallbacksOver and WritesSurviveClose, for any number   *)
(* of writes and chunks, any capacity of the write buffer and of the event *)
(* queue, and whoever calls Close.                                         *)
(***************************************************************************)
EXTENDS ConnLife, SequenceTheorems, TLAPS

Typed ==
    /\ readMu \in {"free", "reader", "closer"}
    /\ writeMu \in {"free", "reader", "writer", "closer"}
    /\ ring \in Nat /\ chunks \in Nat /\ written \in Nat /\ due \in Nat
    /\ wbuf \in Seq(Nat) /\ wire \in Seq(Nat)
    /\ net \in {"open", "broken", "closed"}
    /\ rpc \in {"idle", "lock", "net", "respond", "sendlock", "send", "event", "makeroom",
                "resend", "return", "stopped", "panic"}
    /\ wpc \in {"idle", "lock", "write", "flush", "stopped"}
    /\ events \in 0..EventCap
    /\ dpc \in {"select", "callback", "exit"}
    /\ cpc \in {"idle", "flushlock", "flush", "signal", "wait", "ringlock", "ring", "wbuflock",
                "wbuf", "scratch", "net", "returned"}

(* Each lock is held by the goroutine that stands between its Lock and its *)
(* Unlock, so no two of them stand there at once.                          *)
LockHeld ==
    /\ rpc \in {"net", "respond", "sendlock", "send", "event", "makeroom", "resend", "return"}
          => readMu = "reader"
    /\ cpc = "ring" => readMu = "closer"
    /\ rpc = "send" => writeMu = "reader"
    /\ wpc \in {"write", "flush"} => writeMu = "writer"
    /\ cpc \in {"flush", "wbuf"} => writeMu = "closer"

(* What the closer has passed. *)
CloserOrder ==
    /\ closed <=> cpc # "idle"
    /\ cpc \notin {"idle", "flushlock", "flush", "signal", "wait"} => dpc = "exit"
    /\ ringFreed => cpc \in {"wbuflock", "wbuf", "scratch", "net", "returned"}
    /\ wbufFreed <=> cpc \in {"scratch", "net", "returned"}
    /\ net = "closed" => cpc = "returned"

(* All that was accepted, in the order the socket takes it. *)
Out == wire \o wbuf

(* At most one Write gets past the closed flag and finishes after Close    *)
(* was called.                                                             *)
LateWrite ==
    /\ \A k \in 1..Len(Out) : Out[k] <= written
    /\ closed => due <= written
    /\ closed /\ wpc \in {"lock", "write"} => written = due

(* While the connection is whole, the buffer continues the wire, nothing   *)
(* accepted is lost before the buffer is freed, and after the flush of     *)
(* Close the wire has all that was due.                                    *)
NothingLost ==
    /\ Numbered(wire)
    /\ net = "open" => Numbered(Out)
    /\ net = "open" /\ ~wbufFreed => HasAll(Out, written)
    /\ net # "broken" /\ cpc \notin {"idle", "flushlock", "flush"} => HasAll(wire, due)

IndInv == Typed /\ LockHeld /\ CloserOrder /\ LateWrite /\ NothingLost /\ PushNeverBlocks
----------------------------------------------------------------------------
(* A prefix of numbered writes is numbered. *)
LEMMA NumberedPrefix ==
    ASSUME NEW s \in Seq(Nat), NEW t \in Seq(Nat), Numbered(s \o t)
    PROVE  Numbered(s)
<1>1. Len(s \o t) = Len(s) + Len(t) /\ Len(s) \in Nat /\ Len(t) \in Nat
  OBVIOUS
<1>2. \A k \in 1..Len(s) : k \in 1..Len(s \o t) /\ (s \o t)[k] = s[k]
  BY <1>1
<1>3. \A i, j \in 1..Len(s) : i < j /\ s[i] > 0 /\ s[j] > 0 => s[i] < s[j]
  BY <1>2 DEF Numbered
<1>4. ASSUME NEW j \in 1..Len(s), NEW n \in 1..(s[j] - 1)
      PROVE  \E i \in 1..(j - 1) : s[i] = n
  <2>1. PICK i \in 1..(j - 1) : (s \o t)[i] = n
    BY <1>2, <1>4 DEF Numbered
  <2>2. i \in 1..Len(s)
    BY <1>1
  <2> QED
    BY <2>1, <2>2, <1>2
<1> QED
  BY <1>3, <1>4 DEF Numbered

(* What a prefix has, the whole has. *)
LEMMA HasAllPrefix ==
    ASSUME NEW s \in Seq(Nat), NEW t \in Seq(Nat), NEW n \in Nat, HasAll(s, n)
    PROVE  HasAll(s \o t, n)
<1>1. \A k \in 1..Len(s) : k \in 1..Len(s \o t) /\ (s \o t)[k] = s[k]
  OBVIOUS
<1> QED
  BY <1>1 DEF HasAll

(* The elements of a sequence with one element more. *)
LEMMA Appended ==
    ASSUME NEW s \in Seq(Nat), NEW x \in Nat
    PROVE  /\ Append(s, x) \in Seq(Nat) /\ Len(s) \in Nat
           /\ Len(Append(s, x)) = Len(s) + 1
           /\ \A k \in 1..Len(s) : Append(s, x)[k] = s[k] /\ s[k] \in Nat
           /\ Append(s, x)[Len(s) + 1] = x
OBVIOUS

(* The next write goes after all earlier ones. *)
LEMMA NumberedAppend ==
    ASSUME NEW s \in Seq(Nat), NEW n \in Nat, Numbered(s), HasAll(s, n),
           \A k \in 1..Len(s) : s[k] <= n
    PROVE  Numbered(Append(s, n + 1)) /\ HasAll(Append(s, n + 1), n + 1)
<1> DEFINE t == Append(s, n + 1)
<1>1. /\ t \in Seq(Nat) /\ Len(s) \in Nat /\ Len(t) = Len(s) + 1
      /\ \A k \in 1..Len(s) : t[k] = s[k] /\ s[k] \in Nat
      /\ t[Len(s) + 1] = n + 1
  BY Appended
<1> HIDE DEF t
<1>2. \A k \in 1..Len(t) : k \in 1..Len(s) \/ k = Len(s) + 1
  BY <1>1
<1>3. ASSUME NEW i \in 1..Len(t), NEW j \in 1..Len(t), i < j, t[i] > 0, t[j] > 0
      PROVE  t[i] < t[j]
  <2>1. i \in 1..Len(s)
    BY <1>1, <1>3
  <2>2. CASE j \in 1..Len(s)
    BY <1>1, <1>3, <2>1, <2>2 DEF Numbered
  <2>3. CASE j = Len(s) + 1
    <3>1. s[i] <= n /\ s[i] \in Nat /\ t[i] = s[i]
      BY <1>1, <2>1
    <3>2. t[j] = n + 1
      BY <1>1, <2>3
    <3> QED
      BY <3>1, <3>2
  <2> QED
    BY <1>2, <2>2, <2>3
<1>4. ASSUME NEW j \in 1..Len(t), NEW m \in 1..(t[j] - 1)
      PROVE  \E i \in 1..(j - 1) : t[i] = m
  <2>1. CASE j \in 1..Len(s)
    <3>1. m \in 1..(s[j] - 1)
      BY <1>1, <2>1
    <3>2. PICK i \in 1..(j - 1) : s[i] = m
      BY <2>1, <3>1 DEF Numbered
    <3>3. i \in 1..Len(s)
      BY <1>1, <2>1
    <3> QED
      BY <1>1, <3>2, <3>3
  <2>2. CASE j = Len(s) + 1
    <3>1. m \in 1..n
      BY <1>1, <2>2
    <3>2. PICK i \in 1..Len(s) : s[i] = m
      BY <3>1 DEF HasAll
    <3> QED
      BY <1>1, <2>2, <3>2
  <2> QED
    BY <1>2, <2>1, <2>2
<1>5. ASSUME NEW m \in 1..(n + 1)
      PROVE  \E k \in 1..Len(t) : t[k] = m
  <2>1. CASE m \in 1..n
    <3>1. PICK k \in 1..Len(s) : s[k] = m
      BY <2>1 DEF HasAll
    <3>2. k \in 1..Len(t) /\ t[k] = m
      BY <1>1, <3>1
    <3> QED
      BY <3>2
  <2>2. CASE m = n + 1
    <3>1. Len(s) + 1 \in 1..Len(t) /\ t[Len(s) + 1] = m
      BY <1>1, <2>2
    <3> QED
      BY <3>1
  <2> QED
    BY <2>1, <2>2
<1>6. Numbered(t)
  BY <1>3, <1>4 DEF Numbered
<1>7. HasAll(t, n + 1)
  BY <1>5 DEF HasAll
<1> QED
  BY <1>6, <1>7 DEF t

(* A response in between disturbs nothing. *)
LEMMA ResponseAppend ==
    ASSUME NEW s \in Seq(Nat)
    PROVE  /\ Numbered(s) => Numbered(Append(s, 0))
           /\ \A n \in Nat : HasAll(s, n) => HasAll(Append(s, 0), n)
<1> DEFINE t == Append(s, 0)
<1>1. /\ t \in Seq(Nat) /\ Len(s) \in Nat /\ Len(t) = Len(s) + 1
      /\ \A k \in 1..Len(s) : t[k] = s[k] /\ s[k] \in Nat
      /\ t[Len(s) + 1] = 0
  BY Appended
<1> HIDE DEF t
<1>2. \A k \in 1..Len(t) : k \in 1..Len(s) \/ k = Len(s) + 1
  BY <1>1
<1>3. ASSUME Numbered(s) PROVE Numbered(t)
  <2>1. ASSUME NEW i \in 1..Len(t), NEW j \in 1..Len(t), i < j, t[i] > 0, t[j] > 0
        PROVE  t[i] < t[j]
    <3>1. i \in 1..Len(s) /\ j \in 1..Len(s)
      BY <1>1, <1>2, <2>1
    <3> QED
      BY <1>1, <1>3, <2>1, <3>1 DEF Numbered
  <2>2. ASSUME NEW j \in 1..Len(t), NEW m \in 1..(t[j] - 1)
        PROVE  \E i \in 1..(j - 1) : t[i] = m
    <3>1. j \in 1..Len(s)
      BY <1>1, <1>2
    <3>2. PICK i \in 1..(j - 1) : s[i] = m
      BY <1>1, <1>3, <2>2, <3>1 DEF Numbered
    <3>3. i \in 1..Len(s)
      BY <1>1, <3>1
    <3> QED
      BY <1>1, <3>2, <3>3
  <2> QED
    BY <2>1, <2>2 DEF Numbered
<1>4. ASSUME NEW n \in Nat, HasAll(s, n) PROVE HasAll(t, n)
  <2> SUFFICES ASSUME NEW m \in 1..n PROVE \E k \in 1..Len(t) : t[k] = m
    BY DEF HasAll
  <2>1. PICK k \in 1..Len(s) : s[k] = m
    BY <1>4 DEF HasAll
  <2>2. k \in 1..Len(t) /\ t[k] = m
    BY <1>1, <2>1
  <2> QED
    BY <2>2
<1> QED
  BY <1>3, <1>4 DEF t
----------------------------------------------------------------------------
(* flushLocked moves the whole buffer to a whole connection, or nothing. *)
LEMMA FlushEffect ==
    ASSUME Typed, flushLocked
    PROVE  /\ wire' \in Seq(Nat) /\ wbuf' \in Seq(Nat)
           /\ Out' = Out
           /\ wire' = wire \/ (net = "open" /\ wire' = Out)
           /\ net = "open" => wire' = Out
<1>1. CASE FlushOK
  <2>1. wire' = Out /\ wbuf' = << >>
    BY <1>1 DEF flushLocked, Out
  <2>2. Out \in Seq(Nat) /\ Out' = Out
    BY <2>1 DEF Out, Typed
  <2>3. wbuf = << >> => Out = wire
    BY DEF Out, Typed
  <2> QED
    BY <1>1, <2>1, <2>2, <2>3 DEF FlushOK
<1>2. CASE ~FlushOK
  BY <1>2 DEF flushLocked, FlushOK, outVars, Typed, Out
<1> QED
  BY <1>1, <1>2

(* A write that is accepted goes to the end of what was accepted before,   *)
(* whether or not the buffer had to be flushed first.                      *)
LEMMA AppendEffect ==
    ASSUME Typed, CanAppend, NEW x \in Nat, append(x)
    PROVE  /\ wire' \in Seq(Nat) /\ wbuf' \in Seq(Nat)
           /\ Out' = Append(Out, x)
           /\ wire' = wire \/ (net = "open" /\ wire' = Out)
<1>1. wire \in Seq(Nat) /\ wbuf \in Seq(Nat) /\ <<x>> \in Seq(Nat)
  BY DEF Typed
<1>2. Append(Out, x) = (wire \o wbuf) \o <<x>>
  BY <1>1, ConcatProperties, AppendIsConcat DEF Out
<1>3. CASE Len(wbuf) < WriteCap
  <2>1. wbuf' = Append(wbuf, x) /\ wire' = wire
    BY <1>3 DEF append
  <2>2. wbuf' = wbuf \o <<x>> /\ wbuf' \in Seq(Nat)
    BY <1>1, <2>1, AppendIsConcat, AppendProperties
  <2>3. wire \o (wbuf \o <<x>>) = (wire \o wbuf) \o <<x>>
    BY <1>1, ConcatAssociative
  <2> QED
    BY <1>1, <1>2, <2>1, <2>2, <2>3 DEF Out
<1>4. CASE ~(Len(wbuf) < WriteCap)
  <2>1. net = "open" /\ wire' = wire \o wbuf /\ wbuf' = <<x>>
    BY <1>4 DEF append, CanAppend
  <2>2. wire' \in Seq(Nat)
    BY <1>1, <2>1, ConcatProperties
  <2> QED
    BY <1>1, <1>2, <2>1, <2>2 DEF Out
<1> QED
  BY <1>3, <1>4

(* Steps that leave the output and the closer alone. *)
LEMMA QuietStep ==
    ASSUME LateWrite, NothingLost,
           UNCHANGED <<wire, wbuf, written, closed, due, wpc, net, wbufFreed, cpc>>
    PROVE  LateWrite' /\ NothingLost'
BY DEF LateWrite, NothingLost, Out

(* ReadCheck preserves the inductive invariant. *)
LEMMA ReadCheckStep ==
    ASSUME IndInv, ReadCheck
    PROVE  IndInv'
<1> USE DEF IndInv
<1>1. Typed'
  BY ConnAssumption DEF Typed, ReadCheck, readVars, writeVars, freeVars, outVars,
     eventVars, closeVars
<1>2. LockHeld'
  BY DEF Typed, LockHeld, ReadCheck, readVars, writeVars, freeVars, outVars, eventVars,
     closeVars
<1>3. CloserOrder'
  BY DEF Typed, CloserOrder, ReadCheck, readVars, writeVars, freeVars, outVars, eventVars,
     closeVars
<1>4. PushNeverBlocks'
  BY ConnAssumption DEF Typed, PushNeverBlocks, ReadCheck, readVars, writeVars, freeVars,
     outVars, eventVars, closeVars
<1>5. LateWrite' /\ NothingLost'
  BY QuietStep DEF ReadCheck, readVars, writeVars, freeVars, outVars, eventVars, closeVars
<1> QED
  BY <1>1, <1>2, <1>3, <1>4, <1>5

(* ReadLock preserves the inductive invariant. *)
LEMMA ReadLockStep ==
    ASSUME IndInv, ReadLock
    PROVE  IndInv'
<1> USE DEF IndInv
<1>1. Typed'
  BY ConnAssumption DEF Typed, ReadLock, readVars, writeVars, freeVars, outVars, eventVars,
     closeVars
<1>2. LockHeld'
  BY DEF Typed, LockHeld, ReadLock, readVars, writeVars, freeVars, outVars, eventVars,
     closeVars
<1>3. CloserOrder'
  BY DEF Typed, CloserOrder, ReadLock, readVars, writeVars, freeVars, outVars, eventVars,
     closeVars
<1>4. PushNeverBlocks'
  BY ConnAssumption DEF Typed, PushNeverBlocks, ReadLock, readVars, writeVars, freeVars,
     outVars, eventVars, closeVars
<1>5. LateWrite' /\ NothingLost'
  BY QuietStep DEF ReadLock, readVars, writeVars, freeVars, outVars, eventVars, closeVars
<1> QED
  BY <1>1, <1>2, <1>3, <1>4, <1>5

(* ReadNet preserves the inductive invariant. *)
LEMMA ReadNetStep ==
    ASSUME IndInv, NEW c \in Chunks, ReadNet(c)
    PROVE  IndInv'
<1> USE DEF IndInv
<1>1. Typed'
  BY ConnAssumption DEF Typed, ReadNet, readVars, writeVars, freeVars, outVars, eventVars,
     closeVars, Chunks
<1>2. LockHeld'
  BY DEF Typed, LockHeld, ReadNet, readVars, writeVars, freeVars, outVars, eventVars,
     closeVars, Chunks
<1>3. CloserOrder'
  BY DEF Typed, CloserOrder, ReadNet, readVars, writeVars, freeVars, outVars, eventVars,
     closeVars, Chunks
<1>4. PushNeverBlocks'
  BY ConnAssumption DEF Typed, PushNeverBlocks, ReadNet, readVars, writeVars, freeVars,
     outVars, eventVars, closeVars, Chunks
<1>5. LateWrite' /\ NothingLost'
  BY QuietStep DEF ReadNet, readVars, writeVars, freeVars, outVars, eventVars, closeVars,
     Chunks
<1> QED
  BY <1>1, <1>2, <1>3, <1>4, <1>5

(* ReadError preserves the inductive invariant. *)
LEMMA ReadErrorStep ==
    ASSUME IndInv, ReadError
    PROVE  IndInv'
<1> USE DEF IndInv
<1>1. Typed'
  BY ConnAssumption DEF Typed, ReadError, readVars, writeVars, freeVars, outVars,
     eventVars, closeVars
<1>2. LockHeld'
  BY DEF Typed, LockHeld, ReadError, readVars, writeVars, freeVars, outVars, eventVars,
     closeVars
<1>3. CloserOrder'
  BY DEF Typed, CloserOrder, ReadError, readVars, writeVars, freeVars, outVars, eventVars,
     closeVars
<1>4. PushNeverBlocks'
  BY ConnAssumption DEF Typed, PushNeverBlocks, ReadError, readVars, writeVars, freeVars,
     outVars, eventVars, closeVars
<1>5. LateWrite' /\ NothingLost'
  BY QuietStep DEF ReadError, readVars, writeVars, freeVars, outVars, eventVars, closeVars
<1> QED
  BY <1>1, <1>2, <1>3, <1>4, <1>5

(* Respond preserves the inductive invariant. *)
LEMMA RespondStep ==
    ASSUME IndInv, Respond
    PROVE  IndInv'
<1> USE DEF IndInv
<1>1. Typed'
  BY ConnAssumption DEF Typed, Respond, readVars, writeVars, freeVars, outVars, eventVars,
     closeVars
<1>2. LockHeld'
  BY DEF Typed, LockHeld, Respond, readVars, writeVars, freeVars, outVars, eventVars,
     closeVars
<1>3. CloserOrder'
  BY DEF Typed, CloserOrder, Respond, readVars, writeVars, freeVars, outVars, eventVars,
     closeVars
<1>4. PushNeverBlocks'
  BY ConnAssumption DEF Typed, PushNeverBlocks, Respond, readVars, writeVars, freeVars,
     outVars, eventVars, closeVars
<1>5. LateWrite' /\ NothingLost'
  BY QuietStep DEF Respond, readVars, writeVars, freeVars, outVars, eventVars, closeVars
<1> QED
  BY <1>1, <1>2, <1>3, <1>4, <1>5

(* RespondLock preserves the inductive invariant. *)
LEMMA RespondLockStep ==
    ASSUME IndInv, RespondLock
    PROVE  IndInv'
<1> USE DEF IndInv
<1>1. Typed'
  BY ConnAssumption DEF Typed, RespondLock, readVars, writeVars, freeVars, outVars,
     eventVars, closeVars
<1>2. LockHeld'
  BY DEF Typed, LockHeld, RespondLock, readVars, writeVars, freeVars, outVars, eventVars,
     closeVars
<1>3. CloserOrder'
  BY DEF Typed, CloserOrder, RespondLock, readVars, writeVars, freeVars, outVars,
     eventVars, closeVars
<1>4. PushNeverBlocks'
  BY ConnAssumption DEF Typed, PushNeverBlocks, RespondLock, readVars, writeVars, freeVars,
     outVars, eventVars, closeVars
<1>5. LateWrite' /\ NothingLost'
  BY QuietStep DEF RespondLock, readVars, writeVars, freeVars, outVars, eventVars, closeVars
<1> QED
  BY <1>1, <1>2, <1>3, <1>4, <1>5

(* PushEvent preserves the inductive invariant. *)
LEMMA PushEventStep ==
    ASSUME IndInv, PushEvent
    PROVE  IndInv'
<1> USE DEF IndInv
<1>1. Typed'
  BY ConnAssumption DEF Typed, PushEvent, readVars, writeVars, freeVars, outVars,
     eventVars, closeVars
<1>2. LockHeld'
  BY DEF Typed, LockHeld, PushEvent, readVars, writeVars, freeVars, outVars, eventVars,
     closeVars
<1>3. CloserOrder'
  BY DEF Typed, CloserOrder, PushEvent, readVars, writeVars, freeVars, outVars, eventVars,
     closeVars
<1>4. PushNeverBlocks'
  BY ConnAssumption DEF Typed, PushNeverBlocks, PushEvent, readVars, writeVars, freeVars,
     outVars, eventVars, closeVars
<1>5. LateWrite' /\ NothingLost'
  BY QuietStep DEF PushEvent, readVars, writeVars, freeVars, outVars, eventVars, closeVars
<1> QED
  BY <1>1, <1>2, <1>3, <1>4, <1>5

(* PushDropOldest preserves the inductive invariant. *)
LEMMA PushDropOldestStep ==
    ASSUME IndInv, PushDropOldest
    PROVE  IndInv'
<1> USE DEF IndInv
<1>1. Typed'
  BY ConnAssumption DEF Typed, PushDropOldest, readVars, writeVars, freeVars, outVars,
     eventVars, closeVars
<1>2. LockHeld'
  BY DEF Typed, LockHeld, PushDropOldest, readVars, writeVars, freeVars, outVars,
     eventVars, closeVars
<1>3. CloserOrder'
  BY DEF Typed, CloserOrder, PushDropOldest, readVars, writeVars, freeVars, outVars,
     eventVars, closeVars
<1>4. PushNeverBlocks'
  BY ConnAssumption DEF Typed, PushNeverBlocks, PushDropOldest, readVars, writeVars,
     freeVars, outVars, eventVars, closeVars
<1>5. LateWrite' /\ NothingLost'
  BY QuietStep DEF PushDropOldest, readVars, writeVars, freeVars, outVars, eventVars,
     closeVars
<1> QED
  BY <1>1, <1>2, <1>3, <1>4, <1>5

(* PushResend preserves the inductive invariant. *)
LEMMA PushResendStep ==
    ASSUME IndInv, PushResend
    PROVE  IndInv'
<1> USE DEF IndInv
<1>1. Typed'
  BY ConnAssumption DEF Typed, PushResend, readVars, writeVars, freeVars, outVars,
     eventVars, closeVars
<1>2. LockHeld'
  BY DEF Typed, LockHeld, PushResend, readVars, writeVars, freeVars, outVars, eventVars,
     closeVars
<1>3. CloserOrder'
  BY DEF Typed, CloserOrder, PushResend, readVars, writeVars, freeVars, outVars, eventVars,
     closeVars
<1>4. PushNeverBlocks'
  BY ConnAssumption DEF Typed, PushNeverBlocks, PushResend, readVars, writeVars, freeVars,
     outVars, eventVars, closeVars
<1>5. LateWrite' /\ NothingLost'
  BY QuietStep DEF PushResend, readVars, writeVars, freeVars, outVars, eventVars, closeVars
<1> QED
  BY <1>1, <1>2, <1>3, <1>4, <1>5

(* ReadReturn preserves the inductive invariant. *)
LEMMA ReadReturnStep ==
    ASSUME IndInv, ReadReturn
    PROVE  IndInv'
<1> USE DEF IndInv
<1>1. Typed'
  BY ConnAssumption DEF Typed, ReadReturn, readVars, writeVars, freeVars, outVars,
     eventVars, closeVars
<1>2. LockHeld'
  BY DEF Typed, LockHeld, ReadReturn, readVars, writeVars, freeVars, outVars, eventVars,
     closeVars
<1>3. CloserOrder'
  BY DEF Typed, CloserOrder, ReadReturn, readVars, writeVars, freeVars, outVars, eventVars,
     closeVars
<1>4. PushNeverBlocks'
  BY ConnAssumption DEF Typed, PushNeverBlocks, ReadReturn, readVars, writeVars, freeVars,
     outVars, eventVars, closeVars
<1>5. LateWrite' /\ NothingLost'
  BY QuietStep DEF ReadReturn, readVars, writeVars, freeVars, outVars, eventVars, closeVars
<1> QED
  BY <1>1, <1>2, <1>3, <1>4, <1>5

(* FlushLock preserves the inductive invariant. *)
LEMMA FlushLockStep ==
    ASSUME IndInv, FlushLock
    PROVE  IndInv'
<1> USE DEF IndInv
<1>1. Typed'
  BY ConnAssumption DEF Typed, FlushLock, writeRest, readVars, writeVars, freeVars,
     outVars, eventVars, closeVars
<1>2. LockHeld'
  BY DEF Typed, LockHeld, FlushLock, writeRest, readVars, writeVars, freeVars, outVars,
     eventVars, closeVars
<1>3. CloserOrder'
  BY DEF Typed, CloserOrder, FlushLock, writeRest, readVars, writeVars, freeVars, outVars,
     eventVars, closeVars
<1>4. PushNeverBlocks'
  BY ConnAssumption DEF Typed, PushNeverBlocks, FlushLock, writeRest, readVars, writeVars,
     freeVars, outVars, eventVars, closeVars
<1>5. LateWrite' /\ NothingLost'
  BY DEF LateWrite, NothingLost, Out, FlushLock, writeRest, readVars, writeVars, freeVars,
     outVars, eventVars, closeVars
<1> QED
  BY <1>1, <1>2, <1>3, <1>4, <1>5

(* Dispatch preserves the inductive invariant. *)
LEMMA DispatchStep ==
    ASSUME IndInv, Dispatch
    PROVE  IndInv'
<1> USE DEF IndInv
<1>1. Typed'
  BY ConnAssumption DEF Typed, Dispatch, dispatchRest, readVars, writeVars, freeVars,
     outVars, eventVars, closeVars
<1>2. LockHeld'
  BY DEF Typed, LockHeld, Dispatch, dispatchRest, readVars, writeVars, freeVars, outVars,
     eventVars, closeVars
<1>3. CloserOrder'
  BY DEF Typed, CloserOrder, Dispatch, dispatchRest, readVars, writeVars, freeVars,
     outVars, eventVars, closeVars
<1>4. PushNeverBlocks'
  BY ConnAssumption DEF Typed, PushNeverBlocks, Dispatch, dispatchRest, readVars,
     writeVars, freeVars, outVars, eventVars, closeVars
<1>5. LateWrite' /\ NothingLost'
  BY QuietStep DEF Dispatch, dispatchRest, readVars, writeVars, freeVars, outVars,
     eventVars, closeVars
<1> QED
  BY <1>1, <1>2, <1>3, <1>4, <1>5

(* CallbackReturns preserves the inductive invariant. *)
LEMMA CallbackReturnsStep ==
    ASSUME IndInv, CallbackReturns
    PROVE  IndInv'
<1> USE DEF IndInv
<1>1. Typed'
  BY ConnAssumption DEF Typed, CallbackReturns, dispatchRest, readVars, writeVars,
     freeVars, outVars, eventVars, closeVars
<1>2. LockHeld'
  BY DEF Typed, LockHeld, CallbackReturns, dispatchRest, readVars, writeVars, freeVars,
     outVars, eventVars, closeVars
<1>3. CloserOrder'
  BY DEF Typed, CloserOrder, CallbackReturns, dispatchRest, readVars, writeVars, freeVars,
     outVars, eventVars, closeVars
<1>4. PushNeverBlocks'
  BY ConnAssumption DEF Typed, PushNeverBlocks, CallbackReturns, dispatchRest, readVars,
     writeVars, freeVars, outVars, eventVars, closeVars
<1>5. LateWrite' /\ NothingLost'
  BY QuietStep DEF CallbackReturns, dispatchRest, readVars, writeVars, freeVars, outVars,
     eventVars, closeVars
<1> QED
  BY <1>1, <1>2, <1>3, <1>4, <1>5

(* WriteCheck preserves the inductive invariant. *)
LEMMA WriteCheckStep ==
    ASSUME IndInv, WriteCheck
    PROVE  IndInv'
<1> USE DEF IndInv
<1>1. Typed'
  BY ConnAssumption DEF Typed, WriteCheck, writeRest, readVars, writeVars, freeVars,
     outVars, eventVars, closeVars
<1>2. LockHeld'
  BY DEF Typed, LockHeld, WriteCheck, writeRest, readVars, writeVars, freeVars, outVars,
     eventVars, closeVars
<1>3. CloserOrder'
  BY DEF Typed, CloserOrder, WriteCheck, writeRest, readVars, writeVars, freeVars, outVars,
     eventVars, closeVars
<1>4. PushNeverBlocks'
  BY ConnAssumption DEF Typed, PushNeverBlocks, WriteCheck, writeRest, readVars, writeVars,
     freeVars, outVars, eventVars, closeVars
<1>5. LateWrite'
  BY DEF Typed, CloserOrder, LateWrite, Out, WriteCheck, writeRest, readVars, writeVars,
     freeVars, outVars, eventVars, closeVars
<1>6. NothingLost'
  BY DEF Typed, CloserOrder, LateWrite, NothingLost, Out, WriteCheck, writeRest, readVars,
     writeVars, freeVars, outVars, eventVars, closeVars
<1> QED
  BY <1>1, <1>2, <1>3, <1>4, <1>5, <1>6

(* WriteLock preserves the inductive invariant. *)
LEMMA WriteLockStep ==
    ASSUME IndInv, WriteLock
    PROVE  IndInv'
<1> USE DEF IndInv
<1>1. Typed'
  BY ConnAssumption DEF Typed, WriteLock, writeRest, readVars, writeVars, freeVars,
     outVars, eventVars, closeVars
<1>2. LockHeld'
  BY DEF Typed, LockHeld, WriteLock, writeRest, readVars, writeVars, freeVars, outVars,
     eventVars, closeVars
<1>3. CloserOrder'
  BY DEF Typed, CloserOrder, WriteLock, writeRest, readVars, writeVars, freeVars, outVars,
     eventVars, closeVars
<1>4. PushNeverBlocks'
  BY ConnAssumption DEF Typed, PushNeverBlocks, WriteLock, writeRest, readVars, writeVars,
     freeVars, outVars, eventVars, closeVars
<1>5. LateWrite'
  BY DEF Typed, CloserOrder, LateWrite, Out, WriteLock, writeRest, readVars, writeVars,
     freeVars, outVars, eventVars, closeVars
<1>6. NothingLost'
  BY DEF Typed, CloserOrder, LateWrite, NothingLost, Out, WriteLock, writeRest, readVars,
     writeVars, freeVars, outVars, eventVars, closeVars
<1> QED
  BY <1>1, <1>2, <1>3, <1>4, <1>5, <1>6

(* CloseBegins preserves the inductive invariant. *)
LEMMA CloseBeginsStep ==
    ASSUME IndInv, CloseBegins
    PROVE  IndInv'
<1> USE DEF IndInv
<1>1. Typed'
  BY ConnAssumption DEF Typed, CloseBegins, Step, closeRest, readVars, writeVars, freeVars,
     outVars, eventVars, closeVars
<1>2. LockHeld'
  BY DEF Typed, LockHeld, CloseBegins, Step, closeRest, readVars, writeVars, freeVars,
     outVars, eventVars, closeVars
<1>3. CloserOrder'
  BY DEF Typed, CloserOrder, CloseBegins, Step, closeRest, readVars, writeVars, freeVars,
     outVars, eventVars, closeVars
<1>4. PushNeverBlocks'
  BY ConnAssumption DEF Typed, PushNeverBlocks, CloseBegins, Step, closeRest, readVars,
     writeVars, freeVars, outVars, eventVars, closeVars
<1>5. LateWrite'
  BY DEF Typed, CloserOrder, LateWrite, Out, CloseBegins, Step, closeRest, readVars,
     writeVars, freeVars, outVars, eventVars, closeVars
<1>6. NothingLost'
  BY DEF Typed, CloserOrder, LateWrite, NothingLost, Out, CloseBegins, Step, closeRest,
     readVars, writeVars, freeVars, outVars, eventVars, closeVars
<1> QED
  BY <1>1, <1>2, <1>3, <1>4, <1>5, <1>6

(* CloseFlushLock preserves the inductive invariant. *)
LEMMA CloseFlushLockStep ==
    ASSUME IndInv, CloseFlushLock
    PROVE  IndInv'
<1> USE DEF IndInv
<1>1. Typed'
  BY ConnAssumption DEF Typed, CloseFlushLock, Step, closeRest, readVars, writeVars,
     freeVars, outVars, eventVars, closeVars
<1>2. LockHeld'
  BY DEF Typed, LockHeld, CloseFlushLock, Step, closeRest, readVars, writeVars, freeVars,
     outVars, eventVars, closeVars
<1>3. CloserOrder'
  BY DEF Typed, CloserOrder, CloseFlushLock, Step, closeRest, readVars, writeVars,
     freeVars, outVars, eventVars, closeVars
<1>4. PushNeverBlocks'
  BY ConnAssumption DEF Typed, PushNeverBlocks, CloseFlushLock, Step, closeRest, readVars,
     writeVars, freeVars, outVars, eventVars, closeVars
<1>5. LateWrite'
  BY DEF Typed, CloserOrder, LateWrite, Out, CloseFlushLock, Step, closeRest, readVars,
     writeVars, freeVars, outVars, eventVars, closeVars
<1>6. NothingLost'
  BY DEF Typed, CloserOrder, LateWrite, NothingLost, Out, CloseFlushLock, Step, closeRest,
     readVars, writeVars, freeVars, outVars, eventVars, closeVars
<1> QED
  BY <1>1, <1>2, <1>3, <1>4, <1>5, <1>6

(* CloseSignal preserves the inductive invariant. *)
LEMMA CloseSignalStep ==
    ASSUME IndInv, CloseSignal
    PROVE  IndInv'
<1> USE DEF IndInv
<1>1. Typed'
  BY ConnAssumption DEF Typed, CloseSignal, Step, closeRest, readVars, writeVars, freeVars,
     outVars, eventVars, closeVars
<1>2. LockHeld'
  BY DEF Typed, LockHeld, CloseSignal, Step, closeRest, readVars, writeVars, freeVars,
     outVars, eventVars, closeVars
<1>3. CloserOrder'
  BY DEF Typed, CloserOrder, CloseSignal, Step, closeRest, readVars, writeVars, freeVars,
     outVars, eventVars, closeVars
<1>4. PushNeverBlocks'
  BY ConnAssumption DEF Typed, PushNeverBlocks, CloseSignal, Step, closeRest, readVars,
     writeVars, freeVars, outVars, eventVars, closeVars
<1>5. LateWrite'
  BY DEF Typed, CloserOrder, LateWrite, Out, CloseSignal, Step, closeRest, readVars,
     writeVars, freeVars, outVars, eventVars, closeVars
<1>6. NothingLost'
  BY DEF Typed, CloserOrder, LateWrite, NothingLost, Out, CloseSignal, Step, closeRest,
     readVars, writeVars, freeVars, outVars, eventVars, closeVars
<1> QED
  BY <1>1, <1>2, <1>3, <1>4, <1>5, <1>6

(* CloseWait preserves the inductive invariant. *)
LEMMA CloseWaitStep ==
    ASSUME IndInv, CloseWait
    PROVE  IndInv'
<1> USE DEF IndInv
<1>1. Typed'
  BY ConnAssumption DEF Typed, CloseWait, Step, closeRest, readVars, writeVars, freeVars,
     outVars, eventVars, closeVars
<1>2. LockHeld'
  BY DEF Typed, LockHeld, CloseWait, Step, closeRest, readVars, writeVars, freeVars,
     outVars, eventVars, closeVars
<1>3. CloserOrder'
  BY DEF Typed, CloserOrder, CloseWait, Step, closeRest, readVars, writeVars, freeVars,
     outVars, eventVars, closeVars
<1>4. PushNeverBlocks'
  BY ConnAssumption DEF Typed, PushNeverBlocks, CloseWait, Step, closeRest, readVars,
     writeVars, freeVars, outVars, eventVars, closeVars
<1>5. LateWrite'
  BY DEF Typed, CloserOrder, LateWrite, Out, CloseWait, Step, closeRest, readVars,
     writeVars, freeVars, outVars, eventVars, closeVars
<1>6. NothingLost'
  BY DEF Typed, CloserOrder, LateWrite, NothingLost, Out, CloseWait, Step, closeRest,
     readVars, writeVars, freeVars, outVars, eventVars, closeVars
<1> QED
  BY <1>1, <1>2, <1>3, <1>4, <1>5, <1>6

(* CloseRingLock preserves the inductive invariant. *)
LEMMA CloseRingLockStep ==
    ASSUME IndInv, CloseRingLock
    PROVE  IndInv'
<1> USE DEF IndInv
<1>1. Typed'
  BY ConnAssumption DEF Typed, CloseRingLock, Step, closeRest, readVars, writeVars,
     freeVars, outVars, eventVars, closeVars
<1>2. LockHeld'
  BY DEF Typed, LockHeld, CloseRingLock, Step, closeRest, readVars, writeVars, freeVars,
     outVars, eventVars, closeVars
<1>3. CloserOrder'
  BY DEF Typed, CloserOrder, CloseRingLock, Step, closeRest, readVars, writeVars, freeVars,
     outVars, eventVars, closeVars
<1>4. PushNeverBlocks'
  BY ConnAssumption DEF Typed, PushNeverBlocks, CloseRingLock, Step, closeRest, readVars,
     writeVars, freeVars, outVars, eventVars, closeVars
<1>5. LateWrite'
  BY DEF Typed, CloserOrder, LateWrite, Out, CloseRingLock, Step, closeRest, readVars,
     writeVars, freeVars, outVars, eventVars, closeVars
<1>6. NothingLost'
  BY DEF Typed, CloserOrder, LateWrite, NothingLost, Out, CloseRingLock, Step, closeRest,
     readVars, writeVars, freeVars, outVars, eventVars, closeVars
<1> QED
  BY <1>1, <1>2, <1>3, <1>4, <1>5, <1>6

(* CloseFreeRing preserves the inductive invariant. *)
LEMMA CloseFreeRingStep ==
    ASSUME IndInv, CloseFreeRing
    PROVE  IndInv'
<1> USE DEF IndInv
<1>1. Typed'
  BY ConnAssumption DEF Typed, CloseFreeRing, Step, closeRest, readVars, writeVars,
     freeVars, outVars, eventVars, closeVars
<1>2. LockHeld'
  BY DEF Typed, LockHeld, CloseFreeRing, Step, closeRest, readVars, writeVars, freeVars,
     outVars, eventVars, closeVars
<1>3. CloserOrder'
  BY DEF Typed, CloserOrder, CloseFreeRing, Step, closeRest, readVars, writeVars, freeVars,
     outVars, eventVars, closeVars
<1>4. PushNeverBlocks'
  BY ConnAssumption DEF Typed, PushNeverBlocks, CloseFreeRing, Step, closeRest, readVars,
     writeVars, freeVars, outVars, eventVars, closeVars
<1>5. LateWrite'
  BY DEF Typed, CloserOrder, LateWrite, Out, CloseFreeRing, Step, closeRest, readVars,
     writeVars, freeVars, outVars, eventVars, closeVars
<1>6. NothingLost'
  BY DEF Typed, CloserOrder, LateWrite, NothingLost, Out, CloseFreeRing, Step, closeRest,
     readVars, writeVars, freeVars, outVars, eventVars, closeVars
<1> QED
  BY <1>1, <1>2, <1>3, <1>4, <1>5, <1>6

(* CloseWbufLock preserves the inductive invariant. *)
LEMMA CloseWbufLockStep ==
    ASSUME IndInv, CloseWbufLock
    PROVE  IndInv'
<1> USE DEF IndInv
<1>1. Typed'
  BY ConnAssumption DEF Typed, CloseWbufLock, Step, closeRest, readVars, writeVars,
     freeVars, outVars, eventVars, closeVars
<1>2. LockHeld'
  BY DEF Typed, LockHeld, CloseWbufLock, Step, closeRest, readVars, writeVars, freeVars,
     outVars, eventVars, closeVars
<1>3. CloserOrder'
  BY DEF Typed, CloserOrder, CloseWbufLock, Step, closeRest, readVars, writeVars, freeVars,
     outVars, eventVars, closeVars
<1>4. PushNeverBlocks'
  BY ConnAssumption DEF Typed, PushNeverBlocks, CloseWbufLock, Step, closeRest, readVars,
     writeVars, freeVars, outVars, eventVars, closeVars
<1>5. LateWrite'
  BY DEF Typed, CloserOrder, LateWrite, Out, CloseWbufLock, Step, closeRest, readVars,
     writeVars, freeVars, outVars, eventVars, closeVars
<1>6. NothingLost'
  BY DEF Typed, CloserOrder, LateWrite, NothingLost, Out, CloseWbufLock, Step, closeRest,
     readVars, writeVars, freeVars, outVars, eventVars, closeVars
<1> QED
  BY <1>1, <1>2, <1>3, <1>4, <1>5, <1>6

(* CloseFreeScratch preserves the inductive invariant. *)
LEMMA CloseFreeScratchStep ==
    ASSUME IndInv, CloseFreeScratch
    PROVE  IndInv'
<1> USE DEF IndInv
<1>1. Typed'
  BY ConnAssumption DEF Typed, CloseFreeScratch, Step, closeRest, readVars, writeVars,
     freeVars, outVars, eventVars, closeVars
<1>2. LockHeld'
  BY DEF Typed, LockHeld, CloseFreeScratch, Step, closeRest, readVars, writeVars, freeVars,
     outVars, eventVars, closeVars
<1>3. CloserOrder'
  BY DEF Typed, CloserOrder, CloseFreeScratch, Step, closeRest, readVars, writeVars,
     freeVars, outVars, eventVars, closeVars
<1>4. PushNeverBlocks'
  BY ConnAssumption DEF Typed, PushNeverBlocks, CloseFreeScratch, Step, closeRest,
     readVars, writeVars, freeVars, outVars, eventVars, closeVars
<1>5. LateWrite'
  BY DEF Typed, CloserOrder, LateWrite, Out, CloseFreeScratch, Step, closeRest, readVars,
     writeVars, freeVars, outVars, eventVars, closeVars
<1>6. NothingLost'
  BY DEF Typed, CloserOrder, LateWrite, NothingLost, Out, CloseFreeScratch, Step,
     closeRest, readVars, writeVars, freeVars, outVars, eventVars, closeVars
<1> QED
  BY <1>1, <1>2, <1>3, <1>4, <1>5, <1>6

(* CloseNet preserves the inductive invariant. *)
LEMMA CloseNetStep ==
    ASSUME IndInv, CloseNet
    PROVE  IndInv'
<1> USE DEF IndInv
<1>1. Typed'
  BY ConnAssumption DEF Typed, CloseNet, Step, closeRest, readVars, writeVars, freeVars,
     outVars, eventVars, closeVars
<1>2. LockHeld'
  BY DEF Typed, LockHeld, CloseNet, Step, closeRest, readVars, writeVars, freeVars,
     outVars, eventVars, closeVars
<1>3. CloserOrder'
  BY DEF Typed, CloserOrder, CloseNet, Step, closeRest, readVars, writeVars, freeVars,
     outVars, eventVars, closeVars
<1>4. PushNeverBlocks'
  BY ConnAssumption DEF Typed, PushNeverBlocks, CloseNet, Step, closeRest, readVars,
     writeVars, freeVars, outVars, eventVars, closeVars
<1>5. LateWrite'
  BY DEF Typed, CloserOrder, LateWrite, Out, CloseNet, Step, closeRest, readVars,
     writeVars, freeVars, outVars, eventVars, closeVars
<1>6. NothingLost'
  BY DEF Typed, CloserOrder, LateWrite, NothingLost, Out, CloseNet, Step, closeRest,
     readVars, writeVars, freeVars, outVars, eventVars, closeVars
<1> QED
  BY <1>1, <1>2, <1>3, <1>4, <1>5, <1>6

(* NetBreaks preserves the inductive invariant. *)
LEMMA NetBreaksStep ==
    ASSUME IndInv, NetBreaks
    PROVE  IndInv'
<1> USE DEF IndInv
<1>1. Typed'
  BY ConnAssumption DEF Typed, NetBreaks, readVars, writeVars, freeVars, outVars,
     eventVars, closeVars
<1>2. LockHeld'
  BY DEF Typed, LockHeld, NetBreaks, readVars, writeVars, freeVars, outVars, eventVars,
     closeVars
<1>3. CloserOrder'
  BY DEF Typed, CloserOrder, NetBreaks, readVars, writeVars, freeVars, outVars, eventVars,
     closeVars
<1>4. PushNeverBlocks'
  BY ConnAssumption DEF Typed, PushNeverBlocks, NetBreaks, readVars, writeVars, freeVars,
     outVars, eventVars, closeVars
<1>5. LateWrite'
  BY DEF Typed, CloserOrder, LateWrite, Out, NetBreaks, readVars, writeVars, freeVars,
     outVars, eventVars, closeVars
<1>6. NothingLost'
  BY DEF Typed, CloserOrder, LateWrite, NothingLost, Out, NetBreaks, readVars, writeVars,
     freeVars, outVars, eventVars, closeVars
<1> QED
  BY <1>1, <1>2, <1>3, <1>4, <1>5, <1>6

(* RespondSend preserves the inductive invariant. *)
LEMMA RespondSendStep ==
    ASSUME IndInv, RespondSend
    PROVE  IndInv'
<1> USE DEF IndInv
<1>0. /\ wire' \in Seq(Nat) /\ wbuf' \in Seq(Nat)
      /\ Out' = Out \/ Out' = Append(Out, 0)
      /\ wire' = wire \/ (net = "open" /\ wire' = Out)
  <2>1. CASE CanAppend
    BY <2>1, AppendEffect DEF RespondSend
  <2>2. CASE ~CanAppend
    BY <2>2 DEF RespondSend, outVars, Typed, Out
  <2> QED
    BY <2>1, <2>2
<1>1. Typed'
  BY <1>0, ConnAssumption DEF Typed, RespondSend, readVars, writeVars, freeVars, outVars,
     eventVars, closeVars
<1>2. LockHeld'
  BY DEF Typed, LockHeld, RespondSend, readVars, writeVars, freeVars, outVars, eventVars,
     closeVars
<1>3. CloserOrder'
  BY DEF Typed, CloserOrder, RespondSend, readVars, writeVars, freeVars, outVars,
     eventVars, closeVars
<1>4. PushNeverBlocks'
  BY ConnAssumption DEF Typed, PushNeverBlocks, RespondSend, readVars, writeVars, freeVars,
     outVars, eventVars, closeVars
<1>5. LateWrite'
  <2>1. Out \in Seq(Nat)
    BY DEF Typed, Out
  <2>2. UNCHANGED <<closed, due, wpc, written>>
    BY DEF RespondSend, writeVars, closeVars
  <2>3. \A k \in 1..Len(Out') : Out'[k] <= written
    <3>1. CASE Out' = Out
      BY <3>1 DEF LateWrite
    <3>2. CASE Out' = Append(Out, 0)
      BY <3>2, <2>1, Appended DEF LateWrite, Typed
    <3> QED
      BY <1>0, <3>1, <3>2
  <2> QED
    BY <2>2, <2>3 DEF LateWrite
<1>6. NothingLost'
  <2>1. Out \in Seq(Nat)
    BY DEF Typed, Out
  <2>2. UNCHANGED <<closed, due, cpc, net, written, wbufFreed>>
    BY DEF RespondSend, writeVars, freeVars, closeVars
  <2>3. net = "open" => Numbered(Out')
    BY <1>0, <2>1, ResponseAppend DEF NothingLost
  <2>4. net = "open" /\ ~wbufFreed => HasAll(Out', written)
    BY <1>0, <2>1, ResponseAppend DEF NothingLost, Typed
  <2>5. Numbered(wire')
    BY <1>0 DEF NothingLost
  <2>6. \A n \in Nat : HasAll(wire, n) => HasAll(wire', n)
    BY <1>0, HasAllPrefix DEF Typed, Out
  <2> QED
    BY <2>2, <2>3, <2>4, <2>5, <2>6 DEF NothingLost, Typed
<1> QED
  BY <1>1, <1>2, <1>3, <1>4, <1>5, <1>6

(* WriteData preserves the inductive invariant. *)
LEMMA WriteDataStep ==
    ASSUME IndInv, WriteData
    PROVE  IndInv'
<1> USE DEF IndInv
<1>0. /\ wire' \in Seq(Nat) /\ wbuf' \in Seq(Nat)
      /\ \/ Out' = Out /\ written' = written
         \/ Out' = Append(Out, written + 1) /\ written' = written + 1
      /\ wire' = wire \/ (net = "open" /\ wire' = Out)
  <2>1. CASE CanAppend
    <3>1. written + 1 \in Nat
      BY DEF Typed
    <3> QED
      BY <2>1, <3>1, AppendEffect DEF WriteData
  <2>2. CASE ~CanAppend
    BY <2>2 DEF WriteData, outVars, Typed, Out
  <2> QED
    BY <2>1, <2>2
<1>1. Typed'
  BY <1>0, ConnAssumption DEF Typed, WriteData, writeRest, readVars, writeVars, freeVars,
     outVars, eventVars, closeVars
<1>2. LockHeld'
  BY DEF Typed, LockHeld, WriteData, writeRest, readVars, writeVars, freeVars, outVars,
     eventVars, closeVars
<1>3. CloserOrder'
  BY DEF Typed, CloserOrder, WriteData, writeRest, readVars, writeVars, freeVars, outVars,
     eventVars, closeVars
<1>4. PushNeverBlocks'
  BY ConnAssumption DEF Typed, PushNeverBlocks, WriteData, writeRest, readVars, writeVars,
     freeVars, outVars, eventVars, closeVars
<1>5. LateWrite'
  <2>1. Out \in Seq(Nat)
    BY DEF Typed, Out
  <2>2. UNCHANGED <<closed, due>> /\ wpc' \in {"idle", "stopped"}
    BY DEF WriteData, writeRest, closeVars
  <2>3. \A k \in 1..Len(Out') : Out'[k] <= written'
    <3>1. CASE Out' = Out /\ written' = written
      BY <3>1 DEF LateWrite
    <3>2. CASE Out' = Append(Out, written + 1) /\ written' = written + 1
      <4>1. /\ Len(Out') = Len(Out) + 1 /\ Out'[Len(Out) + 1] = written + 1 /\ Len(Out) \in Nat
            /\ \A k \in 1..Len(Out) : Out'[k] = Out[k] /\ Out[k] \in Nat
        BY <2>1, <3>2, Appended DEF Typed
      <4>2. \A k \in 1..Len(Out') : k \in 1..Len(Out) \/ k = Len(Out) + 1
        BY <4>1
      <4>3. \A k \in 1..Len(Out) : Out[k] <= written /\ written \in Nat
        BY DEF LateWrite, Typed
      <4>4. \A k \in 1..Len(Out) : Out'[k] <= written + 1
        BY <4>1, <4>3
      <4> QED
        BY <3>2, <4>1, <4>2, <4>4 DEF Typed
    <3> QED
      BY <1>0, <3>1, <3>2
  <2>4. due \in Nat /\ written \in Nat /\ (written' = written \/ written' = written + 1)
    BY <1>0 DEF Typed
  <2> QED
    BY <2>2, <2>3, <2>4 DEF LateWrite
<1>6. NothingLost'
  <2>1. Out \in Seq(Nat) /\ wpc = "write" /\ due \in Nat /\ written \in Nat
    BY DEF Typed, Out, WriteData
  <2>2. UNCHANGED <<closed, due, cpc, net, wbufFreed>>
    BY DEF WriteData, writeRest, freeVars, closeVars
  <2>3. net = "open" => HasAll(Out, written)
    <3>1. CASE ~wbufFreed
      BY <3>1 DEF NothingLost
    <3>2. CASE wbufFreed /\ net = "open"
      <4>1. written = due /\ HasAll(wire, due)
        BY <2>1, <3>2 DEF CloserOrder, LateWrite, NothingLost
      <4> QED
        BY <2>1, <4>1, HasAllPrefix DEF Typed, Out
    <3> QED
      BY <3>1, <3>2
  <2>4. net = "open" => Numbered(Out') /\ HasAll(Out', written')
    BY <1>0, <2>1, <2>3, NumberedAppend DEF LateWrite, NothingLost
  <2>5. Numbered(wire')
    BY <1>0 DEF NothingLost
  <2>6. HasAll(wire, due) => HasAll(wire', due)
    BY <1>0, <2>1, HasAllPrefix DEF Typed, Out
  <2> QED
    BY <2>2, <2>4, <2>5, <2>6 DEF NothingLost
<1> QED
  BY <1>1, <1>2, <1>3, <1>4, <1>5, <1>6

(* FlushData preserves the inductive invariant. *)
LEMMA FlushDataStep ==
    ASSUME IndInv, FlushData
    PROVE  IndInv'
<1> USE DEF IndInv
<1>0. /\ wire' \in Seq(Nat) /\ wbuf' \in Seq(Nat)
      /\ Out' = Out
      /\ wire' = wire \/ (net = "open" /\ wire' = Out)
      /\ net = "open" => wire' = Out
  BY FlushEffect DEF FlushData
<1>1. Typed'
  BY <1>0, ConnAssumption DEF Typed, FlushData, writeRest, readVars, writeVars, freeVars,
     outVars, eventVars, closeVars
<1>2. LockHeld'
  BY DEF Typed, LockHeld, FlushData, writeRest, readVars, writeVars, freeVars, outVars,
     eventVars, closeVars
<1>3. CloserOrder'
  BY DEF Typed, CloserOrder, FlushData, writeRest, readVars, writeVars, freeVars, outVars,
     eventVars, closeVars
<1>4. PushNeverBlocks'
  BY ConnAssumption DEF Typed, PushNeverBlocks, FlushData, writeRest, readVars, writeVars,
     freeVars, outVars, eventVars, closeVars
<1>5. LateWrite'
  BY <1>0 DEF Typed, CloserOrder, LateWrite, Out, FlushData, writeRest, readVars,
     writeVars, freeVars, outVars, eventVars, closeVars
<1>6. NothingLost'
  <2>1. UNCHANGED <<closed, due, cpc, net, written, wbufFreed>> /\ due \in Nat
    BY DEF FlushData, writeRest, freeVars, closeVars, Typed
  <2>2. HasAll(wire, due) => HasAll(wire', due)
    BY <1>0, <2>1, HasAllPrefix DEF Typed, Out
  <2> QED
    BY <1>0, <2>1, <2>2 DEF NothingLost
<1> QED
  BY <1>1, <1>2, <1>3, <1>4, <1>5, <1>6

(* CloseFlush preserves the inductive invariant. *)
LEMMA CloseFlushStep ==
    ASSUME IndInv, CloseFlush
    PROVE  IndInv'
<1> USE DEF IndInv
<1>0. /\ wire' \in Seq(Nat) /\ wbuf' \in Seq(Nat)
      /\ Out' = Out
      /\ wire' = wire \/ (net = "open" /\ wire' = Out)
      /\ net = "open" => wire' = Out
  BY FlushEffect DEF CloseFlush
<1>1. Typed'
  BY <1>0, ConnAssumption DEF Typed, CloseFlush, Step, closeRest, readVars, writeVars,
     freeVars, outVars, eventVars, closeVars
<1>2. LockHeld'
  BY DEF Typed, LockHeld, CloseFlush, Step, closeRest, readVars, writeVars, freeVars,
     outVars, eventVars, closeVars
<1>3. CloserOrder'
  BY DEF Typed, CloserOrder, CloseFlush, Step, closeRest, readVars, writeVars, freeVars,
     outVars, eventVars, closeVars
<1>4. PushNeverBlocks'
  BY ConnAssumption DEF Typed, PushNeverBlocks, CloseFlush, Step, closeRest, readVars,
     writeVars, freeVars, outVars, eventVars, closeVars
<1>5. LateWrite'
  BY <1>0 DEF Typed, CloserOrder, LateWrite, Out, CloseFlush, Step, closeRest, readVars,
     writeVars, freeVars, outVars, eventVars, closeVars
<1>6. NothingLost'
  <2>1. /\ UNCHANGED <<closed, due, net, written, wbufFreed>> /\ cpc = "flush" /\ cpc' = "signal"
        /\ due \in Nat /\ written \in Nat
    BY DEF CloseFlush, Step, closeRest, writeVars, freeVars, Typed
  <2>2. net # "broken" => net = "open"
    BY <2>1 DEF CloserOrder, Typed
  <2>3. net = "open" => HasAll(Out, written) /\ due <= written
    BY <2>1 DEF CloserOrder, LateWrite, NothingLost
  <2>4. net # "broken" => HasAll(wire', due)
    BY <1>0, <2>1, <2>2, <2>3 DEF HasAll
  <2> QED
    BY <1>0, <2>1, <2>2, <2>4 DEF NothingLost
<1> QED
  BY <1>1, <1>2, <1>3, <1>4, <1>5, <1>6

(* CloseFreeWbuf preserves the inductive invariant. *)
LEMMA CloseFreeWbufStep ==
    ASSUME IndInv, CloseFreeWbuf
    PROVE  IndInv'
<1> USE DEF IndInv
<1>1. Typed'
  BY ConnAssumption DEF Typed, CloseFreeWbuf, Step, closeRest, readVars, writeVars,
     freeVars, outVars, eventVars, closeVars
<1>2. LockHeld'
  BY DEF Typed, LockHeld, CloseFreeWbuf, Step, closeRest, readVars, writeVars, freeVars,
     outVars, eventVars, closeVars
<1>3. CloserOrder'
  BY DEF Typed, CloserOrder, CloseFreeWbuf, Step, closeRest, readVars, writeVars, freeVars,
     outVars, eventVars, closeVars
<1>4. PushNeverBlocks'
  BY ConnAssumption DEF Typed, PushNeverBlocks, CloseFreeWbuf, Step, closeRest, readVars,
     writeVars, freeVars, outVars, eventVars, closeVars
<1>5. LateWrite'
  BY DEF Typed, CloserOrder, LateWrite, Out, CloseFreeWbuf, Step, closeRest, readVars,
     writeVars, freeVars, outVars, eventVars, closeVars
<1>6. NothingLost'
  BY DEF Typed, CloserOrder, LateWrite, NothingLost, Out, CloseFreeWbuf, Step, closeRest,
     readVars, writeVars, freeVars, outVars, eventVars, closeVars
<1> QED
  BY <1>1, <1>2, <1>3, <1>4, <1>5, <1>6
----------------------------------------------------------------------------
(* The initial state satisfies the inductive invariant. *)
LEMMA InitInd == Init => IndInv
<1> SUFFICES ASSUME Init PROVE IndInv
  OBVIOUS
<1>1. Typed /\ LockHeld /\ CloserOrder /\ PushNeverBlocks
  BY ConnAssumption DEF Init, Typed, LockHeld, CloserOrder, PushNeverBlocks
<1>2. Out = << >> /\ wire = << >> /\ Len(<< >>) = 0
  BY DEF Init, Out
<1>3. Numbered(<< >>) /\ HasAll(<< >>, 0)
  BY DEF Numbered, HasAll
<1>4. LateWrite /\ NothingLost
  BY <1>2, <1>3 DEF Init, LateWrite, NothingLost
<1> QED
  BY <1>1, <1>4 DEF IndInv

(* Every step of Next, and stuttering, preserves the inductive invariant. *)
LEMMA NextStep == IndInv /\ [Next]_vars => IndInv'
<1> SUFFICES ASSUME IndInv, [Next]_vars PROVE IndInv'
  OBVIOUS
<1>1. CASE Read
  BY <1>1, ReadCheckStep, ReadLockStep, ReadNetStep, ReadErrorStep, RespondStep, RespondLockStep,
     RespondSendStep, PushEventStep, PushDropOldestStep, PushResendStep, ReadReturnStep
     DEF Read
<1>2. CASE Write
  BY <1>2, WriteCheckStep, WriteLockStep, WriteDataStep, FlushLockStep, FlushDataStep DEF Write
<1>3. CASE Dispatch \/ CallbackReturns
  BY <1>3, DispatchStep, CallbackReturnsStep
<1>4. CASE Close
  BY <1>4, CloseBeginsStep, CloseFlushLockStep, CloseFlushStep, CloseSignalStep, CloseWaitStep,
     CloseRingLockStep, CloseFreeRingStep, CloseWbufLockStep, CloseFreeWbufStep,
     CloseFreeScratchStep, CloseNetStep
     DEF Close
<1>5. CASE NetBreaks
  BY <1>5, NetBreaksStep
<1>6. CASE UNCHANGED vars
  <2>1. Typed' /\ LockHeld' /\ CloserOrder' /\ PushNeverBlocks'
    BY <1>6 DEF IndInv, Typed, LockHeld, CloserOrder, PushNeverBlocks, vars, readVars, writeVars,
       freeVars, outVars, eventVars, closeVars
  <2>2. LateWrite' /\ NothingLost'
    BY <1>6, QuietStep DEF IndInv, vars, writeVars, freeVars, outVars, closeVars
  <2> QED
    BY <2>1, <2>2 DEF IndInv
<1> QED
  BY <1>1, <1>2, <1>3, <1>4, <1>5, <1>6 DEF Next
----------------------------------------------------------------------------
(* The inductive invariant holds of every behaviour of the connection. *)
LEMMA Invariant == Spec => []IndInv
BY InitInd, NextStep, PTL DEF Spec

(* At most one of two goroutines is between Lock and Unlock of a mutex:    *)
(* the reader and the closer of readMu, the reader's response, the writer  *)
(* and the closer of writeMu.                                              *)
MutualExclusion ==
    /\ ~ (rpc \in {"net", "respond", "sendlock", "send", "event", "makeroom", "resend", "return"}
          /\ cpc = "ring")
    /\ ~ (rpc = "send" /\ wpc \in {"write", "flush"})
    /\ ~ (rpc = "send" /\ cpc \in {"flush", "wbuf"})
    /\ ~ (wpc \in {"write", "flush"} /\ cpc \in {"flush", "wbuf"})

(* The ring and the write buffer are never used and freed at once: readMu  *)
(* and writeMu keep the reader, the writer and the closer apart.           *)
THEOREM LocksExclude == Spec => []MutualExclusion
<1>1. IndInv => MutualExclusion
  BY DEF IndInv, LockHeld, MutualExclusion
<1> QED
  BY <1>1, Invariant, PTL

(* The inner send of pushEvent always finds room, for every capacity of    *)
(* the event queue: Read never waits for a callback.                       *)
THEOREM PushNeverBlocksReader == Spec => []PushNeverBlocks
<1>1. IndInv => PushNeverBlocks
  BY DEF IndInv
<1> QED
  BY <1>1, Invariant, PTL

(* Nothing is freed and the socket is not closed before the last callback  *)
(* is over.                                                                *)
THEOREM CallbacksOverBeforeFree == Spec => []CallbacksOver
<1>1. IndInv => CallbacksOver
  BY DEF IndInv, CloserOrder, CallbacksOver
<1> QED
  BY <1>1, Invariant, PTL

(* What was written before Close is handed to the socket once, in order    *)
(* and completely, unless the connection breaks.                           *)
THEOREM WritesSurvive == Spec => []WritesSurviveClose
<1>1. IndInv => WritesSurviveClose
  BY DEF IndInv, CloserOrder, NothingLost, WritesSurviveClose
<1> QED
  BY <1>1, Invariant, PTL
============================================================================

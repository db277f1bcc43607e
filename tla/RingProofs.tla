----------------------------- MODULE RingProofs ----------------------------
(***************************************************************************)
(* Proofs about Ring for every set of bytes, every buffer size, every      *)
(* index width that is a multiple of the size, and slices of any length.   *)
(***************************************************************************)
EXTENDS Ring, SequenceTheorems, TLAPS

(* A remainder is determined by the equation that defines it.  It is what  *)
(* index & mask relies on when indices run over several laps of the buffer. *)
LEMMA ModUnique ==
    ASSUME NEW S \in Nat \ {0}, NEW q \in Int, NEW r \in 0..(S - 1)
    PROVE  (S * q + r) % S = r
<1> DEFINE x == S * q + r
           p == x \div S
           t == x % S
<1>0. x \in Int /\ p \in Int /\ t \in 0..(S - 1)
  OBVIOUS
<1>1. x = S * p + t
  OBVIOUS
<1>2. S * (q - p) = t - r
  BY <1>0, <1>1
<1> HIDE DEF p, t
<1>3. CASE q - p >= 1
  <2>1. S * (q - p) >= S
    BY <1>0, <1>3
  <2> QED
    BY <2>1, <1>0, <1>2
<1>4. CASE q - p <= -1
  <2>1. S * (q - p) <= -S
    BY <1>0, <1>4
  <2> QED
    BY <2>1, <1>0, <1>2
<1>5. CASE q - p = 0
  <2>1. t = r
    BY <1>0, <1>2, <1>5
  <2> QED
    BY <2>1 DEF t
<1> QED
  BY <1>0, <1>3, <1>4, <1>5

(* Adding a multiple of the size does not change the slot. *)
LEMMA ModShift ==
    ASSUME NEW S \in Nat \ {0}, NEW a \in Int, NEW q \in Int
    PROVE  (a + S * q) % S = a % S
<1> DEFINE d == a \div S
           t == a % S
<1>1. d \in Int /\ t \in 0..(S - 1) /\ a = S * d + t
  OBVIOUS
<1> HIDE DEF d, t
<1>2. a + S * q = S * (d + q) + t
  BY <1>1
<1>3. (S * (d + q) + t) % S = t
  BY <1>1, ModUnique
<1> QED
  BY <1>2, <1>3 DEF t

(* Values less than a lap apart have different remainders. *)
LEMMA ModDistinct ==
    ASSUME NEW S \in Nat \ {0}, NEW a \in Int, NEW b \in Int,
           a < b, b - a < S
    PROVE  a % S # b % S
<1> DEFINE d == a \div S
           e == b \div S
           t == a % S
<1>1. d \in Int /\ e \in Int /\ t \in 0..(S - 1) /\ a = S * d + t
  OBVIOUS
<1>2. b = S * e + (b % S)
  OBVIOUS
<1> HIDE DEF d, e, t
<1>3. SUFFICES ASSUME b % S = t PROVE FALSE
  BY DEF t
<1>4. b - a = S * (e - d)
  BY <1>1, <1>2, <1>3
<1>5. CASE e - d >= 1
  <2>1. S * (e - d) >= S
    BY <1>1, <1>5
  <2> QED
    BY <2>1, <1>4
<1>6. CASE e - d <= 0
  <2>1. S * (e - d) <= 0
    BY <1>1, <1>6
  <2> QED
    BY <2>1, <1>4
<1> QED
  BY <1>1, <1>5, <1>6

(* An index width that is a multiple of the size is positive. *)
LEMMA IndexModPos == /\ IndexMod \in Nat \ {0}
                     /\ Size <= IndexMod
<1>1. PICK k \in 1..IndexMod : IndexMod = k * Size
  BY SizeAssumption
<1>2. k * Size >= Size
  BY <1>1, SizeAssumption
<1> QED
  BY <1>1, <1>2, SizeAssumption

(* The constants as the arithmetic steps use them. *)
LEMMA Consts == /\ Size \in Nat \ {0} /\ Size \in Nat
                /\ IndexMod \in Nat /\ IndexMod >= 1 /\ Size <= IndexMod
                /\ mask \in Nat /\ mask = Size - 1 /\ mask < IndexMod
  BY IndexModPos, SizeAssumption DEF mask

(* Slots count from an index wrapped to 32 bits as from the unwrapped one. *)
LEMMA SlotOfWrapped ==
    ASSUME NEW a \in Int, NEW j \in Int
    PROVE  Slot((a % IndexMod) + j) = Slot(a + j)
<1>1. PICK k \in 1..IndexMod : IndexMod = k * Size
  BY SizeAssumption
<1> DEFINE q == a \div IndexMod
           t == a % IndexMod
<1>2. q \in Int /\ t \in Int /\ a = IndexMod * q + t
  BY IndexModPos
<1> HIDE DEF q, t
<1>3. IndexMod * q = Size * (k * q)
  BY <1>1, <1>2, SizeAssumption
<1>4. k * q \in Int /\ Size \in Nat \ {0} /\ Size * (k * q) \in Int /\ t + j \in Int
  BY <1>1, <1>2, SizeAssumption
<1>5. a + j = (t + j) + Size * (k * q)
  BY <1>2, <1>3, <1>4
<1>6. ((t + j) + Size * (k * q)) % Size = (t + j) % Size
  BY <1>4, ModShift
<1> QED
  BY <1>5, <1>6 DEF t, Slot

(* A slot is an index into buf. *)
LEMMA SlotRange ==
    ASSUME NEW a \in Int
    PROVE  /\ Slot(a) \in 0..mask
           /\ Slot(a) \in Nat
           /\ Slot(a) < Size
  BY SizeAssumption DEF Slot, mask

(* So is the slot of an index and an offset. *)
LEMMA SlotSumRange ==
    ASSUME NEW a \in Int, NEW j \in Int
    PROVE  Slot(a + j) \in 0..mask
<1>1. a + j \in Int
  OBVIOUS
<1> QED
  BY <1>1, SlotRange

(* Two indices less than a lap apart never share a slot. *)
LEMMA SlotDistinct ==
    ASSUME NEW a \in Int, NEW b \in Int, a < b, b - a < Size
    PROVE  Slot(a) # Slot(b)
  BY SizeAssumption, ModDistinct DEF Slot

(* Up to the end of the buffer, consecutive indices have consecutive slots. *)
LEMMA SlotContiguous ==
    ASSUME NEW a \in Int, NEW j \in Nat, Slot(a) + j < Size
    PROVE  Slot(a + j) = Slot(a) + j
<1> DEFINE d == a \div Size
           t == a % Size
<1>1. d \in Int /\ t \in 0..(Size - 1) /\ a = Size * d + t
  BY SizeAssumption
<1> HIDE DEF d, t
<1>2. t + j \in 0..(Size - 1)
  BY <1>1, SizeAssumption DEF Slot, t
<1>3. a + j = Size * d + (t + j)
  BY <1>1, SizeAssumption
<1>4. (Size * d + (t + j)) % Size = t + j
  BY <1>1, <1>2, SizeAssumption, ModUnique
<1> QED
  BY <1>3, <1>4 DEF Slot, t

(* Wrapping a sum to 32 bits does not change its slot. *)
LEMMA SlotAdd32 ==
    ASSUME NEW a \in Int, NEW j \in Int
    PROVE  Slot(Add32(a, j)) = Slot(a + j)
<1>1. a + j \in Int /\ (a + j) + 0 = a + j
      /\ ((a + j) % IndexMod) + 0 = (a + j) % IndexMod
  BY IndexModPos
<1>2. Slot(((a + j) % IndexMod) + 0) = Slot((a + j) + 0)
  BY <1>1, SlotOfWrapped
<1> QED
  BY <1>1, <1>2 DEF Add32

(* uint32 subtraction of two indices, and addition of less than a turn. *)
LEMMA Sub32Value ==
    ASSUME NEW w \in Index, NEW h \in Index
    PROVE  /\ Sub32(w, h) = IF w >= h THEN w - h ELSE w - h + IndexMod
           /\ Sub32(w, h) \in Index
<1>1. IndexMod \in Nat \ {0} /\ w \in 0..(IndexMod - 1) /\ h \in 0..(IndexMod - 1)
  BY IndexModPos DEF Index
<1>2. CASE w >= h
  <2>1. (w - h) % IndexMod = w - h
    BY <1>1, <1>2
  <2> QED
    BY <1>1, <1>2, <2>1 DEF Sub32, Index
<1>3. CASE w < h
  <2>1. (w - h) % IndexMod = w - h + IndexMod
    BY <1>1, <1>3
  <2> QED
    BY <1>1, <1>3, <2>1 DEF Sub32, Index
<1> QED
  BY <1>1, <1>2, <1>3

(* A wrapped sum is an index again. *)
LEMMA Add32Value ==
    ASSUME NEW w \in Index, NEW n \in Nat, n < IndexMod
    PROVE  /\ Add32(w, n) = IF w + n < IndexMod THEN w + n ELSE w + n - IndexMod
           /\ Add32(w, n) \in Index
<1>1. IndexMod \in Nat \ {0} /\ w \in 0..(IndexMod - 1)
  BY IndexModPos DEF Index
<1>2. CASE w + n < IndexMod
  <2>1. (w + n) % IndexMod = w + n
    BY <1>1, <1>2
  <2> QED
    BY <1>1, <1>2, <2>1 DEF Add32, Index
<1>3. CASE w + n >= IndexMod
  <2>1. (w + n) % IndexMod = w + n - IndexMod
    BY <1>1, <1>3
  <2> QED
    BY <1>1, <1>3, <2>1 DEF Add32, Index
<1> QED
  BY <1>1, <1>2, <1>3

(* Storing wtail + n adds n to the length, as long as it fits. *)
LEMMA LenAfterPublish ==
    ASSUME NEW w \in Index, NEW h \in Index, NEW n \in Nat,
           Sub32(w, h) + n < IndexMod
    PROVE  /\ Add32(w, n) \in Index
           /\ Sub32(Add32(w, n), h) = Sub32(w, h) + n
<1>1. IndexMod \in Nat \ {0} /\ w \in Int /\ h \in Int /\ 0 <= w /\ 0 <= h
      /\ w < IndexMod /\ h < IndexMod
  BY IndexModPos DEF Index
<1>2. Sub32(w, h) = IF w >= h THEN w - h ELSE w - h + IndexMod
  BY Sub32Value
<1>3. n < IndexMod
  BY <1>1, <1>2
<1>4. Add32(w, n) = IF w + n < IndexMod THEN w + n ELSE w + n - IndexMod
  BY <1>3, Add32Value
<1>5. Add32(w, n) \in Index
  BY <1>3, Add32Value
<1>6. Sub32(Add32(w, n), h) = IF Add32(w, n) >= h THEN Add32(w, n) - h
                              ELSE Add32(w, n) - h + IndexMod
  BY <1>5, Sub32Value
<1> QED
  BY <1>1, <1>2, <1>3, <1>4, <1>5, <1>6

(* Storing rhead + n takes n from the length. *)
LEMMA LenAfterRelease ==
    ASSUME NEW w \in Index, NEW h \in Index, NEW n \in Nat,
           n <= Sub32(w, h)
    PROVE  /\ Add32(h, n) \in Index
           /\ Sub32(w, Add32(h, n)) = Sub32(w, h) - n
<1>1. IndexMod \in Nat \ {0} /\ w \in Int /\ h \in Int /\ 0 <= w /\ 0 <= h
      /\ w < IndexMod /\ h < IndexMod
  BY IndexModPos DEF Index
<1>2. Sub32(w, h) = IF w >= h THEN w - h ELSE w - h + IndexMod
  BY Sub32Value
<1>3. n < IndexMod
  BY <1>1, <1>2
<1>4. Add32(h, n) = IF h + n < IndexMod THEN h + n ELSE h + n - IndexMod
  BY <1>3, Add32Value
<1>5. Add32(h, n) \in Index
  BY <1>3, Add32Value
<1>6. Sub32(w, Add32(h, n)) = IF w >= Add32(h, n) THEN w - Add32(h, n)
                              ELSE w - Add32(h, n) + IndexMod
  BY <1>5, Sub32Value
<1> QED
  BY <1>1, <1>2, <1>3, <1>4, <1>5, <1>6

(* The producer's slots, counted from the consumer's index. *)
LEMMA TailSlot ==
    ASSUME NEW w \in Index, NEW h \in Index, NEW j \in Nat
    PROVE  Slot(w + j) = Slot(h + (Sub32(w, h) + j))
<1>1. IndexMod \in Nat \ {0} /\ w \in Int /\ h \in Int /\ 0 <= w /\ 0 <= h
      /\ w < IndexMod /\ h < IndexMod
  BY IndexModPos DEF Index
<1>2. Sub32(w, h) = IF w >= h THEN w - h ELSE w - h + IndexMod
  BY Sub32Value
<1>3. CASE w >= h
  BY <1>1, <1>2, <1>3
<1>4. CASE w < h
  <2>1. PICK k \in 1..IndexMod : IndexMod = k * Size
    BY SizeAssumption
  <2>2. h + (Sub32(w, h) + j) = (w + j) + Size * k
    BY <1>1, <1>2, <1>4, <2>1, SizeAssumption
  <2>3. w + j \in Int /\ k \in Int /\ Size \in Nat \ {0}
    BY <1>1, <2>1, SizeAssumption
  <2>4. ((w + j) + Size * k) % Size = (w + j) % Size
    BY <2>3, ModShift
  <2> QED
    BY <2>2, <2>4 DEF Slot
<1> QED
  BY <1>1, <1>3, <1>4
----------------------------------------------------------------------------
(* Len is below the number of index values. *)
LEMMA LenRange == TypeOK => RingLen \in Nat /\ RingLen < IndexMod
<1>1. TypeOK => RingLen \in Index
  BY Sub32Value DEF TypeOK, RingLen
<1> QED
  BY <1>1, IndexModPos DEF Index

(* What the type invariant says in the terms the proofs below use. *)
LEMMA Types ==
    ASSUME TypeOK
    PROVE  /\ rhead \in Index /\ wtail \in Index
           /\ rhead \in Int /\ wtail \in Int
           /\ RingLen \in Nat /\ RingLen < IndexMod
           /\ wp \in Seq(Byte) /\ Len(wp) \in Nat /\ wi \in Nat
           /\ rp \in Seq(Byte) /\ Len(rp) \in Nat /\ rn \in Nat
           /\ DOMAIN buf = 0..mask
           /\ \A k \in Nat : k < Len(wp) => wp[k + 1] \in Byte
           /\ \A a \in Int : buf[Slot(a)] \in Byte
<1>1. rhead \in Index /\ wtail \in Index /\ buf \in [0..mask -> Byte]
      /\ wp \in Seq(Byte) /\ wi \in Nat /\ rp \in Seq(Byte) /\ rn \in Nat
  BY DEF TypeOK
<1>2. rhead \in Int /\ wtail \in Int
  BY <1>1, Consts DEF Index
<1>3. \A a \in Int : Slot(a) \in 0..mask
  BY SlotRange
<1>4. \A a \in Int : buf[Slot(a)] \in Byte
  BY <1>1, <1>3
<1>5. \A k \in Nat : k < Len(wp) => wp[k + 1] \in Byte
  BY <1>1
<1> QED
  BY <1>1, <1>2, <1>4, <1>5, LenRange

(* The slots still to be written by the producer hold neither a published  *)
(* byte nor one it has already copied.                                     *)
LEMMA Untouched ==
    ASSUME IndInv, wpc = "copy",
           NEW k \in wi..(Len(wp) - 1)
    PROVE  /\ k \in Nat
           /\ \A j \in 0..(RingLen - 1) : Slot(rhead + j) # Slot(wtail + k)
           /\ \A j \in 0..(k - 1) : Slot(wtail + j) # Slot(wtail + k)
<1>1. /\ rhead \in Index /\ wtail \in Index /\ RingLen \in Nat
      /\ rhead \in Int /\ wtail \in Int
      /\ wi \in Nat /\ Len(wp) \in Nat
      /\ RingLen + Len(wp) < Size
      /\ Size \in Nat
  BY Types, Consts DEF IndInv, ProducerOK
<1>2. k \in Nat /\ RingLen + k < Size
  BY <1>1
<1>3. Slot(wtail + k) = Slot(rhead + (RingLen + k))
  BY <1>1, <1>2, TailSlot DEF RingLen
<1>4. ASSUME NEW j \in 0..(RingLen - 1) PROVE Slot(rhead + j) # Slot(wtail + k)
  <2> DEFINE a == rhead + j
             b == rhead + (RingLen + k)
  <2>1. a \in Int /\ b \in Int /\ a < b /\ b - a < Size
    BY <1>1, <1>2
  <2> HIDE DEF a, b
  <2>2. Slot(a) # Slot(b)
    BY <2>1, SlotDistinct
  <2> QED
    BY <1>3, <2>2 DEF a, b
<1>5. ASSUME NEW j \in 0..(k - 1) PROVE Slot(wtail + j) # Slot(wtail + k)
  <2> DEFINE a == wtail + j
             b == wtail + k
  <2>1. a \in Int /\ b \in Int /\ a < b /\ b - a < Size
    BY <1>1, <1>2
  <2> HIDE DEF a, b
  <2>2. Slot(a) # Slot(b)
    BY <2>1, SlotDistinct
  <2> QED
    BY <2>2 DEF a, b
<1> QED
  BY <1>2, <1>4, <1>5

(* RaceFree follows from the inductive invariant in every state. *)
LEMMA IndInvRaceFree == IndInv => RaceFree
<1> SUFFICES ASSUME IndInv, wpc = "copy",
                    NEW k \in wi..(Len(wp) - 1)
             PROVE  Slot(Add32(wtail, k)) \notin Readable
  BY DEF RaceFree
<1>1. wtail \in Int /\ k \in Int
  BY Untouched, Types DEF IndInv
<1>2. Slot(Add32(wtail, k)) = Slot(wtail + k)
  BY <1>1, SlotAdd32
<1> QED
  BY <1>2, Untouched DEF Readable

(* NewRing establishes the invariant. *)
LEMMA InitIndInv == Init => IndInv
<1> SUFFICES ASSUME Init PROVE IndInv
  OBVIOUS
<1>1. rhead \in Index /\ wtail \in Index
  BY IndexModPos DEF Init, Index
<1>2. RingLen = 0
  BY <1>1, Sub32Value DEF RingLen, Init
<1>3. TypeOK
  BY <1>1 DEF Init, TypeOK, NoBytes
<1> QED
  BY <1>2, <1>3, SizeAssumption
     DEF Init, IndInv, ProducerOK, ConsumerOK, mask

(* A step that leaves buf and the indices alone leaves the views alone. *)
LEMMA FrameLen ==
    ASSUME UNCHANGED <<rhead, wtail>>
    PROVE  RingLen' = RingLen
  BY DEF RingLen

(* What the consumer has claimed depends on its own variables, rhead, wtail and buf only. *)
LEMMA FrameConsumer ==
    ASSUME ConsumerOK, UNCHANGED <<shared, consumer, got>>
    PROVE  ConsumerOK'
  BY DEF ConsumerOK, View, RingLen, shared, consumer

(* What the producer has claimed depends on its own variables, the indices and buf only. *)
LEMMA FrameProducer ==
    ASSUME ProducerOK, UNCHANGED <<shared, producer>>
    PROVE  ProducerOK'
  BY DEF ProducerOK, RingLen, shared, producer

(* StartCopy keeps the invariant. *)
LEMMA StartCopyStep ==
    ASSUME IndInv, NEW p \in Seq(Byte), NEW err \in {"nil", "full"},
           Len(p) >= 1, RingLen + Len(p) <= mask, StartCopy(p, err)
    PROVE  IndInv'
<1>1. UNCHANGED <<shared, consumer, ack, got>> /\ UNCHANGED <<rhead, wtail>>
  BY DEF StartCopy, shared
<1>2. TypeOK'
  BY DEF IndInv, TypeOK, StartCopy, shared, consumer
<1>3. RingLen' = RingLen
  BY <1>1, FrameLen
<1>4. ProducerOK'
  BY <1>3 DEF StartCopy, ProducerOK
<1>5. ConsumerOK'
  BY <1>1, FrameConsumer DEF IndInv
<1> QED
  BY <1>2, <1>3, <1>4, <1>5 DEF IndInv, mask

(* ReportFull keeps the invariant. *)
LEMMA ReportFullStep ==
    ASSUME IndInv, ReportFull
    PROVE  IndInv'
<1>1. UNCHANGED <<shared, producer, consumer, got>> /\ UNCHANGED <<rhead, wtail>>
  BY DEF ReportFull, shared
<1>2. TypeOK'
  BY DEF IndInv, TypeOK, ReportFull, NoBytes, shared, producer, consumer
<1>3. RingLen' = RingLen
  BY <1>1, FrameLen
<1> QED
  BY <1>1, <1>2, <1>3, FrameConsumer, FrameProducer DEF IndInv, mask

(* Write keeps the invariant. *)
LEMMA WriteStep ==
    ASSUME IndInv, NEW p \in Slices, Write(p)
    PROVE  IndInv'
<1> DEFINE avail == mask - RingLen
           m == Lower(Len(p), avail)
<1>1. p \in Seq(Byte) /\ Len(p) \in Nat /\ Len(p) >= 1
  BY SizeAssumption DEF Slices
<1>2. RingLen \in Nat /\ mask \in Nat
  BY Types, Consts DEF IndInv
<1>3. CASE avail <= 0 /\ ReportFull
  BY <1>3, ReportFullStep
<1>4. CASE avail > 0 /\ StartCopy(Prefix(p, m), Cut(p, avail))
  <2>1. m \in 1..Len(p) /\ RingLen + m <= mask
    BY <1>1, <1>2, <1>4 DEF Lower
  <2> HIDE DEF m
  <2>2. Prefix(p, m) \in Seq(Byte) /\ Len(Prefix(p, m)) = m
    BY <1>1, <2>1 DEF Prefix
  <2>3. Len(Prefix(p, m)) >= 1 /\ RingLen + Len(Prefix(p, m)) <= mask
    BY <2>1, <2>2
  <2>4. Cut(p, avail) \in {"nil", "full"}
    BY DEF Cut
  <2> QED
    BY <1>4, <2>2, <2>3, <2>4, StartCopyStep
<1> QED
  BY <1>3, <1>4 DEF Write

(* WriteByte keeps the invariant. *)
LEMMA WriteByteStep ==
    ASSUME IndInv, NEW c \in Byte, WriteByte(c)
    PROVE  IndInv'
<1>1. RingLen \in Nat /\ mask \in Nat
  BY Types, Consts DEF IndInv
<1>2. <<c>> \in Seq(Byte) /\ Len(<<c>>) = 1
  OBVIOUS
<1>3. CASE RingLen >= mask /\ ReportFull
  BY <1>3, ReportFullStep
<1>4. CASE RingLen < mask /\ StartCopy(<<c>>, "nil")
  <2>1. Len(<<c>>) >= 1 /\ RingLen + Len(<<c>>) <= mask
    BY <1>1, <1>2, <1>4
  <2> QED
    BY <1>2, <1>4, <2>1, StartCopyStep
<1> QED
  BY <1>3, <1>4 DEF WriteByte

(* CopyIn keeps the invariant. *)
LEMMA CopyInStep ==
    ASSUME IndInv, CopyIn
    PROVE  IndInv'
<1> DEFINE k == wi
           s == Slot(wtail + k)
<1>1. /\ wpc = "copy" /\ k \in wi..(Len(wp) - 1)
      /\ k \in Int /\ k \in Nat /\ Len(wp) \in Nat /\ k < Len(wp)
      /\ wtail \in Int /\ rhead \in Int /\ RingLen \in Nat /\ mask \in Nat
      /\ wp[k + 1] \in Byte
  BY Types, Consts DEF CopyIn, IndInv
<1>2. s \in 0..mask
  BY <1>1, SlotSumRange
<1>3. Slot(Add32(wtail, k)) = s
  BY <1>1, SlotAdd32
<1>4. /\ buf' = [buf EXCEPT ![s] = wp[k + 1]]
      /\ wi' = k + 1
      /\ UNCHANGED <<rhead, wtail, wpc, wp, werr, rpc, rn, rp, ack, got>>
  BY <1>3 DEF CopyIn, consumer
<1>5. /\ \A j \in 0..(RingLen - 1) : Slot(rhead + j) # s
      /\ \A j \in 0..(k - 1) : Slot(wtail + j) # s
  BY <1>1, Untouched
<1> HIDE DEF k, s
<1>6. RingLen' = RingLen
  BY <1>4, FrameLen
<1>7. TypeOK'
  BY <1>1, <1>2, <1>4 DEF IndInv, TypeOK, mask
<1>8. /\ \A j \in 0..(RingLen - 1) : buf'[Slot(rhead + j)] = buf[Slot(rhead + j)]
      /\ \A j \in 0..(k - 1) : buf'[Slot(wtail + j)] = buf[Slot(wtail + j)]
      /\ buf'[s] = wp[k + 1]
  <2>1. buf \in [0..mask -> Byte]
    BY DEF IndInv, TypeOK
  <2>2. \A t \in 0..mask : t # s => buf'[t] = buf[t]
    BY <1>4, <2>1
  <2>3. ASSUME NEW j \in 0..(RingLen - 1)
        PROVE  Slot(rhead + j) \in 0..mask
    <3>1. j \in Int
      OBVIOUS
    <3> QED
      BY <1>1, <3>1, SlotSumRange
  <2>4. ASSUME NEW j \in 0..(k - 1)
        PROVE  Slot(wtail + j) \in 0..mask
    <3>1. j \in Int
      OBVIOUS
    <3> QED
      BY <1>1, <3>1, SlotSumRange
  <2> QED
    BY <1>2, <1>4, <1>5, <2>1, <2>2, <2>3, <2>4
<1>9. ProducerOK'
  <2>1. ASSUME NEW j \in 0..k PROVE buf'[Slot(wtail + j)] = wp[j + 1]
    <3>1. CASE j = k
      BY <1>8, <3>1 DEF s
    <3>2. CASE j \in 0..(k - 1)
      BY <1>1, <1>8, <3>2 DEF IndInv, ProducerOK, k
    <3> QED
      BY <1>1, <3>1, <3>2
  <2> QED
    BY <1>1, <1>4, <1>6, <2>1 DEF IndInv, ProducerOK, mask
<1>10. ConsumerOK'
  <2>1. ASSUME rpc \in {"read", "look"}
        PROVE  \A j \in 1..Len(rp) : rp[j] = buf'[Slot(rhead + (j - 1))]
    <3>1. /\ \A j \in 1..Len(rp) : rp[j] = buf[Slot(rhead + (j - 1))]
          /\ Len(rp) \in Nat /\ Len(rp) <= RingLen
      BY <1>1, <2>1, Types DEF IndInv, ConsumerOK
    <3>2. \A j \in 1..Len(rp) : j - 1 \in 0..(RingLen - 1)
      BY <1>1, <3>1
    <3> QED
      BY <1>8, <3>1, <3>2
  <2>2. ASSUME rpc = "peek"
        PROVE  got = View(rn)'
    <3>1. /\ rn \in 1..RingLen /\ rn \in Nat /\ Slot(rhead) + rn <= Size
          /\ got = View(rn)
      BY <1>1, <2>2 DEF IndInv, ConsumerOK
    <3>2. ASSUME NEW j \in 1..rn
          PROVE  buf'[Slot(rhead) + (j - 1)] = buf[Slot(rhead) + (j - 1)]
      <4>1. Slot(rhead) \in Nat
        BY <1>1, SlotRange
      <4>2. j - 1 \in Nat /\ j - 1 \in 0..(RingLen - 1) /\ Slot(rhead) + (j - 1) < Size
        BY <1>1, <3>1, <4>1, SizeAssumption
      <4>3. Slot(rhead + (j - 1)) = Slot(rhead) + (j - 1)
        BY <1>1, <4>2, SlotContiguous
      <4> QED
        BY <1>8, <4>2, <4>3
    <3> QED
      BY <1>4, <3>1, <3>2 DEF View
  <2> QED
    BY <1>4, <1>6, <2>1, <2>2 DEF IndInv, ConsumerOK
<1> QED
  BY <1>6, <1>7, <1>9, <1>10 DEF IndInv, mask

(* PublishTail keeps the invariant. *)
LEMMA PublishTailStep ==
    ASSUME IndInv, PublishTail
    PROVE  /\ IndInv'
           /\ RingLen' = RingLen + Len(wp)
<1>1. /\ Len(wp) \in Nat /\ RingLen \in Nat /\ mask \in Nat
      /\ wtail \in Index /\ rhead \in Index
      /\ RingLen + Len(wp) <= mask /\ mask < IndexMod
  BY Types, Consts DEF PublishTail, IndInv, ProducerOK
<1>2. wtail' = Add32(wtail, Len(wp)) /\ rhead' = rhead
  BY DEF PublishTail
<1>3. wtail' \in Index /\ RingLen' = RingLen + Len(wp)
  <2>1. Sub32(wtail, rhead) + Len(wp) < IndexMod
    BY <1>1, Consts DEF RingLen
  <2> QED
    BY <1>1, <1>2, <2>1, LenAfterPublish DEF RingLen
<1>4. TypeOK'
  BY <1>1, <1>3 DEF PublishTail, IndInv, TypeOK, NoBytes, consumer
<1>5. ProducerOK'
  BY DEF PublishTail, ProducerOK
<1>6. ConsumerOK'
  BY <1>1, <1>3 DEF PublishTail, IndInv, TypeOK, ConsumerOK, View, consumer
<1> QED
  BY <1>1, <1>3, <1>4, <1>5, <1>6 DEF IndInv, mask

(* Every consumer call but ReleaseHead leaves the ring and the producer alone. *)
LEMMA ConsumerStep ==
    ASSUME IndInv, UNCHANGED <<shared, producer, ack>>,
           rpc' \in {"idle", "read", "look", "skip", "peek"},
           rn' \in Nat, rp' \in Seq(Byte), got' \in Seq(Byte), ConsumerOK'
    PROVE  IndInv'
<1>1. RingLen' = RingLen
  BY FrameLen DEF shared
<1>2. TypeOK'
  BY DEF IndInv, TypeOK, shared, producer
<1>3. ProducerOK'
  BY FrameProducer DEF IndInv
<1> QED
  BY <1>1, <1>2, <1>3 DEF IndInv, mask

(* ReportEmpty keeps the invariant. *)
LEMMA ReportEmptyStep ==
    ASSUME IndInv, ReportEmpty
    PROVE  IndInv'
<1>1. UNCHANGED <<shared, producer, ack>>
  BY DEF ReportEmpty
<1>2. /\ rpc' = "idle" /\ rn' = 0 /\ rp' = << >> /\ got' = << >>
  BY DEF ReportEmpty, Return, NoBytes
<1>3. ConsumerOK'
  BY <1>2 DEF ConsumerOK
<1>4. << >> \in Seq(Byte)
  OBVIOUS
<1> QED
  BY <1>1, <1>2, <1>3, <1>4, ConsumerStep

(* StartRead keeps the invariant. *)
LEMMA StartReadStep ==
    ASSUME IndInv, NEW pc \in {"read", "look", "skip"}, NEW n \in 0..RingLen,
           pc # "skip" => n >= 1, StartRead(pc, n)
    PROVE  IndInv'
<1>1. UNCHANGED <<shared, producer, ack>> /\ got' = got
  BY DEF StartRead
<1>2. /\ rpc' = pc /\ rn' = n /\ rp' = << >>
  BY DEF StartRead, NoBytes
<1>3. RingLen \in Nat /\ RingLen' = RingLen
  BY <1>1, Types, FrameLen DEF IndInv, shared
<1>4. ConsumerOK'
  BY <1>2, <1>3 DEF ConsumerOK, NoBytes
<1>5. << >> \in Seq(Byte) /\ got \in Seq(Byte) /\ n \in Nat
  BY <1>3 DEF IndInv, TypeOK
<1> QED
  BY <1>1, <1>2, <1>4, <1>5, ConsumerStep

(* Read keeps the invariant. *)
LEMMA ReadStep ==
    ASSUME IndInv, NEW n \in 1..MaxLen, Read(n)
    PROVE  IndInv'
<1>1. RingLen \in Nat /\ n \in Nat /\ n >= 1
  BY Types, SizeAssumption DEF IndInv
<1>2. CASE RingLen = 0 /\ ReportEmpty
  BY <1>2, ReportEmptyStep
<1>3. CASE RingLen # 0 /\ StartRead("read", Lower(n, RingLen))
  <2>1. Lower(n, RingLen) \in 0..RingLen /\ Lower(n, RingLen) >= 1
    BY <1>1, <1>3 DEF Lower
  <2> QED
    BY <1>3, <2>1, StartReadStep
<1> QED
  BY <1>2, <1>3 DEF Read

(* ReadByte keeps the invariant. *)
LEMMA ReadByteStep ==
    ASSUME IndInv, ReadByte
    PROVE  IndInv'
<1>1. RingLen \in Nat /\ rhead \in Index /\ wtail \in Index
  BY Types DEF IndInv
<1>2. wtail # rhead => 1 \in 0..RingLen
  <2>1. IndexMod \in Nat /\ rhead \in 0..(IndexMod - 1) /\ wtail \in 0..(IndexMod - 1)
    BY <1>1, Consts DEF Index
  <2>2. RingLen = IF wtail >= rhead THEN wtail - rhead ELSE wtail - rhead + IndexMod
    BY <1>1, Sub32Value DEF RingLen
  <2> QED
    BY <1>1, <2>1, <2>2
<1>3. CASE wtail = rhead /\ ReportEmpty
  BY <1>3, ReportEmptyStep
<1>4. CASE wtail # rhead /\ StartRead("read", 1)
  BY <1>2, <1>4, StartReadStep
<1> QED
  BY <1>3, <1>4 DEF ReadByte

(* Discard keeps the invariant. *)
LEMMA DiscardStep ==
    ASSUME IndInv, NEW n \in 1..MaxLen, Discard(n)
    PROVE  IndInv'
<1>1. RingLen \in Nat /\ n \in Nat
  BY Types, SizeAssumption DEF IndInv
<1>2. Lower(n, RingLen) \in 0..RingLen
  BY <1>1 DEF Lower
<1> QED
  BY <1>2, StartReadStep DEF Discard

(* Bytes keeps the invariant. *)
LEMMA BytesStep ==
    ASSUME IndInv, Bytes
    PROVE  IndInv'
<1>1. RingLen \in Nat
  BY Types DEF IndInv
<1>2. CASE RingLen = 0 /\ ReportEmpty
  BY <1>2, ReportEmptyStep
<1>3. CASE RingLen # 0 /\ StartRead("look", RingLen)
  BY <1>1, <1>3, StartReadStep
<1> QED
  BY <1>2, <1>3 DEF Bytes

(* Peek keeps the invariant. *)
LEMMA PeekStep ==
    ASSUME IndInv, NEW n \in 1..MaxLen, Peek(n)
    PROVE  IndInv'
<1> DEFINE k == Contiguous(Lower(n, RingLen))
<1>1. /\ RingLen \in Nat /\ n \in Nat /\ n >= 1 /\ Slot(rhead) \in Nat
      /\ Slot(rhead) < Size /\ Size \in Nat /\ mask = Size - 1
      /\ buf \in [0..mask -> Byte]
  <2>1. TypeOK /\ n \in Nat /\ n >= 1
    BY SizeAssumption DEF IndInv
  <2>2. rhead \in Int /\ RingLen \in Nat /\ buf \in [0..mask -> Byte]
    BY <2>1, Types DEF TypeOK
  <2> QED
    BY <2>1, <2>2, Consts, SlotRange
<1>2. CASE RingLen = 0 /\ ReportEmpty
  BY <1>2, ReportEmptyStep
<1>3. CASE /\ RingLen # 0
           /\ rpc' = "peek" /\ rn' = k /\ rp' = NoBytes
           /\ got' = View(k)
           /\ UNCHANGED <<shared, producer, ack>>
  <2>1. k \in 1..RingLen /\ k \in Nat /\ Slot(rhead) + k <= Size
    BY <1>1, <1>3 DEF Contiguous, Lower
  <2> HIDE DEF k
  <2>2. View(k) \in [1..k -> Byte]
    BY <1>1, <2>1 DEF View
  <2>3. View(k) \in Seq(Byte)
    BY <2>1, <2>2
  <2>4. RingLen' = RingLen /\ rhead' = rhead /\ buf' = buf
    BY <1>3, FrameLen DEF shared
  <2>5. got' = View(rn)'
    BY <1>3, <2>4 DEF View
  <2>6. ConsumerOK'
    BY <1>3, <2>1, <2>4, <2>5 DEF ConsumerOK
  <2>7. NoBytes \in Seq(Byte)
    BY DEF NoBytes
  <2> QED
    BY <1>3, <2>1, <2>3, <2>6, <2>7, ConsumerStep
<1> QED
  BY <1>2, <1>3 DEF Peek

(* CopyOut keeps the invariant. *)
LEMMA CopyOutStep ==
    ASSUME IndInv, CopyOut
    PROVE  IndInv'
<1> DEFINE m == Len(rp)
           b == buf[Slot(rhead + m)]
<1>1. /\ rpc \in {"read", "look"} /\ m < rn /\ rn \in 1..RingLen
      /\ m \in Nat /\ rn \in Nat /\ RingLen \in Nat /\ rp \in Seq(Byte)
      /\ \A j \in 1..m : rp[j] = buf[Slot(rhead + (j - 1))]
  BY Types DEF IndInv, ConsumerOK, CopyOut
<1>2. rhead \in Int /\ m \in Int /\ rhead + m \in Int
  BY <1>1, Types DEF IndInv
<1>3. Slot(Add32(rhead, m)) = Slot(rhead + m)
  BY <1>2, SlotAdd32
<1>4. b \in Byte
  BY <1>2, Types DEF IndInv
<1>5. rp' = Append(rp, b)
  BY <1>3 DEF CopyOut
<1>6. UNCHANGED <<shared, producer, ack>> /\ UNCHANGED <<rpc, rn, got, buf, rhead>>
  BY DEF CopyOut, shared
<1> HIDE DEF m, b
<1>7. /\ rp' \in Seq(Byte) /\ Len(rp') = m + 1 /\ rp'[m + 1] = b
      /\ \A j \in 1..m : rp'[j] = rp[j]
  BY <1>1, <1>4, <1>5 DEF m
<1>8. ASSUME NEW j \in 1..(m + 1)
      PROVE  rp'[j] = buf[Slot(rhead + (j - 1))]
  <2>1. CASE j = m + 1
    <3>1. rhead + (j - 1) = rhead + m
      BY <1>1, <1>2, <2>1
    <3> QED
      BY <1>7, <2>1, <3>1 DEF b
  <2>2. CASE j \in 1..m
    BY <1>1, <1>7, <2>2
  <2> QED
    BY <1>1, <2>1, <2>2
<1>9. RingLen' = RingLen
  BY <1>6, FrameLen DEF shared
<1>10. ConsumerOK'
  BY <1>1, <1>6, <1>7, <1>8, <1>9 DEF ConsumerOK
<1>11. got \in Seq(Byte)
  BY DEF IndInv, TypeOK
<1> QED
  BY <1>1, <1>6, <1>7, <1>10, <1>11, ConsumerStep

(* ReturnBytes keeps the invariant. *)
LEMMA ReturnBytesStep ==
    ASSUME IndInv, ReturnBytes
    PROVE  IndInv'
<1>1. UNCHANGED <<shared, producer, ack>>
  BY DEF ReturnBytes
<1>2. rpc' = "idle" /\ rn' = 0 /\ rp' = << >> /\ got' = rp
  BY DEF ReturnBytes, Return, NoBytes
<1>3. ConsumerOK'
  BY <1>2 DEF ConsumerOK
<1>4. << >> \in Seq(Byte) /\ rp \in Seq(Byte)
  BY DEF IndInv, TypeOK
<1> QED
  BY <1>1, <1>2, <1>3, <1>4, ConsumerStep

(* ReleaseHead keeps the invariant. *)
LEMMA ReleaseHeadStep ==
    ASSUME IndInv, ReleaseHead
    PROVE  /\ IndInv'
           /\ RingLen' = RingLen - rn
<1>1. /\ rn \in 0..RingLen /\ rn \in Nat /\ RingLen \in Nat
      /\ rhead \in Index /\ wtail \in Index
  BY Types DEF IndInv, ConsumerOK, ReleaseHead
<1>2. /\ rhead' = Add32(rhead, rn)
      /\ UNCHANGED <<buf, wtail, wpc, wp, wi, werr, ack>>
      /\ rpc' = "idle" /\ rn' = 0 /\ rp' = << >> /\ got' = rp
  BY DEF ReleaseHead, Return, NoBytes, producer
<1>3. rhead' \in Index /\ RingLen' = RingLen - rn
  <2>1. rn <= Sub32(wtail, rhead)
    BY <1>1 DEF RingLen
  <2> QED
    BY <1>1, <1>2, <2>1, LenAfterRelease DEF RingLen
<1>4. TypeOK'
  BY <1>2, <1>3 DEF IndInv, TypeOK
<1>5. ProducerOK'
  <2>1. wpc = "copy" => RingLen' + Len(wp) <= mask
    BY <1>1, <1>3, Types, Consts DEF IndInv, ProducerOK
  <2>2. mask' = mask
    BY DEF mask
  <2> QED
    BY <1>2, <2>1, <2>2 DEF IndInv, ProducerOK
<1>6. ConsumerOK'
  BY <1>2 DEF ConsumerOK
<1>7. RingLen' <= mask
  BY <1>1, <1>3, Consts DEF IndInv
<1> QED
  BY <1>3, <1>4, <1>5, <1>6, <1>7 DEF IndInv, mask

(* Reset keeps the invariant. *)
LEMMA ResetStep ==
    ASSUME IndInv, Reset
    PROVE  IndInv' /\ RingLen' = 0
<1>1. /\ rhead' = 0 /\ wtail' = 0 /\ wpc = "idle" /\ rpc = "idle"
      /\ UNCHANGED <<buf, wpc, wp, wi, werr, rpc, rn, rp, ack, got>>
  BY DEF Reset, producer, consumer
<1>2. 0 \in Index
  BY Consts DEF Index
<1>3. RingLen' = 0
  BY <1>1, <1>2, Sub32Value DEF RingLen
<1>4. TypeOK'
  BY <1>1, <1>2 DEF IndInv, TypeOK
<1>5. ProducerOK' /\ ConsumerOK'
  BY <1>1 DEF ProducerOK, ConsumerOK
<1> QED
  BY <1>3, <1>4, <1>5, Consts DEF IndInv, mask

(* Every step of the ring preserves the inductive invariant. *)
LEMMA NextIndInv == IndInv /\ [Next]_vars => IndInv'
<1> SUFFICES ASSUME IndInv, [Next]_vars PROVE IndInv'
  OBVIOUS
<1>1. CASE Producer
  BY <1>1, WriteStep, WriteByteStep, CopyInStep, PublishTailStep DEF Producer
<1>2. CASE Consumer
  BY <1>2, ReadStep, DiscardStep, PeekStep, ReadByteStep, BytesStep, CopyOutStep,
     ReleaseHeadStep, ReturnBytesStep DEF Consumer
<1>3. CASE Reset
  BY <1>3, ResetStep
<1>4. CASE UNCHANGED vars
  BY <1>4 DEF vars, shared, producer, consumer, IndInv, TypeOK, ProducerOK,
              ConsumerOK, RingLen, View, mask
<1> QED
  BY <1>1, <1>2, <1>3, <1>4 DEF Next

(* IndInv is an invariant of Ring. *)
LEMMA Invariance == Spec => []IndInv
  BY InitIndInv, NextIndInv, PTL DEF Spec

(* Indices stay 32-bit values and the two sides' locals well formed. *)
THEOREM TypeCorrect == Spec => []TypeOK
<1>1. IndInv => TypeOK
  BY DEF IndInv
<1> QED
  BY <1>1, Invariance, PTL

(* Ring.Write and WriteByte never store into a slot that holds a published *)
(* byte, whatever the two goroutines' interleaving: no data race on buf.   *)
THEOREM NoRace == Spec => []RaceFree
  BY Invariance, IndInvRaceFree, PTL

(* A slice returned by Peek does not change under concurrent Writes. *)
THEOREM PeekIsStable == Spec => []PeekStable
<1>1. IndInv => PeekStable
  BY DEF IndInv, ConsumerOK, PeekStable
<1> QED
  BY <1>1, Invariance, PTL
----------------------------------------------------------------------------
(***************************************************************************)
(* Ring implements ByteQueue: the bytes between rhead and wtail, in index  *)
(* order, are the abstract queue; publishing wtail is the moment a write   *)
(* takes effect, releasing rhead the moment a read does.                   *)
(***************************************************************************)

(* The readable slots in index order are a sequence of bytes. *)
ContentsShape == /\ Contents \in Seq(Byte)
                 /\ Len(Contents) = RingLen
                 /\ \A j \in 1..RingLen : Contents[j] = buf[Slot(rhead + (j - 1))]

(* The abstract queue is a sequence of bytes as long as the ring says. *)
LEMMA ContentsSeq == TypeOK => ContentsShape
<1> SUFFICES ASSUME TypeOK PROVE ContentsShape
  OBVIOUS
<1>1. RingLen \in Nat /\ rhead \in Int
  BY Types
<1>2. ASSUME NEW j \in 1..RingLen
      PROVE  buf[Slot(rhead + (j - 1))] \in Byte
  <2>1. rhead + (j - 1) \in Int
    BY <1>1
  <2> QED
    BY <2>1, Types
<1>3. /\ Contents \in [1..RingLen -> Byte]
      /\ \A j \in 1..RingLen : Contents[j] = buf[Slot(rhead + (j - 1))]
  BY <1>2 DEF Contents
<1>4. Contents \in Seq(Byte) /\ Len(Contents) = RingLen
  BY <1>1, <1>3
<1> QED
  BY <1>3, <1>4 DEF ContentsShape

(* A prefix read off the slots is the prefix of the queue. *)
LEMMA PrefixOfContents ==
    ASSUME TypeOK, NEW n \in 0..RingLen, NEW s \in Seq(Byte), Len(s) = n,
           \A j \in 1..n : s[j] = buf[Slot(rhead + (j - 1))]
    PROVE  s = Q!First(Contents, n)
<1>1. RingLen \in Nat /\ Contents \in Seq(Byte) /\ Len(Contents) = RingLen
      /\ \A j \in 1..RingLen : Contents[j] = buf[Slot(rhead + (j - 1))]
  BY Types, ContentsSeq DEF ContentsShape
<1>2. \A j \in 1..n : Contents[j] \in Byte
  BY <1>1
<1>3. /\ SubSeq(Contents, 1, n) \in Seq(Byte)
      /\ Len(SubSeq(Contents, 1, n)) = n
      /\ \A j \in 1..n : SubSeq(Contents, 1, n)[j] = Contents[j]
  BY <1>1, <1>2, SubSeqProperties
<1>4. \A j \in 1..Len(s) : s[j] = SubSeq(Contents, 1, n)[j]
  BY <1>1, <1>3
<1>5. s = SubSeq(Contents, 1, n)
  BY <1>3, <1>4, SeqEqual
<1> QED
  BY <1>5 DEF Q!First

(* The initial ring is the empty queue. *)
LEMMA InitRefines == Init => Q!Init
<1> SUFFICES ASSUME Init PROVE Q!Init
  OBVIOUS
<1>1. TypeOK
  BY InitIndInv DEF IndInv
<1>2. rhead \in Index /\ wtail \in Index /\ RingLen = 0
  <2>1. 0 \in Index
    BY Consts DEF Index
  <2> QED
    BY <2>1, Sub32Value DEF Init, RingLen
<1>3. Contents = << >>
  BY <1>1, <1>2, ContentsSeq, EmptySeq DEF ContentsShape
<1> QED
  BY <1>3 DEF Init, Q!Init, NoBytes, Q!NoBytes

(* A step that changes neither buf, the indices nor a result is a stutter of the queue. *)
LEMMA SharedStutter ==
    ASSUME UNCHANGED <<shared, ack, got>>
    PROVE  UNCHANGED Q!vars
  BY DEF shared, Q!vars, Contents, RingLen

(* The queue is a function of buf and the two indices. *)
LEMMA ContentsFrame ==
    ASSUME UNCHANGED shared
    PROVE  Contents' = Contents
  BY DEF shared, Contents, RingLen

(* errBufferFull with n = 0 is PutFull. *)
LEMMA ReportFullRefines ==
    ASSUME IndInv, RingLen >= mask, ReportFull
    PROVE  Q!Next
<1>1. Len(Contents) = Cap
  <2>1. RingLen \in Nat /\ mask \in Nat /\ RingLen <= mask
    BY Types, Consts DEF IndInv
  <2>2. RingLen = mask
    BY <2>1
  <2> QED
    BY <2>2, ContentsSeq DEF ContentsShape, IndInv, Cap
<1>2. Contents' = Contents
  BY ContentsFrame DEF ReportFull
<1>3. Q!PutFull
  BY <1>1, <1>2 DEF Q!PutFull, ReportFull, NoBytes, Q!NoBytes
<1> QED
  BY <1>3 DEF Q!Next

(* An empty answer is Empty. *)
LEMMA ReportEmptyRefines ==
    ASSUME IndInv, RingLen = 0, ReportEmpty
    PROVE  Q!Next
<1>1. Contents = << >>
  BY ContentsSeq, EmptySeq DEF ContentsShape, IndInv
<1>2. Contents' = Contents
  BY ContentsFrame DEF ReportEmpty
<1>3. Q!Empty
  BY <1>1, <1>2 DEF Q!Empty, ReportEmpty, Return, NoBytes, Q!NoBytes
<1> QED
  BY <1>3 DEF Q!Next

(* Showing a prefix without consuming it. *)
LEMMA LookRefines ==
    ASSUME IndInv, NEW n \in 1..RingLen, UNCHANGED <<shared, ack>>,
           got' \in Seq(Byte), Len(got') = n,
           \A j \in 1..n : got'[j] = buf[Slot(rhead + (j - 1))]
    PROVE  Q!Next
<1>1. TypeOK /\ RingLen \in Nat /\ Len(Contents) = RingLen /\ n \in 0..RingLen
  BY Types, ContentsSeq DEF ContentsShape, IndInv
<1>2. got' = Q!First(Contents, n)
  BY <1>1, PrefixOfContents
<1>3. Q!Look(n)
  BY <1>2, ContentsFrame DEF Q!Look
<1>4. n \in 1..Len(Contents)
  BY <1>1
<1> QED
  BY <1>3, <1>4 DEF Q!Next

(* Peek shows a prefix of the queue. *)
LEMMA PeekRefines ==
    ASSUME IndInv, NEW n \in 1..MaxLen, Peek(n)
    PROVE  Q!Next
<1>1. CASE RingLen = 0 /\ ReportEmpty
  BY <1>1, ReportEmptyRefines
<1>2. CASE /\ RingLen # 0 /\ rpc' = "peek" /\ UNCHANGED <<shared, producer, ack>>
  <2>1. IndInv'
    BY PeekStep
  <2>2. RingLen' = RingLen /\ rhead' = rhead /\ buf' = buf
    BY <1>2, FrameLen DEF shared
  <2>3. rn' \in 1..RingLen /\ Slot(rhead) + rn' <= Size /\ got' = View(rn)'
        /\ got' \in Seq(Byte) /\ rn' \in Nat
    BY <1>2, <2>1, <2>2 DEF IndInv, ConsumerOK, TypeOK
  <2>4. got' = [j \in 1..rn' |-> buf[Slot(rhead) + (j - 1)]]
    BY <2>2, <2>3 DEF View
  <2>5. Len(got') = rn' /\ \A j \in 1..rn' : got'[j] = buf[Slot(rhead) + (j - 1)]
    BY <2>3, <2>4
  <2>6. RingLen \in Nat /\ rhead \in Int /\ Slot(rhead) \in Nat /\ Size \in Nat
    BY Types, SlotRange, Consts DEF IndInv
  <2>7. ASSUME NEW j \in 1..rn'
        PROVE  got'[j] = buf[Slot(rhead + (j - 1))]
    <3>1. j - 1 \in Nat /\ Slot(rhead) + (j - 1) < Size
      BY <2>3, <2>6
    <3>2. Slot(rhead + (j - 1)) = Slot(rhead) + (j - 1)
      BY <2>6, <3>1, SlotContiguous
    <3> QED
      BY <2>5, <3>2
  <2> QED
    BY <1>2, <2>3, <2>5, <2>7, LookRefines
<1> QED
  BY <1>1, <1>2 DEF Peek

(* Bytes shows the queue as it was when it looked, a prefix of what it is now. *)
LEMMA ReturnBytesRefines ==
    ASSUME IndInv, ReturnBytes
    PROVE  Q!Next
<1>1. /\ rn \in 1..RingLen /\ rp \in Seq(Byte) /\ Len(rp) = rn
      /\ \A j \in 1..rn : rp[j] = buf[Slot(rhead + (j - 1))]
  BY DEF IndInv, TypeOK, ConsumerOK, ReturnBytes
<1>2. got' = rp /\ UNCHANGED <<shared, ack>>
  BY DEF ReturnBytes, Return
<1> QED
  BY <1>1, <1>2, LookRefines

(* Copying a byte in does not disturb the queue: nothing published moves. *)
LEMMA CopyInRefines ==
    ASSUME IndInv, CopyIn
    PROVE  UNCHANGED Q!vars
<1>1. /\ wpc = "copy" /\ wi \in wi..(Len(wp) - 1) /\ wi \in Int
      /\ wtail \in Int /\ rhead \in Int /\ RingLen \in Nat
      /\ buf \in [0..mask -> Byte]
  BY Types DEF CopyIn, IndInv, TypeOK
<1>2. \A j \in 0..(RingLen - 1) : Slot(rhead + j) # Slot(wtail + wi)
  BY <1>1, Untouched
<1>3. /\ buf' = [buf EXCEPT ![Slot(wtail + wi)] = wp[wi + 1]]
      /\ UNCHANGED <<rhead, wtail, ack, got>>
  BY <1>1, SlotAdd32 DEF CopyIn
<1>4. ASSUME NEW j \in 1..RingLen
      PROVE  buf'[Slot(rhead + (j - 1))] = buf[Slot(rhead + (j - 1))]
  <2>1. j - 1 \in 0..(RingLen - 1) /\ j - 1 \in Int
    BY <1>1
  <2>2. Slot(rhead + (j - 1)) \in 0..mask
    BY <1>1, <2>1, SlotSumRange
  <2>3. Slot(rhead + (j - 1)) # Slot(wtail + wi)
    BY <1>2, <2>1
  <2> QED
    BY <1>1, <1>3, <2>2, <2>3
<1>5. RingLen' = RingLen
  BY <1>3, FrameLen
<1>6. Contents' = Contents
  BY <1>3, <1>4, <1>5 DEF Contents
<1> QED
  BY <1>3, <1>6 DEF Q!vars

(* Publishing wtail appends the whole slice at once. *)
LEMMA PublishTailRefines ==
    ASSUME IndInv, PublishTail
    PROVE  Q!Next
<1>1. /\ RingLen \in Nat /\ Len(wp) \in Nat /\ wp \in Seq(Byte) /\ Len(wp) >= 1
      /\ RingLen + Len(wp) <= mask /\ mask \in Nat
      /\ rhead \in Index /\ wtail \in Index /\ rhead \in Int /\ TypeOK
      /\ \A j \in 0..(Len(wp) - 1) : buf[Slot(wtail + j)] = wp[j + 1]
  BY Types, Consts DEF IndInv, ProducerOK, PublishTail
<1>2. RingLen' = RingLen + Len(wp) /\ TypeOK'
  BY PublishTailStep DEF IndInv
<1>3. UNCHANGED <<buf, rhead, got>>
  BY DEF PublishTail
<1>4. /\ Contents' \in Seq(Byte) /\ Len(Contents') = RingLen + Len(wp)
      /\ \A j \in 1..(RingLen + Len(wp)) : Contents'[j] = buf[Slot(rhead + (j - 1))]
  <2>1. ContentsShape'
    BY <1>2, ContentsSeq, PTL
  <2> QED
    BY <1>2, <1>3, <2>1 DEF ContentsShape
<1>5. /\ Contents \in Seq(Byte) /\ Len(Contents) = RingLen
      /\ \A j \in 1..RingLen : Contents[j] = buf[Slot(rhead + (j - 1))]
  BY <1>1, ContentsSeq DEF ContentsShape
<1>6. /\ Contents \o wp \in Seq(Byte) /\ Len(Contents \o wp) = RingLen + Len(wp)
      /\ \A j \in 1..(RingLen + Len(wp)) :
            (Contents \o wp)[j] = IF j <= RingLen THEN Contents[j] ELSE wp[j - RingLen]
  BY <1>1, <1>5, ConcatProperties
<1>7. ASSUME NEW j \in 1..(RingLen + Len(wp))
      PROVE  Contents'[j] = (Contents \o wp)[j]
  <2>0. j \in Int /\ RingLen \in Int
    BY <1>1
  <2>1. CASE j <= RingLen
    BY <1>1, <1>4, <1>5, <1>6, <2>1, SMTT(30)
  <2>2. CASE j > RingLen
    <3> DEFINE i == j - RingLen - 1
    <3>1. i \in 0..(Len(wp) - 1) /\ i \in Nat
          /\ i + 1 = j - RingLen /\ RingLen + i = j - 1
      BY <1>1, <2>2
    <3> HIDE DEF i
    <3>2. Slot(wtail + i) = Slot(rhead + (j - 1))
      BY <1>1, <3>1, TailSlot DEF RingLen
    <3>3. buf[Slot(wtail + i)] = wp[j - RingLen]
      BY <1>1, <3>1
    <3>4. (Contents \o wp)[j] = wp[j - RingLen]
      BY <1>1, <1>6, <2>2
    <3> QED
      BY <1>4, <3>2, <3>3, <3>4
  <2>3. j <= RingLen \/ j > RingLen
    BY <2>0
  <2> QED
    BY <2>1, <2>2, <2>3
<1>8. Contents' = Contents \o wp
  BY <1>4, <1>6, <1>7, SeqEqual
<1>9. Q!Put(wp)
  <2>1. ack' = [p |-> wp, err |-> werr] /\ werr \in {"nil", "full"}
    BY DEF PublishTail, IndInv, TypeOK
  <2> QED
    BY <1>3, <1>8, <2>1 DEF Q!Put
<1>10. Len(wp) \in 1..Q!Room /\ wp \in [1..Len(wp) -> Byte]
  BY <1>1, <1>5 DEF Q!Room, Cap
<1> QED
  BY <1>9, <1>10 DEF Q!Next

(* Releasing rhead takes the bytes before it from the front of the queue. *)
LEMMA ReleaseHeadRefines ==
    ASSUME IndInv, ReleaseHead
    PROVE  Q!Next
<1>1. /\ RingLen \in Nat /\ rn \in 0..RingLen /\ rn \in Nat /\ rp \in Seq(Byte)
      /\ rhead \in Index /\ rhead \in Int /\ TypeOK
  BY Types DEF IndInv, ConsumerOK, ReleaseHead
<1>2. RingLen' = RingLen - rn /\ TypeOK'
  BY ReleaseHeadStep DEF IndInv
<1>3. /\ UNCHANGED <<buf, ack>> /\ rhead' = (rhead + rn) % IndexMod /\ got' = rp
  BY DEF ReleaseHead, Return, Add32
<1>4. /\ Contents \in Seq(Byte) /\ Len(Contents) = RingLen
      /\ \A j \in 1..RingLen : Contents[j] = buf[Slot(rhead + (j - 1))]
  BY <1>1, ContentsSeq DEF ContentsShape
<1>5. ContentsShape' /\ rhead' \in Int
  <2>1. rhead' \in Index
    BY <1>2 DEF TypeOK
  <2>2. rhead' \in Int
    BY <2>1, Consts DEF Index
  <2> QED
    BY <1>2, <2>2, ContentsSeq, PTL
<1>6. /\ Contents' \in Seq(Byte) /\ Len(Contents') = RingLen - rn
      /\ \A j \in 1..(RingLen - rn) : Contents'[j] = buf[Slot(rhead' + (j - 1))]
  BY <1>2, <1>3, <1>5 DEF ContentsShape
<1>7. ASSUME NEW j \in Nat
      PROVE  Slot(rhead' + j) = Slot(rhead + (rn + j))
  <2>1. rhead + rn \in Int /\ rhead + (rn + j) = (rhead + rn) + j /\ rhead' + j \in Int
        /\ (rhead + rn) + j \in Int /\ (rn + j) \in Int
    BY <1>1, <1>5
  <2>2. Slot(rhead' + j) = Slot((rhead + rn) + j)
    BY <1>1, <1>3, <2>1, SlotOfWrapped
  <2> QED
    BY <2>1, <2>2
<1>8. /\ SubSeq(Contents, rn + 1, RingLen) \in Seq(Byte)
      /\ Len(SubSeq(Contents, rn + 1, RingLen)) = RingLen - rn
      /\ \A j \in 1..(RingLen - rn) :
            SubSeq(Contents, rn + 1, RingLen)[j] = Contents[rn + j]
  <2>1. \A j \in (rn + 1)..RingLen : Contents[j] \in Byte
    BY <1>1, <1>4
  <2>2. /\ SubSeq(Contents, rn + 1, RingLen) \in Seq(Byte)
        /\ Len(SubSeq(Contents, rn + 1, RingLen))
              = IF rn + 1 <= RingLen THEN RingLen - (rn + 1) + 1 ELSE 0
        /\ \A j \in 1..(RingLen - (rn + 1) + 1) :
              SubSeq(Contents, rn + 1, RingLen)[j] = Contents[rn + 1 + j - 1]
    BY <1>1, <2>1, SubSeqProperties
  <2> QED
    BY <1>1, <2>2
<1>9. ASSUME NEW j \in 1..(RingLen - rn)
      PROVE  Contents'[j] = SubSeq(Contents, rn + 1, RingLen)[j]
  <2>1. j - 1 \in Nat /\ rn + j \in 1..RingLen /\ rn + (j - 1) = (rn + j) - 1
    BY <1>1
  <2>2. Slot(rhead' + (j - 1)) = Slot(rhead + ((rn + j) - 1))
    BY <1>7, <2>1
  <2>3. Contents[rn + j] = buf[Slot(rhead + ((rn + j) - 1))]
    BY <1>4, <2>1
  <2> QED
    BY <1>6, <1>8, <2>2, <2>3
<1>10. Contents' = Q!Rest(Contents, rn)
  <2>1. Contents' = SubSeq(Contents, rn + 1, RingLen)
    BY <1>6, <1>8, <1>9, SeqEqual
  <2> QED
    BY <1>4, <2>1 DEF Q!Rest
<1>11. CASE rpc = "read"
  <2>1. /\ rn \in 1..RingLen /\ Len(rp) = rn
        /\ \A j \in 1..rn : rp[j] = buf[Slot(rhead + (j - 1))]
    BY <1>11 DEF IndInv, ConsumerOK, ReleaseHead
  <2>2. rp = Q!First(Contents, rn)
    BY <1>1, <2>1, PrefixOfContents
  <2>3. Q!Get(rn)
    BY <1>3, <1>10, <2>2 DEF Q!Get
  <2> QED
    BY <1>4, <2>1, <2>3 DEF Q!Next
<1>12. CASE rpc = "skip"
  <2>1. rp = << >>
    BY <1>12 DEF IndInv, ConsumerOK, NoBytes
  <2>2. Q!Drop(rn)
    BY <1>3, <1>10, <2>1 DEF Q!Drop, Q!NoBytes
  <2> QED
    BY <1>1, <1>4, <2>2 DEF Q!Next
<1> QED
  BY <1>11, <1>12 DEF ReleaseHead

(* Reset clears the queue. *)
LEMMA ResetRefines ==
    ASSUME IndInv, Reset
    PROVE  Q!Next
<1>1. TypeOK' /\ RingLen' = 0
  BY ResetStep DEF IndInv
<1>2. ContentsShape'
  BY <1>1, ContentsSeq, PTL
<1>3. Contents' = << >>
  BY <1>1, <1>2, EmptySeq DEF ContentsShape
<1>4. Q!Clear
  BY <1>3 DEF Q!Clear, Reset
<1> QED
  BY <1>4 DEF Q!Next

(* Starting to write is a stutter. *)
LEMMA StartCopyStutters ==
    ASSUME NEW p, NEW err, StartCopy(p, err)
    PROVE  UNCHANGED Q!vars
  BY SharedStutter DEF StartCopy

(* Starting to read is a stutter. *)
LEMMA StartReadStutters ==
    ASSUME NEW pc, NEW n, StartRead(pc, n)
    PROVE  UNCHANGED Q!vars
  BY SharedStutter DEF StartRead

(* Every step of the ring is a step of the queue or leaves it alone. *)
LEMMA NextRefines == IndInv /\ [Next]_vars => [Q!Next]_(Q!vars)
<1> SUFFICES ASSUME IndInv, [Next]_vars
             PROVE  Q!Next \/ UNCHANGED Q!vars
  OBVIOUS
<1>0. RingLen \in Nat /\ mask \in Nat /\ rhead \in Index /\ wtail \in Index
  BY Types, Consts DEF IndInv
<1>1. ASSUME NEW p \in Slices, Write(p) PROVE Q!Next \/ UNCHANGED Q!vars
  <2>1. mask - RingLen <= 0 => RingLen >= mask
    BY <1>0
  <2> QED
    BY <1>1, <2>1, ReportFullRefines, StartCopyStutters DEF Write
<1>2. ASSUME NEW c \in Byte, WriteByte(c) PROVE Q!Next \/ UNCHANGED Q!vars
  BY <1>2, ReportFullRefines, StartCopyStutters DEF WriteByte
<1>3. ASSUME NEW n \in 1..MaxLen, Read(n) \/ Discard(n)
      PROVE  Q!Next \/ UNCHANGED Q!vars
  BY <1>3, ReportEmptyRefines, StartReadStutters DEF Read, Discard
<1>4. ASSUME ReadByte PROVE Q!Next \/ UNCHANGED Q!vars
  <2>1. wtail = rhead => RingLen = 0
    <3>1. IndexMod \in Nat /\ rhead \in 0..(IndexMod - 1) /\ wtail \in 0..(IndexMod - 1)
      BY <1>0, Consts DEF Index
    <3>2. RingLen = IF wtail >= rhead THEN wtail - rhead ELSE wtail - rhead + IndexMod
      BY <1>0, Sub32Value DEF RingLen
    <3> QED
      BY <3>1, <3>2
  <2> QED
    BY <1>4, <2>1, ReportEmptyRefines, StartReadStutters DEF ReadByte
<1>5. ASSUME Bytes PROVE Q!Next \/ UNCHANGED Q!vars
  BY <1>5, ReportEmptyRefines, StartReadStutters DEF Bytes
<1>6. ASSUME CopyOut PROVE UNCHANGED Q!vars
  BY <1>6, SharedStutter DEF CopyOut
<1>7. ASSUME UNCHANGED vars PROVE UNCHANGED Q!vars
  BY <1>7, SharedStutter DEF vars
<1>8. CASE Producer
  BY <1>1, <1>2, <1>8, CopyInRefines, PublishTailRefines DEF Producer
<1>9. CASE Consumer
  BY <1>3, <1>4, <1>5, <1>6, <1>9, PeekRefines, ReleaseHeadRefines, ReturnBytesRefines
     DEF Consumer
<1> QED
  BY <1>7, <1>8, <1>9, ResetRefines DEF Next

(* Ring is a bounded first-in first-out queue, for every buffer size and   *)
(* index width, under every interleaving of its producer and its consumer. *)
THEOREM RingIsFifo == Spec => Fifo
<1>1. Spec => [](IndInv)
  BY Invariance
<1> QED
  BY <1>1, InitRefines, NextRefines, PTL DEF Spec, Fifo, Q!Spec
============================================================================

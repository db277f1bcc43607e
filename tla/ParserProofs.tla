---------------------------- MODULE ParserProofs ---------------------------
(***************************************************************************)
(* Proofs about Parser for every alphabet, every chunking and every size   *)
(* of the event tables and of the subnegotiation accumulator.              *)
(***************************************************************************)
EXTENDS Parser, FlattenTheorems

Ordered(ev) ==
    /\ \A k \in 1..Len(ev) : ev[k][1] < ev[k][2]
    /\ \A k \in 1..(Len(ev) - 1) : ev[k][2] < ev[k + 1][1]
Behind(ev, n) == \A k \in 1..Len(ev) : ev[k][2] <= n

(* appendData keeps a list of disjoint pieces that all end before the new  *)
(* piece starts a list of disjoint pieces.                                 *)
LEMMA AppendDataOrdered ==
    ASSUME NEW ev \in Seq(Nat \X Nat), NEW lo \in Nat, NEW hi \in Nat, lo <= hi,
           Len(ev) <= MaxDataEvents, Ordered(ev), Behind(ev, lo)
    PROVE  /\ appendData(ev, lo, hi) \in Seq(Nat \X Nat)
           /\ Len(appendData(ev, lo, hi)) <= MaxDataEvents
           /\ Ordered(appendData(ev, lo, hi))
           /\ Behind(appendData(ev, lo, hi), hi)
<1> DEFINE n == Len(ev)
           r == appendData(ev, lo, hi)
<1>0. n \in Nat /\ \A k \in 1..n : ev[k] \in Nat \X Nat
  OBVIOUS
<1>1. \A k \in 1..n : ev[k][1] \in Nat /\ ev[k][2] \in Nat
  BY <1>0
<1>2. MaxDataEvents \in Nat
  BY ParserAssumption
<1>3. CASE lo = hi
  BY <1>3, <1>0, <1>1 DEF appendData, Behind
<1>4. CASE lo < hi /\ ev # << >> /\ ev[n][2] = lo
  <2> DEFINE e == <<ev[n][1], hi>>
  <2>0. n >= 1 /\ n \in 1..n
    BY <1>0, <1>4
  <2>1. r = [ev EXCEPT ![n] = e]
    BY <1>4 DEF appendData
  <2>2. e \in Nat \X Nat /\ e[1] = ev[n][1] /\ e[2] = hi
    BY <1>1, <2>0
  <2> HIDE DEF e, r
  <2>3. /\ r \in Seq(Nat \X Nat) /\ Len(r) = n
        /\ \A k \in 1..n : r[k] = IF k = n THEN e ELSE ev[k]
    BY <1>0, <2>0, <2>1, <2>2, ExceptSeq, SMTT(30)
  <2>4. ASSUME NEW k \in 1..n PROVE r[k][1] < r[k][2] /\ r[k][2] <= hi
    <3>1. ev[k][1] < ev[k][2] /\ ev[k][2] <= lo /\ ev[k][1] \in Nat /\ ev[k][2] \in Nat
      BY <1>1 DEF Ordered, Behind
    <3>2. CASE k = n
      <4>1. r[k] = e
        BY <2>3, <3>2
      <4> QED
        BY <1>4, <2>2, <3>1, <3>2, <4>1
    <3>3. CASE k # n
      <4>1. r[k] = ev[k]
        BY <2>3, <3>3
      <4> QED
        BY <1>4, <3>1, <4>1
    <3> QED
      BY <3>2, <3>3
  <2>5. Behind(r, hi) /\ \A k \in 1..n : r[k][1] < r[k][2]
    BY <2>3, <2>4 DEF Behind
  <2>6. ASSUME NEW k \in 1..(n - 1) PROVE r[k][2] < r[k + 1][1]
    <3>1. k \in 1..n /\ k # n /\ k + 1 \in 1..n
      BY <1>0
    <3>2. r[k] = ev[k] /\ r[k + 1][1] = ev[k + 1][1]
      BY <2>2, <2>3, <3>1
    <3> QED
      BY <3>2 DEF Ordered
  <2> QED
    BY <2>3, <2>5, <2>6 DEF Ordered, r
<1>5. CASE lo < hi /\ ~(ev # << >> /\ ev[n][2] = lo) /\ n < MaxDataEvents
  <2> DEFINE e == <<lo, hi>>
  <2>1. r = Append(ev, e)
    BY <1>5 DEF appendData
  <2>2. e \in Nat \X Nat /\ e[1] = lo /\ e[2] = hi
    OBVIOUS
  <2> HIDE DEF e, r
  <2>3. /\ r \in Seq(Nat \X Nat) /\ Len(r) = n + 1
        /\ \A k \in 1..n : r[k] = ev[k]
        /\ r[n + 1] = e
    BY <1>0, <2>1, <2>2
  <2>4. ASSUME NEW k \in 1..(n + 1) PROVE r[k][1] < r[k][2] /\ r[k][2] <= hi
    <3>1. CASE k = n + 1
      <4>1. r[k] = e
        BY <2>3, <3>1
      <4> QED
        BY <1>5, <2>2, <4>1
    <3>2. CASE k \in 1..n
      <4>1. ev[k][1] < ev[k][2] /\ ev[k][2] <= lo /\ ev[k][2] \in Nat
        BY <1>1, <3>2 DEF Ordered, Behind
      <4>2. r[k] = ev[k]
        BY <2>3, <3>2
      <4> QED
        BY <4>1, <4>2
    <3> QED
      BY <1>0, <3>1, <3>2, SMTT(30)
  <2>5. Behind(r, hi) /\ \A k \in 1..(n + 1) : r[k][1] < r[k][2]
    BY <2>3, <2>4 DEF Behind
  <2>6. ASSUME NEW k \in 1..n PROVE r[k][2] < r[k + 1][1]
    <3>1. CASE k = n
      <4>1. ev # << >> /\ ev[n][2] <= lo /\ ev[n][2] \in Nat
        BY <1>0, <1>1, <3>1 DEF Behind
      <4>2. ev[n][2] < lo
        BY <1>5, <4>1
      <4> QED
        BY <2>2, <2>3, <3>1, <4>2
    <3>2. CASE k \in 1..(n - 1)
      <4>1. k \in 1..n /\ k + 1 \in 1..n
        BY <1>0, <3>2
      <4> QED
        BY <2>3, <3>2, <4>1 DEF Ordered
    <3> QED
      BY <1>0, <3>1, <3>2
  <2>7. n + 1 <= MaxDataEvents
    BY <1>0, <1>2, <1>5
  <2> QED
    BY <1>0, <2>3, <2>5, <2>6, <2>7 DEF Ordered, r
<1>6. CASE lo < hi /\ ~(ev # << >> /\ ev[n][2] = lo) /\ ~(n < MaxDataEvents)
  BY <1>0, <1>1, <1>6 DEF appendData, Behind
<1>7. lo = hi \/ lo < hi
  OBVIOUS
<1> QED
  BY <1>3, <1>4, <1>5, <1>6, <1>7

(* EventsOrdered in the terms of the lemma. *)
LEMMA EventsOrderedDef ==
    ASSUME dataEv \in Seq(Nat \X Nat)
    PROVE  /\ EventsOrdered <=> Ordered(dataEv) /\ Behind(dataEv, i)
           /\ EventsBehind <=> ((state = "Data" \/ pc = "idle") => Behind(dataEv, dataStart))
  BY DEF EventsOrdered, EventsBehind, Ordered, Behind

----------------------------------------------------------------------------
(* A byte written to the accumulator leaves it within its capacity. *)
LEMMA SnWriteType ==
    ASSUME NEW sn, NEW b \in Byte,
           sn.arr \in [1..SnCap -> Byte], sn.len \in 0..SnCap
    PROVE  /\ SnWrite(sn, b).arr \in [1..SnCap -> Byte]
           /\ SnWrite(sn, b).len \in 0..SnCap
<1>1. CASE sn.len < SnCap
  <2>1. /\ SnWrite(sn, b).arr = [sn.arr EXCEPT ![sn.len + 1] = b]
        /\ SnWrite(sn, b).len = sn.len + 1
    BY <1>1 DEF SnWrite
  <2> QED
    BY <1>1, <2>1, ParserAssumption
<1>2. CASE ~(sn.len < SnCap)
  BY <1>2 DEF SnWrite
<1> QED
  BY <1>1, <1>2

(* What reading one byte of the chunk does in every state of the parser. *)
LEMMA AdvanceFacts ==
    ASSUME IndInv, Advance
    PROVE  /\ Current \in Byte /\ i \in Nat /\ i' = i + 1 /\ i' \in 0..Len(data)
           /\ data' = data /\ data \in Seq(Byte) /\ pc = "parse" /\ pc' = "parse"
           /\ dataStart \in Nat /\ dataStart <= i /\ dataStart \in 0..i'
           /\ i + 1 \in 0..i' /\ Take(Current) /\ Len(data) \in Nat
  BY DEF IndInv, TypeOK, Advance, Current

(* The types that do not concern the events' places in the chunk. *)
FieldsOK ==
    /\ state \in States
    /\ cmd \in Byte /\ snOption \in Byte
    /\ snArr \in [1..SnCap -> Byte] /\ snLen \in 0..SnCap
    /\ pc \in {"idle", "parse"}
    /\ data \in Seq(Byte)
    /\ cmdEv \in Seq(Verbs \X Byte) /\ Len(cmdEv) <= MaxCmdEvents
    /\ snEv \in Seq(Byte \X (0..SnCap)) /\ Len(snEv) <= MaxSNEvents

(* The events' places. *)
PlacesOK ==
    /\ i \in 0..Len(data) /\ dataStart \in 0..i
    /\ dataEv \in Seq(Nat \X Nat) /\ Len(dataEv) <= MaxDataEvents
    /\ Ordered(dataEv) /\ Behind(dataEv, i)
    /\ (state = "Data" \/ pc = "idle") => Behind(dataEv, dataStart)

(* The parts of the invariant that relate the parser to the reference. *)
SyncOK == InSync /\ RefOK /\ CommandsDecoded

(* The invariant falls into three parts, proved separately. *)
LEMMA IndInvParts == IndInv <=> FieldsOK /\ PlacesOK /\ SyncOK
<1>1. TypeOK <=> /\ FieldsOK /\ i \in 0..Len(data) /\ dataStart \in 0..i
                 /\ dataEv \in Seq(Nat \X Nat) /\ Len(dataEv) <= MaxDataEvents
  BY DEF TypeOK, FieldsOK
<1> QED
  BY <1>1, EventsOrderedDef DEF IndInv, PlacesOK, SyncOK

(* Events behind a place are behind every later place. *)
LEMMA BehindMore ==
    ASSUME NEW ev \in Seq(Nat \X Nat), NEW a \in Nat, NEW b \in Nat, a <= b, Behind(ev, a)
    PROVE  Behind(ev, b)
<1>1. \A k \in 1..Len(ev) : ev[k][2] \in Nat
  OBVIOUS
<1> QED
  BY <1>1 DEF Behind

(* A byte that adds no data event keeps the places, provided plain data    *)
(* restarts after it whenever the parser is back in the data state.        *)
LEMMA PlacesKept ==
    ASSUME IndInv, Advance, dataEv' = dataEv,
           \/ dataStart' = i + 1
           \/ dataStart' = dataStart /\ (state' = "Data" => state = "Data")
    PROVE  PlacesOK'
<1>1. PlacesOK
  BY IndInvParts
<1>2. /\ i' \in 0..Len(data') /\ dataStart' \in 0..i' /\ i \in Nat /\ i' \in Nat /\ i <= i'
      /\ pc' # "idle" /\ i' = i + 1
  BY AdvanceFacts
<1>3. Behind(dataEv, i')
  BY <1>1, <1>2, BehindMore DEF PlacesOK
<1>4. state' = "Data" => Behind(dataEv, dataStart')
  BY <1>1, <1>2, <1>3 DEF PlacesOK
<1> QED
  BY <1>1, <1>2, <1>3, <1>4 DEF PlacesOK

(* Text and the flush at an IAC keep the events in order. *)
LEMMA PlacesOnData == ASSUME IndInv, OnData PROVE PlacesOK'
<1>0. Advance /\ PlacesOK
  BY IndInvParts DEF OnData
<1>1. CASE Current # CmdIAC
  <2>1. dataEv' = dataEv /\ dataStart' = dataStart /\ state = "Data"
    BY <1>1 DEF OnData
  <2> QED
    BY <1>0, <2>1, PlacesKept
<1>2. CASE Current = CmdIAC
  <2>1. /\ dataEv' = appendData(dataEv, dataStart, i) /\ dataStart' = dataStart
        /\ state = "Data" /\ state' = "IAC"
    BY <1>2 DEF OnData
  <2>2. /\ dataStart \in Nat /\ i \in Nat /\ dataStart <= i /\ i' = i + 1 /\ pc' = "parse"
        /\ i' \in 0..Len(data') /\ dataStart' \in 0..i' /\ i' \in Nat /\ i <= i'
    BY <1>0, <2>1, AdvanceFacts
  <2>3. /\ dataEv' \in Seq(Nat \X Nat) /\ Len(dataEv') <= MaxDataEvents
        /\ Ordered(dataEv') /\ Behind(dataEv', i)
    BY <1>0, <2>1, <2>2, AppendDataOrdered DEF PlacesOK
  <2>4. Behind(dataEv', i')
    BY <2>2, <2>3, BehindMore
  <2> QED
    BY <2>1, <2>2, <2>3, <2>4 DEF PlacesOK
<1> QED
  BY <1>1, <1>2

(* The escaped IAC goes into an event behind all others. *)
LEMMA PlacesOnEscaped == ASSUME IndInv, OnIACEscaped PROVE PlacesOK'
<1>0. Advance /\ PlacesOK
  BY IndInvParts DEF OnIACEscaped
<1>1. dataEv' = appendData(dataEv, i, i + 1) /\ dataStart' = i + 1
  BY DEF OnIACEscaped
<1>2. /\ i \in Nat /\ i + 1 \in Nat /\ i <= i + 1 /\ i' = i + 1 /\ i' \in 0..Len(data')
      /\ dataStart' \in 0..i'
  BY <1>0, <1>1, AdvanceFacts
<1>3. /\ dataEv' \in Seq(Nat \X Nat) /\ Len(dataEv') <= MaxDataEvents
      /\ Ordered(dataEv') /\ Behind(dataEv', i + 1)
  BY <1>0, <1>1, <1>2, AppendDataOrdered DEF PlacesOK
<1> QED
  BY <1>1, <1>2, <1>3 DEF PlacesOK

(* One byte of the loop keeps the events in order. *)
LEMMA PlacesStep == ASSUME IndInv, ParseByte PROVE PlacesOK'
<1>1. CASE OnIACVerb
  BY <1>1, PlacesKept DEF OnIACVerb, result
<1>2. CASE OnIACSB
  BY <1>2, PlacesKept DEF OnIACSB, result
<1>3. CASE OnIACOther
  BY <1>3, PlacesKept DEF OnIACOther, result
<1>4. CASE OnNegotiation
  BY <1>4, PlacesKept DEF OnNegotiation
<1>5. CASE OnSubnegotiationOption
  BY <1>5, PlacesKept DEF OnSubnegotiationOption, result
<1>6. CASE OnSubnegotiation
  BY <1>6, PlacesKept DEF OnSubnegotiation, result
<1>7. CASE OnSubnegotiationEnd
  BY <1>7, PlacesKept DEF OnSubnegotiationEnd
<1>8. CASE OnSubnegotiationIAC
  BY <1>8, PlacesKept DEF OnSubnegotiationIAC, result
<1> QED
  BY <1>1, <1>2, <1>3, <1>4, <1>5, <1>6, <1>7, <1>8, PlacesOnData, PlacesOnEscaped
     DEF ParseByte

(* The accumulator, the pending bytes and the other event tables keep      *)
(* their types and their limits.                                           *)
LEMMA FieldsStep == ASSUME IndInv, ParseByte PROVE FieldsOK'
<1>1. FieldsOK /\ (state = "Negotiation" => cmd \in Verbs)
  BY IndInvParts DEF SyncOK, RefOK
<1>2. Advance
  BY DEF ParseByte, OnData, OnIACEscaped, OnIACVerb, OnIACSB, OnIACOther, OnNegotiation,
     OnSubnegotiationOption, OnSubnegotiation, OnSubnegotiationEnd, OnSubnegotiationIAC
<1>3. Current \in Byte /\ data' = data /\ pc' = "parse"
  BY <1>2, AdvanceFacts
<1>4. SnCap \in Nat /\ MaxCmdEvents \in Nat /\ MaxSNEvents \in Nat /\ CmdIAC \in Byte
  BY ParserAssumption
<1>5. CASE OnData
  BY <1>1, <1>3, <1>5 DEF OnData, FieldsOK, States
<1>6. CASE OnIACEscaped
  BY <1>1, <1>3, <1>6 DEF OnIACEscaped, FieldsOK, States
<1>7. CASE OnIACVerb
  BY <1>1, <1>3, <1>7 DEF OnIACVerb, FieldsOK, States, result
<1>8. CASE OnIACSB
  BY <1>1, <1>3, <1>4, <1>8 DEF OnIACSB, FieldsOK, States, result
<1>9. CASE OnIACOther
  BY <1>1, <1>3, <1>9 DEF OnIACOther, FieldsOK, States, result
<1>10. CASE OnNegotiation
  <2>1. <<cmd, Current>> \in Verbs \X Byte
    BY <1>1, <1>3, <1>10 DEF OnNegotiation
  <2>2. cmdEv' \in Seq(Verbs \X Byte) /\ Len(cmdEv') <= MaxCmdEvents
    BY <1>1, <1>4, <1>10, <2>1 DEF OnNegotiation, FieldsOK, appendCommand
  <2> QED
    BY <1>1, <1>3, <1>10, <2>2 DEF OnNegotiation, FieldsOK, States
<1>11. CASE OnSubnegotiationOption
  BY <1>1, <1>3, <1>11 DEF OnSubnegotiationOption, FieldsOK, States, result
<1>12. CASE OnSubnegotiation
  <2>1. SnBuf.arr \in [1..SnCap -> Byte] /\ SnBuf.len \in 0..SnCap
    BY <1>1 DEF SnBuf, FieldsOK
  <2>2. snArr' \in [1..SnCap -> Byte] /\ snLen' \in 0..SnCap
    <3>1. CASE Current = CmdIAC
      BY <1>12, <2>1, <3>1 DEF OnSubnegotiation, SetSnBuf
    <3>2. CASE Current # CmdIAC
      BY <1>3, <1>12, <2>1, <3>2, SnWriteType DEF OnSubnegotiation, SetSnBuf
    <3> QED
      BY <3>1, <3>2
  <2> QED
    BY <1>1, <1>3, <1>12, <2>2 DEF OnSubnegotiation, FieldsOK, States, result
<1>13. CASE OnSubnegotiationEnd
  <2>1. <<snOption, snLen>> \in Byte \X (0..SnCap)
    BY <1>1 DEF FieldsOK
  <2>2. snEv' \in Seq(Byte \X (0..SnCap)) /\ Len(snEv') <= MaxSNEvents
    BY <1>1, <1>4, <1>13, <2>1 DEF OnSubnegotiationEnd, FieldsOK, appendSubnegotiation
  <2> QED
    BY <1>1, <1>3, <1>13, <2>2 DEF OnSubnegotiationEnd, FieldsOK, States
<1>14. CASE OnSubnegotiationIAC
  <2> DEFINE sn == SnWrite(SnBuf, CmdIAC)
  <2>1. SnBuf.arr \in [1..SnCap -> Byte] /\ SnBuf.len \in 0..SnCap
    BY <1>1 DEF SnBuf, FieldsOK
  <2>2. sn.arr \in [1..SnCap -> Byte] /\ sn.len \in 0..SnCap
    BY <1>4, <2>1, SnWriteType
  <2>3. snArr' = SnWrite(sn, Current).arr /\ snLen' = SnWrite(sn, Current).len
    BY <1>14 DEF OnSubnegotiationIAC, SetSnBuf
  <2> HIDE DEF sn
  <2>4. snArr' \in [1..SnCap -> Byte] /\ snLen' \in 0..SnCap
    BY <1>3, <2>2, <2>3, SnWriteType
  <2> QED
    BY <1>1, <1>3, <1>14, <2>4 DEF OnSubnegotiationIAC, FieldsOK, States, result
<1> QED
  BY <1>5, <1>6, <1>7, <1>8, <1>9, <1>10, <1>11, <1>12, <1>13, <1>14 DEF ParseByte

(* A byte that completes no command leaves the command lists alone. *)
LEMMA CommandsKept ==
    ASSUME CommandsDecoded, cmdEv' = cmdEv, cmds' = cmds
    PROVE  CommandsDecoded'
  BY DEF CommandsDecoded

(* One more command on both sides keeps the event table a prefix of the commands. *)
LEMMA CommandAdded ==
    ASSUME NEW S, NEW ev \in Seq(S), NEW cs \in Seq(S), NEW e \in S, NEW m \in Nat,
           ev = SubSeq(cs, 1, IF Len(cs) < m THEN Len(cs) ELSE m)
    PROVE  (IF Len(ev) < m THEN Append(ev, e) ELSE ev)
              = SubSeq(Append(cs, e), 1,
                       IF Len(Append(cs, e)) < m THEN Len(Append(cs, e)) ELSE m)
<1> DEFINE n == Len(cs)
           a == Append(cs, e)
<1>0. n \in Nat /\ a \in Seq(S) /\ Len(a) = n + 1
      /\ (\A k \in 1..n : a[k] = cs[k]) /\ a[n + 1] = e
  OBVIOUS
<1> HIDE DEF a
<1>1. CASE n < m
  <2>1. ev = cs
    BY <1>0, <1>1, SubSeqFull
  <2>2. (IF n + 1 < m THEN n + 1 ELSE m) = n + 1
    BY <1>0, <1>1
  <2>3. SubSeq(a, 1, n + 1) = a
    BY <1>0, SubSeqFull
  <2> QED
    BY <1>0, <1>1, <2>1, <2>2, <2>3 DEF a
<1>2. CASE n >= m
  <2>1. ev = SubSeq(cs, 1, m)
    BY <1>0, <1>2
  <2>2. (\A k \in 1..m : cs[k] \in S) /\ (\A k \in 1..m : a[k] \in S)
    BY <1>0, <1>2
  <2>3. /\ Len(ev) = m
        /\ \A k \in 1..m : ev[k] = cs[k]
    BY <2>1, <2>2, SubSeqProperties
  <2>4. /\ SubSeq(a, 1, m) \in Seq(S) /\ Len(SubSeq(a, 1, m)) = m
        /\ \A k \in 1..m : SubSeq(a, 1, m)[k] = a[k]
    BY <2>2, SubSeqProperties
  <2>5. \A k \in 1..m : ev[k] = SubSeq(a, 1, m)[k]
    BY <1>0, <1>2, <2>3, <2>4
  <2>6. ev = SubSeq(a, 1, m)
    BY <2>3, <2>4, <2>5, SeqEqual
  <2> QED
    BY <1>0, <1>2, <2>3, <2>6 DEF a
<1> QED
  BY <1>0, <1>1, <1>2

(* One byte moves the parser and the reference decoder alike. *)
LEMMA SyncStep == ASSUME IndInv, ParseByte PROVE SyncOK'
<1>1. InSync /\ RefOK /\ CommandsDecoded /\ FieldsOK
  BY IndInvParts DEF SyncOK
<1>2. Advance
  BY DEF ParseByte, OnData, OnIACEscaped, OnIACVerb, OnIACSB, OnIACOther, OnNegotiation,
     OnSubnegotiationOption, OnSubnegotiation, OnSubnegotiationEnd, OnSubnegotiationIAC
<1>3. Current \in Byte /\ pc' = "parse" /\ Take(Current)
  BY <1>2, AdvanceFacts
<1>4. CASE OnData
  <2>1. TextByte(Current)
    BY <1>1, <1>3, <1>4 DEF OnData, InSync, Take, TextByte, AfterIAC, OptionByte, SubOption,
       SubByte, SubAfterIAC
  <2> QED
    BY <1>1, <1>3, <1>4, <2>1, CommandsKept DEF OnData, TextByte, SyncOK, InSync, RefOK
<1>5. CASE OnIACEscaped \/ OnIACVerb \/ OnIACSB \/ OnIACOther
  <2>1. AfterIAC(Current)
    BY <1>1, <1>3, <1>5 DEF OnIACEscaped, OnIACVerb, OnIACSB, OnIACOther, InSync, Take,
       TextByte, AfterIAC, OptionByte, SubOption, SubByte, SubAfterIAC
  <2>2. cmdEv' = cmdEv /\ cmds' = cmds
    BY <1>5, <2>1 DEF OnIACEscaped, OnIACVerb, OnIACSB, OnIACOther, AfterIAC, result
  <2>3. InSync'
    BY <1>5, <2>1 DEF OnIACEscaped, OnIACVerb, OnIACSB, OnIACOther, AfterIAC, InSync,
       Verbs, CmdWill, CmdWont, CmdDo, CmdDont, CmdSB, CmdIAC
  <2>4. RefOK'
    BY <1>1, <1>3, <1>5, <2>1 DEF OnIACEscaped, OnIACVerb, OnIACSB, OnIACOther, AfterIAC,
       RefOK, Verbs, CmdWill, CmdWont, CmdDo, CmdDont, CmdSB, CmdIAC
  <2> QED
    BY <1>1, <2>2, <2>3, <2>4, CommandsKept DEF SyncOK
<1>6. CASE OnNegotiation
  <2>1. OptionByte(Current)
    BY <1>1, <1>3, <1>6 DEF OnNegotiation, InSync, Take, TextByte, AfterIAC, OptionByte,
       SubOption, SubByte, SubAfterIAC
  <2>2. /\ cmdEv' = IF Len(cmdEv) < MaxCmdEvents THEN Append(cmdEv, <<cmd, Current>>)
                     ELSE cmdEv
        /\ cmds' = Append(cmds, <<cmd, Current>>)
        /\ <<cmd, Current>> \in Verbs \X Byte
    BY <1>1, <1>3, <1>6, <2>1 DEF OnNegotiation, OptionByte, RefOK, appendCommand
  <2>3. CommandsDecoded'
    BY <1>1, <2>2, ParserAssumption, CommandAdded, SMTT(30) DEF CommandsDecoded, RefOK, FieldsOK
  <2>4. InSync' /\ RefOK'
    BY <1>1, <1>3, <1>6, <2>1, <2>2 DEF OnNegotiation, OptionByte, InSync, RefOK
  <2> QED
    BY <2>3, <2>4 DEF SyncOK
<1>7. CASE OnSubnegotiationOption
  <2>1. SubOption(Current)
    BY <1>1, <1>3, <1>7 DEF OnSubnegotiationOption, InSync, Take, TextByte, AfterIAC,
       OptionByte, SubOption, SubByte, SubAfterIAC
  <2> QED
    BY <1>1, <1>3, <1>7, <2>1, CommandsKept
       DEF OnSubnegotiationOption, SubOption, SyncOK, InSync, RefOK, result
<1>8. CASE OnSubnegotiation
  <2>1. SubByte(Current)
    BY <1>1, <1>3, <1>8 DEF OnSubnegotiation, InSync, Take, TextByte, AfterIAC, OptionByte,
       SubOption, SubByte, SubAfterIAC
  <2> QED
    BY <1>1, <1>3, <1>8, <2>1, CommandsKept
       DEF OnSubnegotiation, SubByte, SyncOK, InSync, RefOK, result
<1>9. CASE OnSubnegotiationEnd \/ OnSubnegotiationIAC
  <2>1. SubAfterIAC(Current)
    BY <1>1, <1>3, <1>9 DEF OnSubnegotiationEnd, OnSubnegotiationIAC, InSync, Take, TextByte,
       AfterIAC, OptionByte, SubOption, SubByte, SubAfterIAC
  <2>2. cmdEv' = cmdEv /\ cmds' = cmds
    BY <1>9, <2>1 DEF OnSubnegotiationEnd, OnSubnegotiationIAC, SubAfterIAC, result
  <2>3. InSync' /\ RefOK'
    BY <1>1, <1>3, <1>9, <2>1
       DEF OnSubnegotiationEnd, OnSubnegotiationIAC, SubAfterIAC, InSync, RefOK
  <2> QED
    BY <1>1, <2>2, <2>3, CommandsKept DEF SyncOK
<1> QED
  BY <1>4, <1>5, <1>6, <1>7, <1>8, <1>9 DEF ParseByte
----------------------------------------------------------------------------
(* Before any command, both lists are empty. *)
LEMMA EmptyPrefix ==
    ASSUME NEW cs, NEW m \in Nat, Len(cs) = 0
    PROVE  << >> = SubSeq(cs, 1, IF Len(cs) < m THEN Len(cs) ELSE m)
<1>1. (IF Len(cs) < m THEN Len(cs) ELSE m) = 0
  OBVIOUS
<1>2. SubSeq(cs, 1, 0) = << >>
  BY SubSeqEmpty
<1> QED
  BY <1>1, <1>2

(* NewParser establishes the invariant. *)
LEMMA InitIndInv == Init => IndInv
<1> SUFFICES ASSUME Init PROVE IndInv
  OBVIOUS
<1>1. /\ MaxDataEvents \in Nat /\ MaxCmdEvents \in Nat /\ MaxSNEvents \in Nat
      /\ SnCap \in Nat /\ 0 \in Byte
  BY ParserAssumption
<1>2. FieldsOK
  BY <1>1 DEF Init, FieldsOK, States
<1>3. PlacesOK
  BY <1>1 DEF Init, PlacesOK, Ordered, Behind
<1>4. CommandsDecoded
  <2>1. cmdEv = << >> /\ cmds = << >> /\ Len(cmds) = 0
    BY DEF Init, RefInit
  <2> QED
    BY <1>1, <2>1, EmptyPrefix DEF CommandsDecoded
<1>5. InSync /\ RefOK
  BY <1>1 DEF Init, RefInit, InSync, RefOK
<1> QED
  BY <1>2, <1>3, <1>4, <1>5, IndInvParts DEF SyncOK

(* A call of Parse starts with empty tables on both sides. *)
LEMMA FeedStep == ASSUME IndInv, NEW chunk \in Chunks, Feed(chunk) PROVE IndInv'
<1>1. FieldsOK /\ InSync /\ RefOK
  BY IndInvParts DEF SyncOK
<1>2. /\ MaxDataEvents \in Nat /\ MaxCmdEvents \in Nat /\ MaxSNEvents \in Nat
      /\ chunk \in Seq(Byte) /\ Len(chunk) \in Nat
  BY ParserAssumption
<1>3. FieldsOK'
  BY <1>1, <1>2 DEF Feed, FieldsOK, parserVars
<1>4. PlacesOK'
  BY <1>2 DEF Feed, PlacesOK, Ordered, Behind
<1>5. CommandsDecoded'
  <2>1. cmdEv' = << >> /\ cmds' = << >> /\ Len(cmds') = 0
    BY DEF Feed, Mark
  <2> QED
    BY <1>2, <2>1, EmptyPrefix DEF CommandsDecoded
<1>6. InSync' /\ RefOK'
  BY <1>1 DEF Feed, Mark, InSync, RefOK, parserVars
<1> QED
  BY <1>3, <1>4, <1>5, <1>6, IndInvParts, PTL DEF SyncOK

(* The flush at the end of Parse adds the last piece of the chunk. *)
LEMMA EndStep == ASSUME IndInv, EndParse PROVE IndInv'
<1>1. FieldsOK /\ PlacesOK /\ InSync /\ RefOK /\ CommandsDecoded
  BY IndInvParts DEF SyncOK
<1>2. /\ i = Len(data) /\ i' = i /\ data' = data /\ dataStart' = i /\ pc = "parse"
      /\ pc' = "idle" /\ i \in Nat /\ dataStart \in Nat /\ dataStart <= i
      /\ i' \in 0..Len(data') /\ dataStart' \in 0..i'
  BY <1>1 DEF EndParse, FieldsOK, PlacesOK
<1>3. FieldsOK'
  BY <1>1 DEF EndParse, FieldsOK, parserVars
<1>4. /\ dataEv' \in Seq(Nat \X Nat) /\ Len(dataEv') <= MaxDataEvents
      /\ Ordered(dataEv') /\ Behind(dataEv', i)
  <2>1. CASE state = "Data" /\ dataStart < Len(data)
    <3>1. dataEv' = appendData(dataEv, dataStart, i) /\ Behind(dataEv, dataStart)
      BY <1>1, <1>2, <2>1 DEF EndParse, PlacesOK
    <3> QED
      BY <1>1, <1>2, <3>1, AppendDataOrdered DEF PlacesOK
  <2>2. CASE ~(state = "Data" /\ dataStart < Len(data))
    <3>1. dataEv' = dataEv
      BY <2>2 DEF EndParse
    <3> QED
      BY <1>1, <3>1 DEF PlacesOK
  <2> QED
    BY <2>1, <2>2
<1>5. PlacesOK'
  BY <1>2, <1>4 DEF PlacesOK
<1>6. CommandsDecoded'
  BY <1>1, CommandsKept DEF EndParse, refVars
<1>7. InSync' /\ RefOK'
  BY <1>1, <1>2 DEF EndParse, InSync, RefOK, parserVars, refVars
<1> QED
  BY <1>3, <1>5, <1>6, <1>7, IndInvParts, PTL DEF SyncOK

(* Reset keeps the invariant. *)
LEMMA ResetStep == ASSUME IndInv, Reset PROVE IndInv'
<1>1. FieldsOK /\ PlacesOK /\ InSync /\ RefOK /\ CommandsDecoded
  BY IndInvParts DEF SyncOK
<1>2. 0 \in Byte /\ SnCap \in Nat /\ pc = "idle" /\ pc' = "idle" /\ i' = i
      /\ dataStart' = dataStart /\ data' = data /\ dataEv' = dataEv
  BY ParserAssumption DEF Reset, local, result
<1>3. FieldsOK'
  BY <1>1, <1>2 DEF Reset, FieldsOK, States, result
<1>4. PlacesOK'
  BY <1>1, <1>2 DEF PlacesOK
<1>5. CommandsDecoded'
  BY <1>1, CommandsKept DEF Reset, Restart, result
<1>6. InSync' /\ RefOK'
  BY <1>1, <1>2 DEF Reset, Restart, InSync, RefOK
<1> QED
  BY <1>3, <1>4, <1>5, <1>6, IndInvParts, PTL DEF SyncOK

(* A stutter keeps the invariant. *)
LEMMA StutterStep == ASSUME IndInv, UNCHANGED vars PROVE IndInv'
  BY DEF IndInv, TypeOK, EventsOrdered, EventsBehind, InSync, RefOK, CommandsDecoded, States,
     vars, parserVars, local, result, refVars

(* A byte keeps the invariant. *)
LEMMA ParseByteStep == ASSUME IndInv, ParseByte PROVE IndInv'
<1>1. FieldsOK' /\ PlacesOK' /\ SyncOK'
  BY FieldsStep, PlacesStep, SyncStep
<1> QED
  BY <1>1, IndInvParts, PTL

(* IndInv is an invariant of Parser. *)
LEMMA Invariance == Spec => []IndInv
<1>1. IndInv /\ [Next]_vars => IndInv'
  BY FeedStep, ParseByteStep, EndStep, ResetStep, StutterStep DEF Next
<1> QED
  BY <1>1, InitIndInv, PTL DEF Spec

----------------------------------------------------------------------------
(* The piece of the chunk d from the offset lo up to hi. *)
Cut(d, lo, hi) == SubSeq(d, lo + 1, hi)

(* The bytes that a list of pieces takes out of the chunk d. *)
Slices(ev, d) == [k \in 1..Len(ev) |-> Cut(d, ev[k][1], ev[k][2])]
Joined(ev, d) == FlattenSeq(Slices(ev, d))

(* The pieces lie in the chunk. *)
Within(ev, d) == \A k \in 1..Len(ev) : ev[k][2] <= Len(d)

(* The bytes of one piece. *)
LEMMA SliceAt ==
    ASSUME NEW ev, NEW d, NEW k \in 1..Len(ev)
    PROVE  Slices(ev, d)[k] = Cut(d, ev[k][1], ev[k][2])
  BY DEF Slices

(* Lists that agree on their first n pieces have the same slices there. *)
LEMMA SlicesSame ==
    ASSUME NEW d, NEW ev, NEW r, NEW n \in Nat, Len(ev) \in Nat, Len(r) \in Nat,
           n <= Len(ev), n <= Len(r), \A k \in 1..n : r[k] = ev[k]
    PROVE  \A k \in 1..n : Slices(r, d)[k] = Slices(ev, d)[k]
<1>1. ASSUME NEW k \in 1..n PROVE Slices(r, d)[k] = Slices(ev, d)[k]
  <2>1. k \in 1..Len(ev) /\ k \in 1..Len(r) /\ r[k] = ev[k]
    OBVIOUS
  <2>2. Slices(r, d)[k] = Cut(d, r[k][1], r[k][2])
    BY <2>1, SliceAt
  <2>3. Slices(ev, d)[k] = Cut(d, ev[k][1], ev[k][2])
    BY <2>1, SliceAt
  <2> QED
    BY <2>1, <2>2, <2>3
<1> QED
  BY <1>1

(* A piece of the chunk is a sequence of bytes. *)
LEMMA PieceType ==
    ASSUME NEW d \in Seq(Byte), NEW a \in Nat, NEW b \in Nat, b <= Len(d)
    PROVE  Cut(d, a, b) \in Seq(Byte)
<1>1. \A k \in (a + 1)..b : d[k] \in Byte
  OBVIOUS
<1> QED
  BY <1>1, SubSeqProperties DEF Cut

(* The slices are sequences of bytes. *)
LEMMA SlicesType ==
    ASSUME NEW d \in Seq(Byte), NEW ev \in Seq(Nat \X Nat), Within(ev, d)
    PROVE  Slices(ev, d) \in [1..Len(ev) -> Seq(Byte)]
<1>1. ASSUME NEW k \in 1..Len(ev) PROVE Cut(d, ev[k][1], ev[k][2]) \in Seq(Byte)
  <2>1. ev[k][1] \in Nat /\ ev[k][2] \in Nat /\ ev[k][2] <= Len(d)
    BY DEF Within
  <2> QED
    BY <2>1, PieceType
<1> QED
  BY <1>1 DEF Slices

(* No pieces, no bytes. *)
LEMMA JoinedEmpty == ASSUME NEW d PROVE Joined(<< >>, d) = << >>
<1>1. Slices(<< >>, d) = << >>
  BY DEF Slices
<1> QED
  BY <1>1, FlattenEmpty DEF Joined

(* The bytes of the last piece come last. *)
LEMMA JoinedLast ==
    ASSUME NEW d \in Seq(Byte), NEW ev \in Seq(Nat \X Nat), Within(ev, d),
           NEW n \in Nat, Len(ev) = n + 1
    PROVE  /\ FlattenSeq([k \in 1..n |-> Slices(ev, d)[k]]) \in Seq(Byte)
           /\ Joined(ev, d) \in Seq(Byte)
           /\ Joined(ev, d) = FlattenSeq([k \in 1..n |-> Slices(ev, d)[k]])
                                \o Cut(d, ev[n + 1][1], ev[n + 1][2])
<1> DEFINE ss == Slices(ev, d)
<1>1. ss \in [1..(n + 1) -> Seq(Byte)]
  BY SlicesType
<1>2. ss[n + 1] = Cut(d, ev[n + 1][1], ev[n + 1][2])
  <2>1. n + 1 \in 1..Len(ev)
    OBVIOUS
  <2> QED
    BY <2>1, SliceAt
<1> HIDE DEF ss
<1>3. /\ FlattenSeq([k \in 1..n |-> ss[k]]) \in Seq(Byte)
      /\ FlattenSeq(ss) = FlattenSeq([k \in 1..n |-> ss[k]]) \o ss[n + 1]
      /\ FlattenSeq(ss) \in Seq(Byte)
  BY <1>1, FlattenLast
<1> QED
  BY <1>2, <1>3 DEF Joined, ss

(* What the pieces hold is a sequence of bytes. *)
LEMMA JoinedType ==
    ASSUME NEW d \in Seq(Byte), NEW ev \in Seq(Nat \X Nat), Within(ev, d)
    PROVE  Joined(ev, d) \in Seq(Byte)
<1>1. CASE ev = << >>
  <2>1. << >> \in Seq(Byte)
    BY EmptySeq
  <2> QED
    BY <1>1, <2>1, JoinedEmpty, Zenon
<1>2. CASE ev # << >>
  <2>1. Len(ev) - 1 \in Nat /\ Len(ev) = (Len(ev) - 1) + 1
    BY <1>2
  <2> QED
    BY <2>1, JoinedLast
<1> QED
  BY <1>1, <1>2

(* A new piece adds its bytes at the end. *)
LEMMA JoinedAppend ==
    ASSUME NEW d \in Seq(Byte), NEW ev \in Seq(Nat \X Nat), Within(ev, d),
           NEW lo \in Nat, NEW hi \in Nat, hi <= Len(d)
    PROVE  Joined(Append(ev, <<lo, hi>>), d) = Joined(ev, d) \o Cut(d, lo, hi)
<1> DEFINE n == Len(ev)
           e == <<lo, hi>>
           r == Append(ev, e)
<1>1. n \in Nat /\ e \in Nat \X Nat /\ e[1] = lo /\ e[2] = hi
  OBVIOUS
<1> HIDE DEF e
<1>2. r \in Seq(Nat \X Nat) /\ Len(r) = n + 1 /\ r[n + 1] = e /\ \A k \in 1..n : r[k] = ev[k]
  BY <1>1
<1> HIDE DEF r
<1>3. Within(r, d)
  <2>1. ASSUME NEW k \in 1..(n + 1) PROVE r[k][2] <= Len(d)
    <3>1. k = n + 1 \/ k \in 1..n
      BY <1>1
    <3> QED
      BY <1>1, <1>2, <3>1 DEF Within
  <2> QED
    BY <1>2, <2>1 DEF Within
<1>4. [k \in 1..n |-> Slices(r, d)[k]] = Slices(ev, d)
  <2>1. n <= Len(ev) /\ n <= Len(r) /\ Len(ev) \in Nat /\ Len(r) \in Nat /\ n \in Nat
    BY <1>1, <1>2
  <2>2. \A k \in 1..n : r[k] = ev[k]
    BY <1>2
  <2>4. \A k \in 1..n : Slices(r, d)[k] = Slices(ev, d)[k]
    <3> HIDE DEF n
    <3> QED
      BY <2>1, <2>2, SlicesSame, ZenonT(60)
  <2>3. [k \in 1..n |-> Slices(ev, d)[k]] = Slices(ev, d)
    BY SlicesType
  <2> QED
    BY <2>3, <2>4
<1>5. Joined(r, d) = Joined(ev, d) \o Cut(d, r[n + 1][1], r[n + 1][2])
  <2>1. Joined(r, d) = FlattenSeq([k \in 1..n |-> Slices(r, d)[k]])
                         \o Cut(d, r[n + 1][1], r[n + 1][2])
    BY <1>1, <1>2, <1>3, JoinedLast
  <2> QED
    BY <1>4, <2>1 DEF Joined
<1> QED
  BY <1>1, <1>2, <1>5 DEF r, e

(* Two pieces that meet are one. *)
LEMMA PiecesMeet ==
    ASSUME NEW d \in Seq(Byte), NEW a \in Nat, NEW lo \in Nat, NEW hi \in Nat,
           a <= lo, lo <= hi, hi <= Len(d)
    PROVE  Cut(d, a, lo) \o Cut(d, lo, hi) = Cut(d, a, hi)
<1>1. /\ a + 1 \in 1..(Len(d) + 1) /\ lo \in ((a + 1) - 1)..Len(d) /\ hi \in lo..Len(d)
  OBVIOUS
<1> QED
  BY <1>1, ConcatAdjacentSubSeq DEF Cut

(* The piece of d from a to hi, cut at lo. *)
Splits(d, a, lo, hi) ==
    /\ d \in Seq(Byte) /\ a \in Nat /\ lo \in Nat /\ hi \in Nat
    /\ a <= lo /\ lo <= hi /\ hi <= Len(d)

(* What follows f, z, is x and then y. *)
Follows(f, x, y, z) == f \o z = (f \o x) \o y

(* What ends with a piece that grows grows by as much. *)
LEMMA LastGrows ==
    ASSUME NEW d, NEW a, NEW lo, NEW hi, Splits(d, a, lo, hi), NEW f \in Seq(Byte)
    PROVE  Follows(f, Cut(d, a, lo), Cut(d, lo, hi), Cut(d, a, hi))
<1> DEFINE x == Cut(d, a, lo)
           y == Cut(d, lo, hi)
           z == Cut(d, a, hi)
<1>1. /\ d \in Seq(Byte) /\ a \in Nat /\ lo \in Nat /\ hi \in Nat
      /\ a <= lo /\ lo <= hi /\ hi <= Len(d) /\ lo <= Len(d)
  BY DEF Splits
<1>2. x \in Seq(Byte) /\ y \in Seq(Byte)
  BY <1>1, PieceType
<1>3. z = x \o y
  BY <1>1, PiecesMeet
<1>4. (f \o x) \o y = f \o (x \o y)
  <2> HIDE DEF x, y
  <2> QED
    BY ONLY f \in Seq(Byte), <1>2, ConcatAssociative, SMTT(30)
<1> QED
  BY ONLY <1>3, <1>4 DEF Follows

(* A last piece that grows adds the bytes it grows by. *)
LEMMA JoinedGrow ==
    ASSUME NEW d \in Seq(Byte), NEW ev \in Seq(Nat \X Nat), Within(ev, d), ev # << >>,
           NEW hi \in Nat, hi <= Len(d), Ordered(ev), ev[Len(ev)][2] <= hi
    PROVE  Joined([ev EXCEPT ![Len(ev)] = <<@[1], hi>>], d)
              = Joined(ev, d) \o Cut(d, ev[Len(ev)][2], hi)
<1> DEFINE m == Len(ev)
           n == m - 1
           e == <<ev[m][1], hi>>
           r == [ev EXCEPT ![m] = e]
           lo == ev[m][2]
           a == ev[m][1]
<1>1. /\ n \in Nat /\ m = n + 1 /\ m \in 1..m /\ a \in Nat /\ lo \in Nat /\ a <= lo
      /\ a < lo
  <2>1. m \in Nat /\ m # 0
    OBVIOUS
  <2>2. m \in 1..m
    BY <2>1
  <2>3. a \in Nat /\ lo \in Nat /\ a < lo
    BY <2>2 DEF Ordered
  <2> QED
    BY <2>1, <2>2, <2>3
<1>2. e \in Nat \X Nat /\ e[1] = a /\ e[2] = hi
  BY <1>1
<1> HIDE DEF e
<1>3. /\ r \in Seq(Nat \X Nat) /\ Len(r) = m /\ r[m] = e
      /\ \A k \in 1..n : r[k] = ev[k]
  BY <1>1, <1>2, ExceptSeq
<1>4. r = [ev EXCEPT ![Len(ev)] = <<@[1], hi>>]
  BY DEF e
<1> HIDE DEF r
<1>5. Within(r, d)
  <2>1. ASSUME NEW k \in 1..m PROVE r[k][2] <= Len(d)
    <3>1. k = m \/ k \in 1..n
      <4> HIDE DEF n, m
      <4> QED
        BY <1>1
    <3> QED
      BY <1>2, <1>3, <3>1 DEF Within
  <2> QED
    BY <1>3, <2>1 DEF Within
<1> DEFINE front == FlattenSeq([k \in 1..n |-> Slices(ev, d)[k]])
<1>6. [k \in 1..n |-> Slices(r, d)[k]] = [k \in 1..n |-> Slices(ev, d)[k]]
  <2>1. n <= Len(ev) /\ n <= Len(r) /\ Len(ev) \in Nat /\ Len(r) \in Nat
    BY <1>1, <1>3
  <2> HIDE DEF n
  <2>2. \A k \in 1..n : Slices(r, d)[k] = Slices(ev, d)[k]
    BY <1>1, <1>3, <2>1, SlicesSame, ZenonT(60)
  <2> QED
    BY <2>2
<1>7. front \in Seq(Byte) /\ Joined(ev, d) = front \o Cut(d, a, lo)
  BY <1>1, JoinedLast, ZenonT(60)
<1>8. Joined(r, d) = front \o Cut(d, a, hi)
  <2>1. Joined(r, d) = front \o Cut(d, r[n + 1][1], r[n + 1][2])
    <3>1. Len(r) = n + 1
      BY <1>1, <1>3
    <3>2. Joined(r, d) = FlattenSeq([k \in 1..n |-> Slices(r, d)[k]])
                           \o Cut(d, r[n + 1][1], r[n + 1][2])
      <4> HIDE DEF n, m
      <4> QED
        BY <1>1, <1>3, <1>5, <3>1, JoinedLast
    <3> QED
      BY <1>6, <3>2
  <2> HIDE DEF front, a
  <2> QED
    BY <1>1, <1>2, <1>3, <2>1
<1>9. Joined(r, d) = Joined(ev, d) \o Cut(d, lo, hi)
  <2>1. lo <= hi /\ a <= lo /\ a \in Nat /\ lo \in Nat
    BY <1>1
  <2>2. front \o Cut(d, a, hi)
          = (front \o Cut(d, a, lo)) \o Cut(d, lo, hi)
    <3>1. front \in Seq(Byte)
      BY <1>7
    <3>2. Splits(d, a, lo, hi)
      BY <2>1 DEF Splits
    <3> HIDE DEF front, lo, a
    <3>3. Follows(front, Cut(d, a, lo), Cut(d, lo, hi), Cut(d, a, hi))
      BY ONLY <3>1, <3>2, LastGrows, Zenon
    <3> QED
      BY ONLY <3>3 DEF Follows
  <2> HIDE DEF front, lo, a
  <2> QED
    BY ONLY <1>7, <1>8, <2>2
<1> QED
  BY <1>4, <1>9
----------------------------------------------------------------------------
(* The table ends where the piece that starts at n begins. *)
Touches(ev, n) == ev # << >> /\ ev[Len(ev)][2] = n

(* An empty piece. *)
LEMMA CutEmpty == ASSUME NEW d, NEW a \in Nat PROVE Cut(d, a, a) = << >>
<1>1. a + 1 \in Int /\ a \in Int /\ a < a + 1
  OBVIOUS
<1> QED
  BY <1>1, SubSeqEmpty DEF Cut

(* A piece of one byte. *)
LEMMA CutOne ==
    ASSUME NEW d \in Seq(Byte), NEW k \in Nat, k + 1 <= Len(d)
    PROVE  Cut(d, k, k + 1) = <<d[k + 1]>>
<1> DEFINE s == SubSeq(d, k + 1, k + 1)
<1>1. d[k + 1] \in Byte /\ k + 1 \in Int
  OBVIOUS
<1>2. s \in Seq(Byte) /\ Len(s) = 1 /\ s[1] = d[k + 1]
  BY <1>1, SubSeqProperties
<1>3. <<d[k + 1]>> \in Seq(Byte) /\ Len(<<d[k + 1]>>) = 1 /\ <<d[k + 1]>>[1] = d[k + 1]
  BY <1>1
<1>4. s = <<d[k + 1]>>
  <2> HIDE DEF s
  <2> QED
    BY <1>2, <1>3, SeqEqual
<1> QED
  BY <1>4 DEF Cut

(* Adding nothing changes nothing. *)
LEMMA NothingAdded == ASSUME NEW S, NEW s \in Seq(S) PROVE s \o << >> = s
  BY ConcatEmptySeq

(* A list that ends before n does not touch n. *)
LEMMA BehindNotTouching ==
    ASSUME NEW ev \in Seq(Nat \X Nat), NEW m \in Nat, NEW n \in Nat, m < n, Behind(ev, m)
    PROVE  ~Touches(ev, n)
<1> SUFFICES ASSUME ev # << >> PROVE ev[Len(ev)][2] # n
  BY DEF Touches
<1>1. Len(ev) \in 1..Len(ev)
  OBVIOUS
<1>2. ev[Len(ev)][2] \in Nat /\ ev[Len(ev)][2] <= m
  BY <1>1 DEF Behind
<1> QED
  BY <1>2

(* What appendData stores: if the table held the decoded text but for the  *)
(* new piece, or a prefix of it when it is full, it does so afterwards.     *)
LEMMA AppendDataStored ==
    ASSUME NEW d \in Seq(Byte), NEW ev \in Seq(Nat \X Nat), Within(ev, d), Ordered(ev),
           NEW lo \in Nat, NEW hi \in Nat, lo <= hi, hi <= Len(d), Behind(ev, lo),
           NEW T \in Seq(Byte), IsPrefix(Joined(ev, d), T),
           Len(ev) < MaxDataEvents \/ Touches(ev, lo) => Joined(ev, d) \o Cut(d, lo, hi) = T
    PROVE  /\ IsPrefix(Joined(appendData(ev, lo, hi), d), T)
           /\ Len(appendData(ev, lo, hi)) < MaxDataEvents \/ Touches(appendData(ev, lo, hi), hi)
                => Joined(appendData(ev, lo, hi), d) = T
<1> DEFINE r == appendData(ev, lo, hi)
<1>0. Joined(ev, d) \in Seq(Byte)
  BY JoinedType
<1>1. CASE lo = hi
  <2>1. r = ev
    BY <1>1 DEF appendData
  <2>2. Joined(ev, d) \o Cut(d, lo, hi) = Joined(ev, d)
    <3>1. Cut(d, lo, hi) = << >>
      BY <1>1, CutEmpty
    <3>2. Joined(ev, d) \o << >> = Joined(ev, d)
      BY <1>0, NothingAdded
    <3> QED
      BY <3>1, <3>2
  <2> HIDE DEF r
  <2> QED
    BY <1>1, <2>1, <2>2 DEF r
<1>2. CASE lo < hi /\ Touches(ev, lo)
  <2>1. r = [ev EXCEPT ![Len(ev)] = <<@[1], hi>>]
    BY <1>2 DEF appendData, Touches
  <2>2. ev # << >> /\ ev[Len(ev)][2] = lo /\ ev[Len(ev)][2] <= hi
    BY <1>2 DEF Touches
  <2>3. Joined(r, d) = Joined(ev, d) \o Cut(d, lo, hi)
    <3>1. Joined([ev EXCEPT ![Len(ev)] = <<@[1], hi>>], d)
            = Joined(ev, d) \o Cut(d, ev[Len(ev)][2], hi)
      BY <2>2, JoinedGrow
    <3> QED
      BY <2>1, <2>2, <3>1
  <2>4. Joined(r, d) = T
    BY <1>2, <2>3
  <2>5. IsPrefix(T, T)
    BY PrefixSelf
  <2> HIDE DEF r
  <2> QED
    BY <2>4, <2>5 DEF r
<1>3. CASE lo < hi /\ ~Touches(ev, lo) /\ Len(ev) < MaxDataEvents
  <2>1. r = Append(ev, <<lo, hi>>)
    BY <1>3 DEF appendData, Touches
  <2>2. Joined(r, d) = Joined(ev, d) \o Cut(d, lo, hi)
    BY <2>1, JoinedAppend, SMTT(30)
  <2>3. Joined(r, d) = T
    BY <1>3, <2>2
  <2>4. IsPrefix(T, T)
    BY PrefixSelf
  <2> HIDE DEF r
  <2> QED
    BY <2>3, <2>4 DEF r
<1>4. CASE lo < hi /\ ~Touches(ev, lo) /\ ~(Len(ev) < MaxDataEvents)
  <2>1. r = ev
    BY <1>4 DEF appendData, Touches
  <2>2. ~Touches(ev, hi)
    BY <1>4, BehindNotTouching
  <2> HIDE DEF r
  <2> QED
    BY <1>4, <2>1, <2>2 DEF r
<1>5. lo = hi \/ lo < hi
  OBVIOUS
<1> QED
  BY <1>1, <1>2, <1>3, <1>4, <1>5

(* The table and the pending piece together hold the text of the chunk so  *)
(* far, as long as a piece can still be stored: there is room, or the      *)
(* pending piece extends the last one.  Between IAC and the end of its     *)
(* sequence no event touches the place being read.                         *)
DataInv ==
    /\ text \in Seq(Byte)
    /\ IsPrefix(Stored, text)
    /\ Len(dataEv) < MaxDataEvents \/ (pc = "parse" /\ state = "Data" /\ Touches(dataEv, dataStart))
          => Stored \o Pending = text
    /\ pc = "parse" /\ state # "Data" => ~Touches(dataEv, i)

(* Stored, in the terms of the lemmas, before and after a step. *)
LEMMA StoredIs == Stored = Joined(dataEv, data)
  BY DEF Stored, Slice, Joined, Slices, Cut

(* What the invariant says of the table. *)
LEMMA TableFacts ==
    ASSUME IndInv
    PROVE  /\ data \in Seq(Byte) /\ i \in Nat /\ i <= Len(data)
           /\ dataStart \in Nat /\ dataStart <= i
           /\ dataEv \in Seq(Nat \X Nat) /\ Ordered(dataEv) /\ Behind(dataEv, i)
           /\ Within(dataEv, data) /\ Stored \in Seq(Byte)
           /\ (state = "Data" \/ pc = "idle") => Behind(dataEv, dataStart)
<1>1. /\ data \in Seq(Byte) /\ i \in Nat /\ i <= Len(data)
      /\ dataStart \in Nat /\ dataStart <= i
      /\ dataEv \in Seq(Nat \X Nat) /\ Ordered(dataEv) /\ Behind(dataEv, i)
      /\ (state = "Data" \/ pc = "idle") => Behind(dataEv, dataStart)
  BY IndInvParts DEF FieldsOK, PlacesOK
<1>2. Len(data) \in Nat
  BY <1>1
<1>3. Within(dataEv, data)
  BY <1>1, <1>2, BehindMore DEF Within, Behind
<1>4. Stored \in Seq(Byte)
  BY <1>1, <1>3, JoinedType, StoredIs
<1> QED
  BY <1>1, <1>3, <1>4

(* The same in the next state. *)
LEMMA StoredNext == Stored' = Joined(dataEv', data')
  BY DEF Stored, Slice, Joined, Slices, Cut

(* Reading a byte in a state other than Data adds to the text only an      *)
(* escaped IAC.                                                            *)
LEMMA CommandText ==
    ASSUME IndInv, ParseByte, state # "Data", ~OnIACEscaped
    PROVE  text' = text
<1>1. InSync /\ Take(Current)
  BY IndInvParts DEF SyncOK, ParseByte, OnData, OnIACEscaped, OnIACVerb, OnIACSB, OnIACOther,
     OnNegotiation, OnSubnegotiationOption, OnSubnegotiation, OnSubnegotiationEnd,
     OnSubnegotiationIAC, Advance
<1>2. mode # "text"
  BY <1>1 DEF InSync
<1>3. CASE AfterIAC(Current)
  <2>1. state = "IAC"
    BY <1>1, <1>3 DEF AfterIAC, InSync
  <2>2. Current # CmdIAC
    BY <2>1 DEF ParseByte, OnData, OnIACEscaped, OnIACVerb, OnIACSB, OnIACOther,
       OnNegotiation, OnSubnegotiationOption, OnSubnegotiation, OnSubnegotiationEnd,
       OnSubnegotiationIAC, Verbs, CmdIAC, CmdSB, CmdWill, CmdWont, CmdDo, CmdDont
  <2> QED
    BY <1>3, <2>2 DEF AfterIAC
<1>4. CASE OptionByte(Current) \/ SubOption(Current) \/ SubByte(Current) \/ SubAfterIAC(Current)
  BY <1>4 DEF OptionByte, SubOption, SubByte, SubAfterIAC
<1> QED
  BY <1>1, <1>2, <1>3, <1>4 DEF Take, TextByte

(* A byte of a command that goes on adds nothing to either side. *)
LEMMA DataInCommand ==
    ASSUME IndInv, DataInv, Advance, state # "Data", state' # "Data",
           dataEv' = dataEv, text' = text
    PROVE  DataInv'
<1>1. Stored' = Stored /\ pc = "parse" /\ i \in Nat /\ i' = i + 1 /\ Behind(dataEv, i)
      /\ dataEv \in Seq(Nat \X Nat)
  BY AdvanceFacts, TableFacts, StoredIs, StoredNext
<1>2. Pending = << >> /\ Pending' = << >>
  BY DEF Pending
<1>3. ~Touches(dataEv, i')
  BY <1>1, BehindNotTouching
<1>4. ~Touches(dataEv', i')
  BY <1>3
<1>5. (Touches(dataEv, i))' <=> Touches(dataEv', i')
  BY DEF Touches
<1> QED
  BY <1>1, <1>2, <1>4, <1>5 DEF DataInv

(* The byte that ends a command restarts plain data after it: no event     *)
(* touches that place.                                                     *)
LEMMA DataAfterCommand ==
    ASSUME IndInv, DataInv, Advance, state # "Data", state' = "Data", dataStart' = i + 1,
           dataEv' = dataEv, text' = text
    PROVE  DataInv'
<1>1. /\ Stored' = Stored /\ pc = "parse" /\ i \in Nat /\ i' = i + 1 /\ Behind(dataEv, i)
      /\ dataEv \in Seq(Nat \X Nat)
  BY AdvanceFacts, TableFacts, StoredIs, StoredNext
<1>2. Pending = << >>
  BY DEF Pending
<1>3. Pending' = << >>
  <2>1. Pending' = Cut(data', i', i') \/ Pending' = << >>
    BY <1>1 DEF Pending, Cut
  <2> QED
    BY <1>1, <2>1, CutEmpty
<1>4. ~Touches(dataEv', dataStart')
  BY <1>1, BehindNotTouching
<1>5. (Touches(dataEv, dataStart))' <=> Touches(dataEv', dataStart')
  BY DEF Touches
<1> QED
  BY <1>1, <1>2, <1>3, <1>4, <1>5 DEF DataInv

(* Plain text makes the pending piece longer. *)
LEMMA DataOnText ==
    ASSUME IndInv, DataInv, OnData, Current # CmdIAC
    PROVE  DataInv'
<1>1. /\ Advance /\ state = "Data" /\ state' = "Data" /\ dataEv' = dataEv
      /\ dataStart' = dataStart
  BY DEF OnData
<1>2. /\ Stored' = Stored /\ pc = "parse" /\ pc' = "parse" /\ i \in Nat /\ i' = i + 1
      /\ data' = data /\ i' <= Len(data) /\ dataStart \in Nat /\ dataStart <= i
      /\ data \in Seq(Byte) /\ Current \in Byte /\ Take(Current) /\ Len(data) \in Nat
      /\ Stored \in Seq(Byte)
  BY <1>1, AdvanceFacts, TableFacts, StoredIs, StoredNext
<1>3. text' = Append(text, Current) /\ text \in Seq(Byte) /\ InSync
  <2>1. mode = "text" /\ InSync
    BY <1>1, IndInvParts DEF SyncOK, InSync
  <2> QED
    BY <1>2, <2>1 DEF Take, TextByte, AfterIAC, OptionByte, SubOption, SubByte, SubAfterIAC,
       DataInv
<1>4. text' = text \o <<Current>> /\ <<Current>> \in Seq(Byte) /\ text' \in Seq(Byte)
  BY <1>2, <1>3, AppendIsConcat, AppendProperties
<1>5. IsPrefix(Stored, text')
  BY <1>2, <1>3, <1>4, PrefixLonger DEF DataInv
<1>6. Pending = Cut(data, dataStart, i) /\ Pending' = Cut(data, dataStart, i + 1)
  BY <1>1, <1>2 DEF Pending, Cut
<1>7. Cut(data, i, i + 1) = <<Current>>
  BY <1>2, CutOne DEF Current
<1>8. Stored \o Cut(data, dataStart, i + 1) = (Stored \o Cut(data, dataStart, i)) \o <<Current>>
  <2> DEFINE j == i + 1
  <2>1. Splits(data, dataStart, i, j) /\ Stored \in Seq(Byte)
    BY <1>2 DEF Splits
  <2>2. Stored \o Cut(data, dataStart, j) = (Stored \o Cut(data, dataStart, i)) \o Cut(data, i, j)
    <3> HIDE DEF j
    <3>1. Follows(Stored, Cut(data, dataStart, i), Cut(data, i, j), Cut(data, dataStart, j))
      BY ONLY <2>1, LastGrows, Zenon
    <3> QED
      BY ONLY <3>1 DEF Follows
  <2> QED
    BY <1>7, <2>2
<1>9. Stored \o Pending = text => Stored' \o Pending' = text'
  BY <1>2, <1>4, <1>6, <1>8
<1>10. (Touches(dataEv, dataStart))' <=> Touches(dataEv, dataStart)
  BY <1>1 DEF Touches
<1> QED
  BY <1>1, <1>2, <1>4, <1>5, <1>9, <1>10 DEF DataInv

(* What flushing the pending piece of the Data state leaves in the table. *)
LEMMA Flushed ==
    ASSUME IndInv, DataInv, pc = "parse", state = "Data"
    PROVE  /\ IsPrefix(Joined(appendData(dataEv, dataStart, i), data), text)
           /\ Len(appendData(dataEv, dataStart, i)) < MaxDataEvents
                => Joined(appendData(dataEv, dataStart, i), data) = text
           /\ Joined(appendData(dataEv, dataStart, i), data) \in Seq(Byte)
           /\ Behind(appendData(dataEv, dataStart, i), i)
           /\ appendData(dataEv, dataStart, i) \in Seq(Nat \X Nat)
<1> DEFINE r == appendData(dataEv, dataStart, i)
<1>1. /\ data \in Seq(Byte) /\ i \in Nat /\ i <= Len(data)
      /\ dataStart \in Nat /\ dataStart <= i
      /\ dataEv \in Seq(Nat \X Nat) /\ Ordered(dataEv) /\ Within(dataEv, data)
      /\ Behind(dataEv, dataStart) /\ text \in Seq(Byte) /\ Len(data) \in Nat
  BY TableFacts DEF DataInv
<1>2. IsPrefix(Joined(dataEv, data), text)
  BY StoredIs DEF DataInv
<1>3. Len(dataEv) < MaxDataEvents \/ Touches(dataEv, dataStart)
         => Joined(dataEv, data) \o Cut(data, dataStart, i) = text
  BY StoredIs DEF DataInv, Pending, Cut
<1>4. /\ IsPrefix(Joined(r, data), text)
      /\ Len(r) < MaxDataEvents => Joined(r, data) = text
  BY <1>1, <1>2, <1>3, AppendDataStored
<1>5. Len(dataEv) <= MaxDataEvents
  BY IndInvParts DEF PlacesOK
<1>6. r \in Seq(Nat \X Nat) /\ Behind(r, i)
  BY <1>1, <1>5, AppendDataOrdered
<1>7. Within(r, data)
  <2> HIDE DEF r
  <2> QED
    BY <1>1, <1>6, BehindMore DEF Within, Behind
<1>8. Joined(r, data) \in Seq(Byte)
  <2> HIDE DEF r
  <2> QED
    BY <1>1, <1>6, <1>7, JoinedType
<1> QED
  BY <1>4, <1>6, <1>8

(* IAC flushes the pending piece. *)
LEMMA DataOnIAC ==
    ASSUME IndInv, DataInv, OnData, Current = CmdIAC
    PROVE  DataInv'
<1>1. /\ Advance /\ state = "Data" /\ state' = "IAC"
      /\ dataEv' = appendData(dataEv, dataStart, i)
  BY DEF OnData
<1>2. /\ pc = "parse" /\ i \in Nat /\ i' = i + 1 /\ data' = data /\ Take(Current)
  BY <1>1, AdvanceFacts
<1>3. text' = text /\ text \in Seq(Byte)
  <2>1. mode = "text" /\ InSync
    BY <1>1, IndInvParts DEF SyncOK, InSync
  <2> QED
    BY <1>2, <2>1 DEF Take, TextByte, AfterIAC, OptionByte, SubOption, SubByte, SubAfterIAC,
       DataInv
<1>4. /\ IsPrefix(Stored', text')
      /\ Len(dataEv') < MaxDataEvents => Stored' = text'
      /\ Stored' \in Seq(Byte) /\ Behind(dataEv', i) /\ dataEv' \in Seq(Nat \X Nat)
  BY <1>1, <1>2, <1>3, Flushed, StoredNext
<1>5. Pending' = << >> /\ Stored' \o << >> = Stored'
  BY <1>1, <1>4, NothingAdded DEF Pending
<1>6. ~Touches(dataEv', i')
  BY <1>2, <1>4, BehindNotTouching
<1>7. (Touches(dataEv, i))' <=> Touches(dataEv', i')
  BY DEF Touches
<1> QED
  BY <1>1, <1>3, <1>4, <1>5, <1>6, <1>7 DEF DataInv

(* The end of Parse flushes the pending piece. *)
LEMMA DataOnEnd ==
    ASSUME IndInv, DataInv, EndParse
    PROVE  DataInv'
<1>1. /\ pc = "parse" /\ pc' = "idle" /\ i = Len(data) /\ data' = data /\ text' = text
      /\ text \in Seq(Byte) /\ Stored \in Seq(Byte) /\ i \in Nat /\ dataStart \in Nat
      /\ dataStart <= i
  BY TableFacts DEF EndParse, refVars, DataInv
<1>2. Pending' = << >>
  BY <1>1 DEF Pending
<1>3. CASE state = "Data" /\ dataStart < Len(data)
  <2>1. dataEv' = appendData(dataEv, dataStart, i)
    BY <1>1, <1>3 DEF EndParse
  <2>2. /\ IsPrefix(Stored', text')
        /\ Len(dataEv') < MaxDataEvents => Stored' = text'
        /\ Stored' \in Seq(Byte)
    BY <1>1, <1>3, <2>1, Flushed, StoredNext
  <2>3. Stored' \o << >> = Stored'
    BY <2>2, NothingAdded
  <2> QED
    BY <1>1, <1>2, <2>2, <2>3 DEF DataInv
<1>4. CASE ~(state = "Data" /\ dataStart < Len(data))
  <2>1. dataEv' = dataEv
    BY <1>4 DEF EndParse
  <2>2. Stored' = Stored
    BY <1>1, <2>1, StoredIs, StoredNext
  <2>3. Pending = << >>
    <3>1. CASE state = "Data"
      <4>1. dataStart = i
        BY <1>1, <1>4, <3>1
      <4>2. Pending = Cut(data, i, i)
        BY <1>1, <3>1, <4>1 DEF Pending, Cut
      <4> QED
        BY <1>1, <4>2, CutEmpty
    <3>2. CASE state # "Data"
      BY <3>2 DEF Pending
    <3> QED
      BY <3>1, <3>2
  <2> QED
    BY <1>1, <1>2, <2>1, <2>2, <2>3 DEF DataInv
<1> QED
  BY <1>3, <1>4

(* The second of two IAC is text: it is stored as a piece of its own or as *)
(* the end of the one it touches.                                          *)
LEMMA DataOnEscaped ==
    ASSUME IndInv, DataInv, OnIACEscaped
    PROVE  DataInv'
<1> DEFINE j == i + 1
           T == Append(text, Current)
<1>1. /\ Advance /\ state = "IAC" /\ state' = "Data" /\ dataStart' = j
      /\ dataEv' = appendData(dataEv, i, j) /\ Current = CmdIAC
  BY DEF OnIACEscaped
<1>2. /\ pc = "parse" /\ pc' = "parse" /\ i' = j /\ data' = data /\ Take(Current)
      /\ i \in Nat /\ j \in Nat /\ i <= j /\ j <= Len(data) /\ data \in Seq(Byte)
      /\ Current \in Byte /\ dataEv \in Seq(Nat \X Nat) /\ Ordered(dataEv)
      /\ Behind(dataEv, i) /\ Within(dataEv, data) /\ Stored \in Seq(Byte) /\ i < j
      /\ Len(data) \in Nat
  BY <1>1, AdvanceFacts, TableFacts
<1>3. text' = T /\ text \in Seq(Byte)
  <2>1. mode = "iac" /\ InSync
    BY <1>1, IndInvParts DEF SyncOK, InSync
  <2> QED
    BY <1>1, <1>2, <2>1 DEF Take, TextByte, AfterIAC, OptionByte, SubOption, SubByte,
       SubAfterIAC, DataInv
<1>4. T = text \o <<Current>> /\ <<Current>> \in Seq(Byte) /\ T \in Seq(Byte)
  BY <1>2, <1>3, AppendIsConcat, AppendProperties
<1>5. Cut(data, i, j) = <<Current>>
  BY <1>2, CutOne DEF Current
<1> HIDE DEF j, T
<1>6. IsPrefix(Joined(dataEv, data), T)
  <2>1. IsPrefix(Stored, text)
    BY DEF DataInv
  <2>2. IsPrefix(Stored, T)
    BY <1>2, <1>3, <1>4, <2>1, PrefixLonger
  <2> QED
    BY <2>2, StoredIs
<1>7. Len(dataEv) < MaxDataEvents \/ Touches(dataEv, i)
        => Joined(dataEv, data) \o Cut(data, i, j) = T
  <2>1. ~Touches(dataEv, i)
    BY <1>1, <1>2 DEF DataInv
  <2>2. Len(dataEv) < MaxDataEvents => Stored = text
    <3>1. Pending = << >> /\ Stored \o << >> = Stored
      BY <1>1, <1>2, NothingAdded DEF Pending
    <3> QED
      BY <3>1 DEF DataInv
  <2> QED
    BY <1>4, <1>5, <2>1, <2>2, StoredIs
<1>8. /\ IsPrefix(Stored', T)
      /\ Len(dataEv') < MaxDataEvents \/ Touches(dataEv', j) => Stored' = T
  <2>1. /\ IsPrefix(Joined(appendData(dataEv, i, j), data), T)
        /\ Len(appendData(dataEv, i, j)) < MaxDataEvents \/ Touches(appendData(dataEv, i, j), j)
             => Joined(appendData(dataEv, i, j), data) = T
    BY <1>2, <1>4, <1>6, <1>7, AppendDataStored
  <2> QED
    BY <1>1, <1>2, <2>1, StoredNext
<1>9. Pending' = << >> /\ T \o << >> = T
  <2>1. Pending' = Cut(data', j, j)
    BY <1>1, <1>2 DEF Pending, Cut
  <2> QED
    BY <1>2, <1>4, <2>1, CutEmpty, NothingAdded
<1>10. (Touches(dataEv, dataStart))' <=> Touches(dataEv', j)
  BY <1>1 DEF Touches
<1> QED
  BY <1>1, <1>2, <1>3, <1>4, <1>8, <1>9, <1>10 DEF DataInv

(* A call of Parse starts with no text and no events; Reset and a stutter  *)
(* touch neither.                                                          *)
LEMMA DataElsewhere ==
    ASSUME IndInv, DataInv, (\E chunk \in Chunks : Feed(chunk)) \/ Reset \/ UNCHANGED vars
    PROVE  DataInv'
<1>1. CASE \E chunk \in Chunks : Feed(chunk)
  <2>1. /\ dataEv' = << >> /\ text' = << >> /\ dataStart' = 0 /\ i' = 0
    BY <1>1 DEF Feed, Mark
  <2>2. Stored' = << >>
    BY <2>1, StoredNext, JoinedEmpty
  <2>3. Pending' = << >>
    <3>1. Pending' = Cut(data', 0, 0) \/ Pending' = << >>
      BY <2>1 DEF Pending, Cut
    <3> QED
      BY <3>1, CutEmpty
  <2>4. << >> \in Seq(Byte) /\ << >> \o << >> = << >>
    BY NothingAdded
  <2>5. IsPrefix(<< >>, << >>)
    BY <2>4, PrefixSelf
  <2>6. ~(Touches(dataEv, i))'
    BY <2>1 DEF Touches
  <2> QED
    BY <2>1, <2>2, <2>3, <2>4, <2>5, <2>6 DEF DataInv
<1>2. CASE Reset
  <2>1. /\ pc = "idle" /\ pc' = "idle" /\ dataEv' = dataEv /\ data' = data /\ text' = text
    BY <1>2 DEF Reset, Restart, result, local
  <2>2. Stored' = Stored /\ Pending' = << >> /\ Pending = << >>
    BY <2>1, StoredIs, StoredNext DEF Pending
  <2> QED
    BY <2>1, <2>2 DEF DataInv
<1>3. CASE UNCHANGED vars
  BY <1>3 DEF vars, parserVars, local, result, refVars, DataInv, Stored, Slice, Pending, Touches
<1> QED
  BY <1>1, <1>2, <1>3

(* A byte keeps the table and the text together. *)
LEMMA DataOnByte ==
    ASSUME IndInv, DataInv, ParseByte
    PROVE  DataInv'
<1>1. CASE OnData
  BY <1>1, DataOnText, DataOnIAC
<1>2. CASE OnIACEscaped
  BY <1>2, DataOnEscaped
<1>3. CASE ~OnData /\ ~OnIACEscaped
  <2>1. state # "Data"
    BY <1>3 DEF ParseByte, OnIACVerb, OnIACSB, OnIACOther, OnNegotiation,
       OnSubnegotiationOption, OnSubnegotiation, OnSubnegotiationEnd, OnSubnegotiationIAC
  <2>2. text' = text
    BY <1>3, <2>1, CommandText
  <2>3. Advance /\ dataEv' = dataEv
    BY <1>3 DEF ParseByte, OnIACVerb, OnIACSB, OnIACOther, OnNegotiation, result,
       OnSubnegotiationOption, OnSubnegotiation, OnSubnegotiationEnd, OnSubnegotiationIAC
  <2>4. state' = "Data" => dataStart' = i + 1
    BY <1>3 DEF ParseByte, OnIACVerb, OnIACSB, OnIACOther, OnNegotiation,
       OnSubnegotiationOption, OnSubnegotiation, OnSubnegotiationEnd, OnSubnegotiationIAC
  <2> QED
    BY <2>1, <2>2, <2>3, <2>4, DataInCommand, DataAfterCommand
<1> QED
  BY <1>1, <1>2, <1>3

(* Before the first call there is neither text nor an event. *)
LEMMA DataInit == Init => DataInv
<1> SUFFICES ASSUME Init PROVE DataInv
  OBVIOUS
<1>1. dataEv = << >> /\ text = << >> /\ pc = "idle"
  BY DEF Init, RefInit
<1>2. Stored = << >> /\ Pending = << >>
  BY <1>1, StoredIs, JoinedEmpty DEF Pending
<1>3. << >> \in Seq(Byte) /\ << >> \o << >> = << >>
  BY NothingAdded
<1>4. IsPrefix(<< >>, << >>)
  BY <1>3, PrefixSelf
<1> QED
  BY <1>1, <1>2, <1>3, <1>4 DEF DataInv
----------------------------------------------------------------------------
(* A payload with the bytes of some places doubled. *)
Doubling(p, D) == [j \in 1..Len(p) |-> IF j \in D THEN <<p[j], p[j]>> ELSE <<p[j]>>]
Expanded(p, D) == FlattenSeq(Doubling(p, D))
Escapes(p) == {j \in 1..Len(p) : p[j] = CmdIAC}

(* A sequence cut to m elements, and an element added to one so cut. *)
Capped(s, m) == SubSeq(s, 1, IF Len(s) < m THEN Len(s) ELSE m)
AddCapped(s, e, m) == IF Len(s) < m THEN Append(s, e) ELSE s

(* The bytes c of the accumulator hold the payload p. *)
Holds(c, p) ==
    \E D \in SUBSET Escapes(p) :
        /\ c = Capped(Expanded(p, D), SnCap)
        /\ Len(p) <= Len(Expanded(p, D))

Held == SubSeq(snArr, 1, snLen)

(* The accumulator holds the payload read so far ... *)
OpenOK == opt = snOption /\ Holds(Held, body)

(* ... and after the end of the subnegotiation that of the newest event ... *)
NewestOK ==
    Len(snEv) > 0 /\ Len(snEv) = Len(subs)
      => /\ snEv[Len(snEv)][1] = subs[Len(snEv)][1]
         /\ Holds(SnData(Len(snEv)), subs[Len(snEv)][2])

(* ... and the events of a call are as many as its subnegotiations, until  *)
(* they are too many for the table.                                        *)
CountOK == Len(snEv) = IF Len(subs) < MaxSNEvents THEN Len(subs) ELSE MaxSNEvents

SubInv ==
    /\ body \in Seq(Byte) /\ Len(body) <= Observed
    /\ subs \in Seq(Byte \X Seq(Byte))
    /\ state = "SubnegotiationOption" => body = << >> /\ snLen = 0
    /\ state \in {"Subnegotiation", "SubnegotiationIAC"} => OpenOK
    /\ pc = "parse" => CountOK
    /\ ~InSubnegotiation => NewestOK

(* One or two copies of a byte are a sequence of bytes. *)
LEMMA DoublingType ==
    ASSUME NEW p \in Seq(Byte), NEW D
    PROVE  Doubling(p, D) \in [1..Len(p) -> Seq(Byte)]
<1>1. ASSUME NEW j \in 1..Len(p)
      PROVE  (IF j \in D THEN <<p[j], p[j]>> ELSE <<p[j]>>) \in Seq(Byte)
  <2>1. p[j] \in Byte
    OBVIOUS
  <2>2. <<p[j], p[j]>> \in Seq(Byte) /\ <<p[j]>> \in Seq(Byte)
    BY <2>1
  <2> QED
    BY <2>2
<1> QED
  BY <1>1 DEF Doubling

(* So is the expanded payload. *)
LEMMA ExpandedType ==
    ASSUME NEW p \in Seq(Byte), NEW D
    PROVE  Expanded(p, D) \in Seq(Byte)
<1> DEFINE ss == Doubling(p, D)
<1>1. CASE Len(p) = 0
  <2>1. ss = << >>
    BY <1>1 DEF Doubling
  <2>2. FlattenSeq(ss) = << >> /\ << >> \in Seq(Byte)
    BY <2>1, FlattenEmpty
  <2> QED
    BY <2>2 DEF Expanded
<1>2. CASE Len(p) # 0
  <2> DEFINE n == Len(p) - 1
  <2>1. n \in Nat /\ n + 1 = Len(p)
    BY <1>2
  <2>2. ss \in [1..(n + 1) -> Seq(Byte)]
    BY <2>1, DoublingType
  <2> HIDE DEF n, ss
  <2>3. FlattenSeq(ss) \in Seq(Byte)
    BY <2>1, <2>2, FlattenLast
  <2> QED
    BY <2>3 DEF Expanded, ss
<1> QED
  BY <1>1, <1>2

(* An empty payload expands to nothing. *)
LEMMA ExpandedEmpty == ASSUME NEW D PROVE Expanded(<< >>, D) = << >>
<1>1. Doubling(<< >>, D) = << >>
  BY DEF Doubling
<1> QED
  BY <1>1, FlattenEmpty DEF Expanded

(* A payload byte adds one or two bytes at the end. *)
LEMMA ExpandedAppend ==
    ASSUME NEW p \in Seq(Byte), NEW b \in Byte, NEW D, NEW E,
           \A j \in 1..Len(p) : j \in E <=> j \in D
    PROVE  Expanded(Append(p, b), E)
              = Expanded(p, D) \o (IF Len(p) + 1 \in E THEN <<b, b>> ELSE <<b>>)
<1> DEFINE n == Len(p)
           q == Append(p, b)
           ss == Doubling(q, E)
<1>1. n \in Nat /\ q \in Seq(Byte) /\ Len(q) = n + 1 /\ q[n + 1] = b
      /\ \A j \in 1..n : q[j] = p[j]
  OBVIOUS
<1> HIDE DEF q
<1>2. ss \in [1..(n + 1) -> Seq(Byte)]
  BY <1>1, DoublingType
<1>3. ss[n + 1] = IF n + 1 \in E THEN <<b, b>> ELSE <<b>>
  <2>1. n + 1 \in 1..Len(q)
    BY <1>1
  <2> QED
    BY <1>1, <2>1 DEF Doubling
<1>4. \A j \in 1..n : ss[j] = Doubling(p, D)[j]
  <2> TAKE j \in 1..n
  <2>1. j \in 1..Len(q) /\ j \in 1..Len(p) /\ q[j] = p[j] /\ (j \in E <=> j \in D)
    BY <1>1
  <2> QED
    BY <2>1 DEF Doubling
<1> HIDE DEF ss
<1>5. [j \in 1..n |-> ss[j]] = Doubling(p, D)
  BY <1>4, DoublingType
<1>6. FlattenSeq(ss) = FlattenSeq([j \in 1..n |-> ss[j]]) \o ss[n + 1]
  BY <1>1, <1>2, FlattenLast
<1> QED
  BY <1>3, <1>5, <1>6 DEF Expanded, ss, q

(* Cutting and adding commute. *)
LEMMA CappedAdd ==
    ASSUME NEW s \in Seq(Byte), NEW e \in Byte, NEW m \in Nat
    PROVE  /\ AddCapped(Capped(s, m), e, m) = Capped(Append(s, e), m)
           /\ Capped(s, m) \in Seq(Byte)
           /\ Len(Capped(s, m)) = IF Len(s) < m THEN Len(s) ELSE m
<1> DEFINE l == IF Len(s) < m THEN Len(s) ELSE m
           c == SubSeq(s, 1, l)
<1>1. l \in Nat /\ l <= Len(s)
  OBVIOUS
<1>2. \A k \in 1..l : s[k] \in Byte
  BY <1>1
<1>3. c \in Seq(Byte) /\ Len(c) = l
  <2> HIDE DEF l
  <2> QED
    BY <1>1, <1>2, SubSeqProperties
<1>4. c = SubSeq(s, 1, IF Len(s) < m THEN Len(s) ELSE m)
  OBVIOUS
<1> HIDE DEF c
<1>5. (IF Len(c) < m THEN Append(c, e) ELSE c)
        = SubSeq(Append(s, e), 1, IF Len(Append(s, e)) < m THEN Len(Append(s, e)) ELSE m)
  BY <1>3, <1>4, CommandAdded
<1>6. Capped(s, m) = c
  BY <1>4 DEF Capped
<1>7. AddCapped(c, e, m) = Capped(Append(s, e), m)
  BY <1>5 DEF AddCapped, Capped
<1> QED
  BY <1>3, <1>6, <1>7

(* Appending one byte twice. *)
LEMMA AppendTwice ==
    ASSUME NEW s \in Seq(Byte), NEW a \in Byte, NEW b \in Byte
    PROVE  /\ s \o <<a>> = Append(s, a)
           /\ s \o <<a, b>> = Append(Append(s, a), b)
           /\ Append(s, a) \in Seq(Byte) /\ Append(Append(s, a), b) \in Seq(Byte)
           /\ Len(Append(s, a)) = Len(s) + 1 /\ Len(Append(Append(s, a), b)) = Len(s) + 2
  OBVIOUS

(* When the reference records no more of the payload, the accumulator is   *)
(* full.                                                                   *)
LEMMA HoldsFull ==
    ASSUME NEW p \in Seq(Byte), Len(p) <= Observed, ~(Len(p) < Observed), NEW c, Holds(c, p)
    PROVE  ~(Len(c) < SnCap)
<1>1. PICK D \in SUBSET Escapes(p) : /\ c = Capped(Expanded(p, D), SnCap)
                                     /\ Len(p) <= Len(Expanded(p, D))
  BY DEF Holds
<1>2. Observed \in Nat /\ SnCap \in Nat /\ SnCap <= Observed /\ 0 \in Byte
  BY ParserAssumption
<1> DEFINE x == Expanded(p, D)
<1>3. x \in Seq(Byte)
  BY ExpandedType
<1> HIDE DEF x
<1>4. Len(Capped(x, SnCap)) = IF Len(x) < SnCap THEN Len(x) ELSE SnCap
  BY <1>2, <1>3, CappedAdd
<1>5. Len(x) \in Nat /\ Len(p) \in Nat /\ SnCap <= Len(x)
  BY <1>1, <1>2, <1>3 DEF x
<1>6. Len(c) = SnCap
  BY <1>1, <1>2, <1>4, <1>5 DEF x
<1> QED
  BY <1>2, <1>6

(* A payload byte that came as one byte. *)
LEMMA HoldsByte ==
    ASSUME NEW p \in Seq(Byte), Len(p) <= Observed, NEW c, Holds(c, p), NEW b \in Byte
    PROVE  /\ Holds(AddCapped(c, b, SnCap), AddCapped(p, b, Observed))
           /\ AddCapped(p, b, Observed) \in Seq(Byte)
           /\ Len(AddCapped(p, b, Observed)) <= Observed
<1>1. Observed \in Nat /\ SnCap \in Nat
  BY ParserAssumption
<1>2. CASE ~(Len(p) < Observed)
  <2>1. AddCapped(p, b, Observed) = p
    BY <1>2 DEF AddCapped
  <2>2. AddCapped(c, b, SnCap) = c
    BY <1>2, HoldsFull DEF AddCapped
  <2> QED
    BY <2>1, <2>2
<1>3. CASE Len(p) < Observed
  <2> DEFINE q == Append(p, b)
             n == Len(p)
  <2>1. AddCapped(p, b, Observed) = q
    BY <1>3 DEF AddCapped
  <2>2. q \in Seq(Byte) /\ Len(q) = n + 1 /\ n \in Nat /\ \A j \in 1..n : q[j] = p[j]
    OBVIOUS
  <2>3. PICK D \in SUBSET Escapes(p) : /\ c = Capped(Expanded(p, D), SnCap)
                                       /\ Len(p) <= Len(Expanded(p, D))
    BY DEF Holds
  <2>4. D \in SUBSET Escapes(q) /\ ~(n + 1 \in D)
    BY <2>2 DEF Escapes
  <2> DEFINE x == Expanded(p, D)
  <2>5. x \in Seq(Byte)
    BY ExpandedType
  <2>6. Expanded(q, D) = Append(x, b)
    <3>1. Expanded(q, D) = x \o <<b>>
      <4>1. Expanded(Append(p, b), D)
              = Expanded(p, D) \o (IF Len(p) + 1 \in D THEN <<b, b>> ELSE <<b>>)
        BY ExpandedAppend
      <4> QED
        BY <2>4, <4>1
    <3> HIDE DEF x, q
    <3> QED
      BY <2>5, <3>1, AppendTwice
  <2>7. AddCapped(c, b, SnCap) = Capped(Append(x, b), SnCap)
    <3>1. c = Capped(x, SnCap)
      BY <2>3
    <3> HIDE DEF x
    <3> QED
      BY <1>1, <2>5, <3>1, CappedAdd
  <2>8. Len(q) <= Len(Append(x, b))
    <3>1. Len(p) <= Len(x)
      BY <2>3
    <3> HIDE DEF x
    <3> QED
      BY <2>2, <2>5, <3>1
  <2>9. Holds(AddCapped(c, b, SnCap), q)
    <3> HIDE DEF x, q
    <3> QED
      BY <2>4, <2>6, <2>7, <2>8 DEF Holds
  <2>10. Len(q) <= Observed
    BY <1>1, <1>3, <2>2
  <2> QED
    BY <2>1, <2>2, <2>9, <2>10
<1> QED
  BY <1>2, <1>3

(* An escaped 255: one payload byte that came, and is kept, as two. *)
LEMMA HoldsEscaped ==
    ASSUME NEW p \in Seq(Byte), Len(p) <= Observed, NEW c, Holds(c, p)
    PROVE  /\ Holds(AddCapped(AddCapped(c, CmdIAC, SnCap), CmdIAC, SnCap),
                    AddCapped(p, CmdIAC, Observed))
           /\ AddCapped(p, CmdIAC, Observed) \in Seq(Byte)
           /\ Len(AddCapped(p, CmdIAC, Observed)) <= Observed
<1> DEFINE b == CmdIAC
<1>1. Observed \in Nat /\ SnCap \in Nat /\ b \in Byte
  BY ParserAssumption
<1>2. CASE ~(Len(p) < Observed)
  <2>1. AddCapped(p, b, Observed) = p
    BY <1>2 DEF AddCapped
  <2>2. AddCapped(c, b, SnCap) = c
    BY <1>2, HoldsFull DEF AddCapped
  <2> HIDE DEF b
  <2> QED
    BY <2>1, <2>2 DEF b
<1>3. CASE Len(p) < Observed
  <2> DEFINE q == Append(p, b)
             n == Len(p)
  <2>1. AddCapped(p, b, Observed) = q
    BY <1>3 DEF AddCapped
  <2>2. q \in Seq(Byte) /\ Len(q) = n + 1 /\ n \in Nat /\ q[n + 1] = b
        /\ \A j \in 1..n : q[j] = p[j]
    BY <1>1
  <2>3. PICK D \in SUBSET Escapes(p) : /\ c = Capped(Expanded(p, D), SnCap)
                                       /\ Len(p) <= Len(Expanded(p, D))
    BY DEF Holds
  <2> DEFINE E == D \cup {n + 1}
             x == Expanded(p, D)
             x1 == Append(x, b)
  <2> HIDE DEF b
  <2>4. E \in SUBSET Escapes(q) /\ n + 1 \in E
    <3>1. ASSUME NEW j \in E PROVE j \in 1..Len(q) /\ q[j] = CmdIAC
      <4>1. CASE j = n + 1
        BY <2>2, <4>1 DEF b
      <4>2. CASE j \in D
        <5>1. j \in 1..n /\ p[j] = CmdIAC
          BY <4>2 DEF Escapes
        <5> QED
          BY <2>2, <5>1
      <4> QED
        BY <4>1, <4>2
    <3> QED
      BY <3>1 DEF Escapes
  <2>5. x \in Seq(Byte)
    BY ExpandedType
  <2>6. Expanded(q, E) = Append(x1, b)
    <3>1. \A j \in 1..Len(p) : j \in E <=> j \in D
      BY <2>2
    <3>2. Expanded(q, E) = x \o <<b, b>>
      <4> HIDE DEF E
      <4> QED
        BY <1>1, <2>4, <3>1, ExpandedAppend
    <3> HIDE DEF x, q, E
    <3> QED
      BY <1>1, <2>5, <3>2, AppendTwice DEF x1
  <2>7. AddCapped(c, b, SnCap) = Capped(x1, SnCap) /\ x1 \in Seq(Byte)
    <3>1. c = Capped(x, SnCap)
      BY <2>3
    <3> HIDE DEF x
    <3> QED
      BY <1>1, <2>5, <3>1, CappedAdd, AppendTwice
  <2>8. AddCapped(AddCapped(c, b, SnCap), b, SnCap) = Capped(Append(x1, b), SnCap)
    <3> HIDE DEF x1
    <3> QED
      BY <1>1, <2>7, CappedAdd
  <2>9. Len(q) <= Len(Append(x1, b))
    <3>1. Len(p) <= Len(x)
      BY <2>3
    <3>2. Len(Append(x1, b)) = Len(x) + 2
      <4> HIDE DEF x
      <4> QED
        BY <1>1, <2>5, AppendTwice
    <3> HIDE DEF x, x1
    <3> QED
      BY <2>2, <2>5, <3>1, <3>2
  <2>10. Holds(AddCapped(AddCapped(c, b, SnCap), b, SnCap), q)
    <3> HIDE DEF x1, q, E
    <3> QED
      BY <2>4, <2>6, <2>8, <2>9 DEF Holds
  <2>11. Len(q) <= Observed
    BY <1>1, <1>3, <2>2
  <2> QED
    BY <2>1, <2>2, <2>10, <2>11 DEF b
<1> QED
  BY <1>2, <1>3

(* What a byte written to the accumulator makes of its bytes. *)
LEMMA SnWriteHeld ==
    ASSUME NEW sn, NEW b \in Byte,
           sn.arr \in [1..SnCap -> Byte], sn.len \in 0..SnCap
    PROVE  /\ SubSeq(SnWrite(sn, b).arr, 1, SnWrite(sn, b).len)
                = AddCapped(SubSeq(sn.arr, 1, sn.len), b, SnCap)
<1>1. SnCap \in Nat
  BY ParserAssumption
<1> DEFINE l == sn.len
           a == sn.arr
           c == SubSeq(a, 1, l)
<1>2. l \in Nat /\ l <= SnCap /\ \A k \in 1..l : a[k] \in Byte
  BY <1>1
<1>3. c \in Seq(Byte) /\ Len(c) = l /\ \A k \in 1..l : c[k] = a[k]
  <2> HIDE DEF a, l
  <2> QED
    BY <1>2, SubSeqProperties
<1>4. CASE ~(l < SnCap)
  <2>1. SnWrite(sn, b) = sn
    BY <1>4 DEF SnWrite
  <2>2. AddCapped(c, b, SnCap) = c
    BY <1>3, <1>4 DEF AddCapped
  <2> QED
    BY <2>1, <2>2
<1>5. CASE l < SnCap
  <2> DEFINE w == [a EXCEPT ![l + 1] = b]
             v == SubSeq(w, 1, l + 1)
  <2>1. SnWrite(sn, b).arr = w /\ SnWrite(sn, b).len = l + 1
    BY <1>5 DEF SnWrite
  <2>2. (\A k \in 1..l : w[k] = a[k]) /\ w[l + 1] = b
    <3>1. l + 1 \in 1..SnCap /\ \A k \in 1..l : k \in 1..SnCap /\ k # l + 1
      BY <1>1, <1>2, <1>5
    <3> HIDE DEF l
    <3> QED
      BY <3>1
  <2> HIDE DEF w
  <2>3. \A k \in 1..(l + 1) : w[k] \in Byte
    <3> TAKE k \in 1..(l + 1)
    <3>1. k \in 1..l \/ k = l + 1
      BY <1>2
    <3> QED
      BY <1>2, <2>2, <3>1
  <2>4. v \in Seq(Byte) /\ Len(v) = l + 1 /\ \A k \in 1..(l + 1) : v[k] = w[k]
    <3> HIDE DEF l
    <3> QED
      BY <1>2, <2>3, SubSeqProperties
  <2> HIDE DEF v, c
  <2>5. /\ Append(c, b) \in Seq(Byte) /\ Len(Append(c, b)) = l + 1
        /\ (\A k \in 1..l : Append(c, b)[k] = c[k]) /\ Append(c, b)[l + 1] = b
    BY <1>3
  <2>6. \A k \in 1..(l + 1) : v[k] = Append(c, b)[k]
    <3> TAKE k \in 1..(l + 1)
    <3>1. k \in 1..l \/ k = l + 1
      BY <1>2
    <3> QED
      BY <1>3, <2>2, <2>4, <2>5, <3>1
  <2>7. v = Append(c, b)
    BY <2>4, <2>5, <2>6, SeqEqual
  <2>8. AddCapped(c, b, SnCap) = Append(c, b)
    BY <1>3, <1>5 DEF AddCapped
  <2> QED
    BY <2>1, <2>7, <2>8 DEF v, c
<1> QED
  BY <1>4, <1>5

(* What the reference records of one and of two more payload bytes. *)
LEMMA RecordIs ==
    ASSUME body \in Seq(Byte), Len(body) <= Observed, NEW a \in Byte, NEW b \in Byte
    PROVE  /\ Record(<<a>>) = AddCapped(body, a, Observed)
           /\ Record(<<a, b>>) = AddCapped(AddCapped(body, a, Observed), b, Observed)
<1>1. Observed \in Nat /\ Len(body) \in Nat
  BY ParserAssumption
<1>2. Capped(body, Observed) = body
  <2>1. (IF Len(body) < Observed THEN Len(body) ELSE Observed) = Len(body)
    BY <1>1
  <2> QED
    BY <2>1, SubSeqFull DEF Capped
<1>3. /\ body \o <<a>> = Append(body, a)
      /\ body \o <<a, b>> = Append(Append(body, a), b)
      /\ Append(body, a) \in Seq(Byte)
  BY AppendTwice
<1>4. Record(<<a>>) = Capped(Append(body, a), Observed)
  BY <1>3 DEF Record, Capped
<1>5. Record(<<a, b>>) = Capped(Append(Append(body, a), b), Observed)
  BY <1>3 DEF Record, Capped
<1>6. AddCapped(body, a, Observed) = Capped(Append(body, a), Observed)
  BY <1>1, <1>2, CappedAdd
<1>7. AddCapped(Capped(Append(body, a), Observed), b, Observed)
        = Capped(Append(Append(body, a), b), Observed)
  <2> DEFINE s == Append(body, a)
  <2>1. s \in Seq(Byte)
    BY <1>3
  <2> HIDE DEF s
  <2>2. AddCapped(Capped(s, Observed), b, Observed) = Capped(Append(s, b), Observed)
    BY <1>1, <2>1, CappedAdd
  <2> QED
    BY <2>2 DEF s
<1> QED
  BY <1>4, <1>5, <1>6, <1>7

(* An empty accumulator holds an empty payload. *)
LEMMA HoldsEmpty == Holds(<< >>, << >>)
<1>1. SnCap \in Nat
  BY ParserAssumption
<1>2. Expanded(<< >>, {}) = << >>
  BY ExpandedEmpty
<1>3. Capped(<< >>, SnCap) = << >>
  <2>1. (IF Len(<< >>) < SnCap THEN Len(<< >>) ELSE SnCap) = 0
    BY <1>1
  <2>2. SubSeq(<< >>, 1, 0) = << >>
    BY SubSeqEmpty
  <2> QED
    BY <2>1, <2>2 DEF Capped
<1>4. {} \in SUBSET Escapes(<< >>) /\ Len(<< >>) <= Len(<< >>)
  OBVIOUS
<1> QED
  BY <1>2, <1>3, <1>4 DEF Holds

(* Bytes outside a subnegotiation leave all of it alone. *)
LEMMA SubOutside ==
    ASSUME IndInv, SubInv,
           OnData \/ OnIACEscaped \/ OnIACVerb \/ OnIACOther \/ OnNegotiation
    PROVE  SubInv'
<1>1. /\ snEv' = snEv /\ snArr' = snArr /\ pc = "parse"
      /\ ~InSubnegotiation /\ ~InSubnegotiation'
      /\ state' \notin {"Subnegotiation", "SubnegotiationIAC", "SubnegotiationOption"}
  BY DEF OnData, OnIACEscaped, OnIACVerb, OnIACOther, OnNegotiation, result, InSubnegotiation, Advance
<1>2. body' = body /\ subs' = subs
  <2>1. Take(Current) /\ InSync /\ mode \in {"text", "iac", "verb"} /\ (mode = "iac" => Current # CmdSB)
    BY IndInvParts DEF SyncOK, InSync, OnData, OnIACEscaped, OnIACVerb, OnIACOther, OnNegotiation,
       Advance, Verbs, CmdIAC, CmdSB, CmdWill, CmdWont, CmdDo, CmdDont
  <2> QED
    BY <2>1 DEF Take, TextByte, AfterIAC, OptionByte, SubOption, SubByte, SubAfterIAC
<1>3. CountOK' <=> CountOK
  BY <1>1, <1>2 DEF CountOK
<1>4. NewestOK' <=> NewestOK
  BY <1>1, <1>2 DEF NewestOK, SnData
<1> QED
  BY <1>1, <1>2, <1>3, <1>4 DEF SubInv

(* IAC SB empties the accumulator and the recorded payload alike. *)
LEMMA SubOpens == ASSUME IndInv, SubInv, OnIACSB PROVE SubInv'
<1>1. /\ snEv' = snEv /\ snLen' = 0 /\ pc = "parse" /\ pc' = "parse"
      /\ state' = "SubnegotiationOption" /\ state = "IAC" /\ Current = CmdSB /\ InSubnegotiation'
  BY DEF OnIACSB, result, InSubnegotiation, Advance
<1>2. body' = << >> /\ subs' = subs
  <2>1. Take(Current) /\ mode = "iac"
    BY <1>1, IndInvParts DEF SyncOK, InSync, OnIACSB, Advance
  <2> QED
    BY <1>1, <2>1 DEF Take, TextByte, AfterIAC, OptionByte, SubOption, SubByte, SubAfterIAC
<1>3. CountOK' <=> CountOK
  BY <1>1, <1>2 DEF CountOK
<1>4. << >> \in Seq(Byte) /\ Len(<< >>) <= Observed
  BY ParserAssumption
<1> QED
  BY <1>1, <1>2, <1>3, <1>4 DEF SubInv

(* The option byte: nothing is held yet. *)
LEMMA SubOptionRead == ASSUME IndInv, SubInv, OnSubnegotiationOption PROVE SubInv'
<1>1. /\ snEv' = snEv /\ snLen' = snLen /\ snArr' = snArr /\ pc = "parse" /\ pc' = "parse"
      /\ state' = "Subnegotiation" /\ state = "SubnegotiationOption" /\ snOption' = Current
      /\ InSubnegotiation'
  BY DEF OnSubnegotiationOption, result, InSubnegotiation, Advance
<1>2. body' = body /\ subs' = subs /\ opt' = Current
  <2>1. Take(Current) /\ mode = "sb"
    BY <1>1, IndInvParts DEF SyncOK, InSync, OnSubnegotiationOption, Advance
  <2> QED
    BY <2>1 DEF Take, TextByte, AfterIAC, OptionByte, SubOption, SubByte, SubAfterIAC
<1>3. CountOK' <=> CountOK
  BY <1>1, <1>2 DEF CountOK
<1>4. Held' = << >>
  <2>1. Held' = SubSeq(snArr', 1, 0)
    BY <1>1 DEF SubInv, Held
  <2> QED
    BY <2>1, SubSeqEmpty
<1>5. OpenOK'
  BY <1>1, <1>2, <1>4, HoldsEmpty DEF SubInv, OpenOK
<1> QED
  BY <1>1, <1>2, <1>3, <1>5 DEF SubInv

(* The accumulator and its bytes, and a byte written to it. *)
LEMMA HeldWritten ==
    ASSUME IndInv, NEW b \in Byte
    PROVE  /\ SnBuf.arr \in [1..SnCap -> Byte] /\ SnBuf.len \in 0..SnCap
           /\ SubSeq(SnBuf.arr, 1, SnBuf.len) = Held
           /\ SubSeq(SnWrite(SnBuf, b).arr, 1, SnWrite(SnBuf, b).len)
                = AddCapped(Held, b, SnCap)
<1>1. SnBuf.arr \in [1..SnCap -> Byte] /\ SnBuf.len \in 0..SnCap
  BY IndInvParts DEF SnBuf, FieldsOK
<1>2. SubSeq(SnBuf.arr, 1, SnBuf.len) = Held
  BY DEF SnBuf, Held
<1>3. SubSeq(SnWrite(SnBuf, b).arr, 1, SnWrite(SnBuf, b).len)
        = AddCapped(SubSeq(SnBuf.arr, 1, SnBuf.len), b, SnCap)
  BY <1>1, SnWriteHeld
<1> QED
  BY <1>1, <1>2, <1>3

(* A payload byte is recorded on both sides; IAC waits for the next byte. *)
LEMMA SubByteRead == ASSUME IndInv, SubInv, OnSubnegotiation PROVE SubInv'
<1>1. /\ snEv' = snEv /\ pc = "parse" /\ pc' = "parse" /\ state = "Subnegotiation"
      /\ state' \in {"Subnegotiation", "SubnegotiationIAC"} /\ snOption' = snOption
      /\ Advance /\ InSubnegotiation' /\ state' # "SubnegotiationOption"
      /\ SetSnBuf(IF Current = CmdIAC THEN SnBuf ELSE SnWrite(SnBuf, Current))
  BY DEF OnSubnegotiation, result, InSubnegotiation, Advance
<1>2. /\ SubByte(Current) /\ Current \in Byte
  <2>1. Take(Current) /\ mode = "body" /\ Current \in Byte
    BY <1>1, IndInvParts, AdvanceFacts DEF SyncOK, InSync
  <2> QED
    BY <2>1 DEF Take, TextByte, AfterIAC, OptionByte, SubOption, SubByte, SubAfterIAC
<1>3. subs' = subs /\ opt' = opt
  BY <1>2 DEF SubByte
<1>4. CountOK' <=> CountOK
  BY <1>1, <1>3 DEF CountOK
<1>5. /\ body \in Seq(Byte) /\ Len(body) <= Observed /\ opt = snOption /\ Holds(Held, body)
      /\ CountOK /\ subs \in Seq(Byte \X Seq(Byte))
  BY <1>1 DEF SubInv, OpenOK
<1>6. /\ body' \in Seq(Byte) /\ Len(body') <= Observed /\ Holds(Held', body')
  <2>1. CASE Current = CmdIAC
    <3>1. body' = body /\ Held' = Held
      BY <1>1, <1>2, <2>1 DEF SubByte, SetSnBuf, SnBuf, Held
    <3> QED
      BY <1>5, <3>1
  <2>2. CASE Current # CmdIAC
    <3>1. body' = AddCapped(body, Current, Observed)
      BY <1>2, <1>5, <2>2, RecordIs DEF SubByte
    <3>2. Held' = SubSeq(SnWrite(SnBuf, Current).arr, 1, SnWrite(SnBuf, Current).len)
      BY <1>1, <2>2 DEF SetSnBuf, Held
    <3>3. Held' = AddCapped(Held, Current, SnCap)
      BY <1>2, <3>2, HeldWritten
    <3> QED
      BY <1>2, <1>5, <3>1, <3>3, HoldsByte
  <2> QED
    BY <2>1, <2>2
<1>7. OpenOK'
  BY <1>1, <1>3, <1>5, <1>6 DEF OpenOK
<1> QED
  BY <1>1, <1>3, <1>4, <1>5, <1>6, <1>7 DEF SubInv

(* IAC IAC is one payload byte kept as two, IAC and another byte are two. *)
LEMMA SubPairRead == ASSUME IndInv, SubInv, OnSubnegotiationIAC PROVE SubInv'
<1>1. /\ snEv' = snEv /\ pc = "parse" /\ pc' = "parse" /\ state = "SubnegotiationIAC"
      /\ state' = "Subnegotiation" /\ snOption' = snOption /\ Current # CmdSE
      /\ Advance /\ InSubnegotiation'
      /\ SetSnBuf(SnWrite(SnWrite(SnBuf, CmdIAC), Current))
  BY DEF OnSubnegotiationIAC, result, InSubnegotiation, Advance
<1>2. /\ SubAfterIAC(Current) /\ Current \in Byte
  <2>1. Take(Current) /\ mode = "bodyiac" /\ Current \in Byte
    BY <1>1, IndInvParts, AdvanceFacts DEF SyncOK, InSync
  <2> QED
    BY <2>1 DEF Take, TextByte, AfterIAC, OptionByte, SubOption, SubByte, SubAfterIAC
<1>3. subs' = subs /\ opt' = opt
  BY <1>1, <1>2 DEF SubAfterIAC
<1>4. CountOK' <=> CountOK
  BY <1>1, <1>3 DEF CountOK
<1>5. /\ body \in Seq(Byte) /\ Len(body) <= Observed /\ opt = snOption /\ Holds(Held, body)
      /\ CountOK /\ subs \in Seq(Byte \X Seq(Byte)) /\ CmdIAC \in Byte
  BY <1>1, ParserAssumption DEF SubInv, OpenOK
<1> DEFINE sn == SnWrite(SnBuf, CmdIAC)
           c == AddCapped(Held, CmdIAC, SnCap)
<1>6. Held' = AddCapped(c, Current, SnCap)
  <2>1. sn.arr \in [1..SnCap -> Byte] /\ sn.len \in 0..SnCap
    BY <1>5, HeldWritten, SnWriteType
  <2>2. SubSeq(sn.arr, 1, sn.len) = c
    BY <1>5, HeldWritten
  <2>3. Held' = SubSeq(SnWrite(sn, Current).arr, 1, SnWrite(sn, Current).len)
    BY <1>1 DEF SetSnBuf, Held
  <2> HIDE DEF sn, c
  <2>4. SubSeq(SnWrite(sn, Current).arr, 1, SnWrite(sn, Current).len)
          = AddCapped(SubSeq(sn.arr, 1, sn.len), Current, SnCap)
    BY <1>2, <2>1, SnWriteHeld
  <2> QED
    BY <2>2, <2>3, <2>4
<1>7. /\ body' \in Seq(Byte) /\ Len(body') <= Observed /\ Holds(Held', body')
  <2>1. CASE Current = CmdIAC
    <3>1. body' = AddCapped(body, CmdIAC, Observed)
      <4>1. body' = Record(<<CmdIAC>>)
        BY <1>2, <2>1 DEF SubAfterIAC, CmdIAC, CmdSE
      <4> QED
        BY <1>5, <4>1, RecordIs
    <3> QED
      BY <1>5, <1>6, <2>1, <3>1, HoldsEscaped
  <2>2. CASE Current # CmdIAC
    <3> DEFINE p == AddCapped(body, CmdIAC, Observed)
    <3>1. body' = AddCapped(p, Current, Observed)
      <4>1. body' = Record(<<CmdIAC, Current>>)
        BY <1>1, <1>2, <2>2 DEF SubAfterIAC
      <4> QED
        BY <1>2, <1>5, <4>1, RecordIs
    <3>2. p \in Seq(Byte) /\ Len(p) <= Observed /\ Holds(c, p)
      BY <1>5, HoldsByte
    <3> HIDE DEF p, c
    <3> QED
      BY <1>2, <1>6, <3>1, <3>2, HoldsByte
  <2> QED
    BY <2>1, <2>2
<1>8. OpenOK'
  BY <1>1, <1>3, <1>5, <1>7 DEF OpenOK
<1> QED
  BY <1>1, <1>3, <1>4, <1>5, <1>7, <1>8 DEF SubInv

(* IAC SE: the newest event is the accumulator as it stands, unless the    *)
(* table is full and the event is lost.                                    *)
LEMMA SubEnds == ASSUME IndInv, SubInv, OnSubnegotiationEnd PROVE SubInv'
<1>1. /\ snEv' = appendSubnegotiation(snEv, snOption, snLen) /\ pc = "parse" /\ pc' = "parse"
      /\ state = "SubnegotiationIAC" /\ state' = "Data" /\ Current = CmdSE
      /\ Advance /\ snArr' = snArr /\ snLen' = snLen
  BY DEF OnSubnegotiationEnd, Advance
<1>2. /\ SubAfterIAC(Current) /\ Current \in Byte
  <2>1. Take(Current) /\ mode = "bodyiac" /\ Current \in Byte
    BY <1>1, IndInvParts, AdvanceFacts DEF SyncOK, InSync
  <2> QED
    BY <2>1 DEF Take, TextByte, AfterIAC, OptionByte, SubOption, SubByte, SubAfterIAC
<1>3. subs' = Append(subs, <<opt, body>>) /\ body' = body
  BY <1>1, <1>2 DEF SubAfterIAC, CmdSE, CmdIAC
<1>4. /\ body \in Seq(Byte) /\ Len(body) <= Observed /\ opt = snOption /\ Holds(Held, body)
      /\ CountOK /\ subs \in Seq(Byte \X Seq(Byte))
  BY <1>1 DEF SubInv, OpenOK
<1>5. /\ snEv \in Seq(Byte \X (0..SnCap)) /\ snOption \in Byte /\ snLen \in 0..SnCap
      /\ MaxSNEvents \in Nat
  BY IndInvParts, ParserAssumption DEF FieldsOK
<1> DEFINE e == <<snOption, snLen>>
           u == <<opt, body>>
<1>6. /\ e \in Byte \X (0..SnCap) /\ u \in Byte \X Seq(Byte) /\ e[1] = snOption /\ e[2] = snLen
      /\ u[1] = opt /\ u[2] = body
  BY <1>4, <1>5
<1> HIDE DEF e, u
<1>7. /\ subs' \in Seq(Byte \X Seq(Byte)) /\ Len(subs') = Len(subs) + 1
      /\ subs'[Len(subs) + 1] = u /\ Len(subs) \in Nat
  BY <1>3, <1>4, <1>6 DEF u
<1>8. Len(snEv) \in Nat
  BY <1>5
<1>9. CountOK' /\ NewestOK'
  <2>1. CASE Len(snEv) < MaxSNEvents
    <3>1. snEv' = Append(snEv, e)
      BY <1>1, <2>1 DEF appendSubnegotiation, e
    <3>2. Len(snEv') = Len(snEv) + 1 /\ snEv'[Len(snEv) + 1] = e
      BY <1>5, <1>6, <3>1
    <3>3. Len(snEv) = Len(subs)
      BY <1>4, <1>5, <1>7, <1>8, <2>1 DEF CountOK
    <3>4. CountOK'
      BY <1>5, <1>7, <1>8, <2>1, <3>2, <3>3 DEF CountOK
    <3>5. SnData(Len(snEv))' = Held
      BY <1>1, <1>6, <3>2 DEF SnData, Held
    <3>6. /\ snEv'[Len(snEv')][1] = subs'[Len(snEv')][1]
          /\ Holds(Held, subs'[Len(snEv')][2])
      BY <1>4, <1>6, <1>7, <3>2, <3>3
    <3>7. NewestOK'
      BY <3>5, <3>6 DEF NewestOK
    <3> QED
      BY <3>4, <3>7
  <2>2. CASE ~(Len(snEv) < MaxSNEvents)
    <3>1. snEv' = snEv
      BY <1>1, <2>2 DEF appendSubnegotiation
    <3>2. Len(snEv) = MaxSNEvents /\ Len(subs) >= MaxSNEvents
      BY <1>4, <1>5, <1>7, <1>8, <2>2 DEF CountOK
    <3>3. Len(snEv') # Len(subs')
      BY <1>5, <1>7, <3>1, <3>2
    <3> QED
      BY <1>5, <1>7, <3>1, <3>2, <3>3 DEF CountOK, NewestOK
  <2> QED
    BY <2>1, <2>2
<1> QED
  BY <1>1, <1>3, <1>4, <1>7, <1>9 DEF SubInv

(* Entering and leaving Parse, Reset and a stutter. *)
LEMMA SubElsewhere ==
    ASSUME IndInv, SubInv,
           (\E chunk \in Chunks : Feed(chunk)) \/ EndParse \/ Reset \/ UNCHANGED vars
    PROVE  SubInv'
<1>0. << >> \in Seq(Byte) /\ Len(<< >>) <= Observed /\ << >> \in Seq(Byte \X Seq(Byte))
  BY ParserAssumption
<1>1. CASE \E chunk \in Chunks : Feed(chunk)
  <2>1. /\ snEv' = << >> /\ subs' = << >> /\ body' = body /\ opt' = opt /\ state' = state
        /\ snArr' = snArr /\ snLen' = snLen /\ snOption' = snOption
    BY <1>1 DEF Feed, Mark, parserVars
  <2>2. CountOK' /\ NewestOK'
    BY <2>1, ParserAssumption DEF CountOK, NewestOK
  <2>3. OpenOK' <=> OpenOK
    BY <2>1 DEF OpenOK, Held
  <2> QED
    BY <1>0, <2>1, <2>2, <2>3 DEF SubInv
<1>2. CASE EndParse \/ UNCHANGED vars
  <2>1. /\ snEv' = snEv /\ subs' = subs /\ body' = body /\ opt' = opt /\ state' = state
        /\ snArr' = snArr /\ snLen' = snLen /\ snOption' = snOption
        /\ pc' = "parse" => pc = "parse"
    BY <1>2 DEF EndParse, parserVars, refVars, vars, result
  <2>2. (CountOK' <=> CountOK) /\ (InSubnegotiation' <=> InSubnegotiation)
    BY <2>1 DEF CountOK, InSubnegotiation
  <2>3. OpenOK' <=> OpenOK
    BY <2>1 DEF OpenOK, Held
  <2>4. NewestOK' <=> NewestOK
    BY <2>1 DEF NewestOK, SnData
  <2> QED
    BY <2>1, <2>2, <2>3, <2>4 DEF SubInv
<1>3. CASE Reset
  <2>1. /\ snEv' = snEv /\ body' = << >> /\ state' = "Data" /\ snArr' = snArr /\ pc' = "idle"
        /\ subs' = IF mode \in {"sb", "body", "bodyiac"} THEN << >> ELSE subs
    BY <1>3 DEF Reset, Restart, result
  <2>2. CASE mode \in {"sb", "body", "bodyiac"}
    <3>1. subs' = << >>
      BY <2>1, <2>2
    <3>2. NewestOK'
      BY <2>1, <3>1 DEF NewestOK
    <3> QED
      BY <1>0, <2>1, <3>1, <3>2 DEF SubInv
  <2>3. CASE mode \notin {"sb", "body", "bodyiac"}
    <3>1. subs' = subs /\ ~InSubnegotiation
      BY <2>1, <2>3, IndInvParts DEF SyncOK, InSync, InSubnegotiation
    <3>2. NewestOK' <=> NewestOK
      BY <2>1, <3>1 DEF NewestOK, SnData
    <3> QED
      BY <1>0, <2>1, <3>1, <3>2 DEF SubInv
  <2> QED
    BY <2>2, <2>3
<1> QED
  BY <1>1, <1>2, <1>3

(* Before the first call nothing is held. *)
LEMMA SubInit == Init => SubInv
<1> SUFFICES ASSUME Init PROVE SubInv
  OBVIOUS
<1>1. /\ snEv = << >> /\ subs = << >> /\ body = << >> /\ state = "Data" /\ pc = "idle"
  BY DEF Init, RefInit
<1>2. << >> \in Seq(Byte) /\ Len(<< >>) <= Observed /\ << >> \in Seq(Byte \X Seq(Byte))
  BY ParserAssumption
<1>3. NewestOK
  BY <1>1 DEF NewestOK
<1> QED
  BY <1>1, <1>2, <1>3 DEF SubInv
----------------------------------------------------------------------------
(* The event tables and the subnegotiation accumulator never outgrow their *)
(* fixed sizes and hold only verbs with options and lengths within the     *)
(* accumulator, whatever the peer sends.                                   *)
THEOREM ParserTypeCorrect == Spec => []TypeOK
<1>1. IndInv => TypeOK
  BY DEF IndInv
<1> QED
  BY <1>1, Invariance, PTL

(* The data events of a Parse call are disjoint, ordered slices of what    *)
(* was read, for every chunk and every table size.                         *)
THEOREM EventsInOrder == Spec => []EventsOrdered
<1>1. IndInv => EventsOrdered
  BY DEF IndInv
<1> QED
  BY <1>1, Invariance, PTL

(* Parse never loses its place in the stream: its state is the reference   *)
(* decoder's after every byte, however the stream is cut into chunks and   *)
(* however many events are dropped.                                        *)
THEOREM ParserInSync == Spec => []InSync
<1>1. IndInv => InSync
  BY DEF IndInv
<1> QED
  BY <1>1, Invariance, PTL

(* The command table of a Parse call is exactly the first MaxCmdEvents     *)
(* commands the reference decoder finds in the chunk.                      *)
THEOREM CommandsExact == Spec => []CommandsDecoded
<1>1. IndInv => CommandsDecoded
  BY DEF IndInv
<1> QED
  BY <1>1, Invariance, PTL

(* The data events of a Parse call hold a prefix of the text the reference *)
(* decoder finds in the chunk, and with the piece not yet flushed all of   *)
(* it while the table has room, for every chunk, alphabet and table size.  *)
THEOREM DataExact == Spec => []DataDecoded
<1>1. IndInv /\ DataInv /\ [Next]_vars => DataInv'
  BY DataElsewhere, DataOnByte, DataOnEnd DEF Next
<1>2. DataInv => DataDecoded
  BY DEF DataInv, DataDecoded
<1> QED
  BY <1>1, <1>2, DataInit, Invariance, PTL DEF Spec

(* A payload without doubled bytes is itself. *)
LEMMA NothingDoubled ==
    ASSUME NEW p \in Seq(Byte)
    PROVE  Expanded(p, {}) = p
<1> DEFINE n == Len(p)
           ss == Doubling(p, {})
           g == [m \in 1..n |-> SubSeq(p, 1, m)]
<1>1. n \in Nat /\ ss \in [1..n -> Seq(Byte)]
  BY DoublingType
<1>2. CASE n = 0
  <2>1. ss = << >> /\ p = << >>
    BY <1>1, <1>2
  <2> QED
    BY <2>1, FlattenEmpty DEF Expanded
<1>3. CASE n # 0
  <2>1. \A m \in 1..n : ss[m] = <<p[m]>>
    BY DEF Doubling
  <2>2. g[1] = ss[1]
    <3> DEFINE s == SubSeq(p, 1, 1)
    <3>0. 1 \in 1..n /\ \A m \in 1..1 : m = 1
      BY <1>1, <1>3
    <3>1. s \in Seq(Byte) /\ Len(s) = 1 /\ \A m \in 1..1 : s[m] = p[m]
      BY <3>0, SubSeqProperties
    <3>3. p[1] \in Byte /\ s[1] = p[1]
      BY <3>0, <3>1
    <3> HIDE DEF s
    <3>2. s = <<p[1]>>
      <4> DEFINE e == p[1]
      <4> HIDE DEF e
      <4>1. <<e>> \in Seq(Byte) /\ Len(<<e>>) = 1 /\ <<e>>[1] = e
        BY <3>3 DEF e
      <4> QED
        BY <3>1, <3>3, <4>1 DEF e
    <3> QED
      BY <3>0, <2>1, <3>2 DEF s
  <2>3. ASSUME NEW m \in 2..n PROVE g[m] = g[m - 1] \o ss[m]
    <3>1. g[m] = SubSeq(p, 1, m) /\ g[m - 1] = SubSeq(p, 1, m - 1) /\ ss[m] = <<p[m]>>
      BY <1>1, <2>1
    <3>2. /\ SubSeq(p, 1, m) \in Seq(Byte) /\ Len(SubSeq(p, 1, m)) = m
          /\ SubSeq(p, 1, m - 1) \in Seq(Byte) /\ Len(SubSeq(p, 1, m - 1)) = m - 1
          /\ \A j \in 1..m : SubSeq(p, 1, m)[j] = p[j]
          /\ \A j \in 1..(m - 1) : SubSeq(p, 1, m - 1)[j] = p[j]
      BY <1>1, SubSeqProperties
    <3> DEFINE s == SubSeq(p, 1, m - 1)
               t == SubSeq(p, 1, m)
               e == p[m]
    <3> HIDE DEF s, t, e
    <3>3. Append(s, e) \in Seq(Byte) /\ Len(Append(s, e)) = m
          /\ \A j \in 1..m : Append(s, e)[j] = IF j = m THEN e ELSE p[j]
      BY <1>1, <3>2 DEF s, e
    <3>4. t = Append(s, e)
      BY <3>2, <3>3 DEF t, e
    <3>5. Append(s, e) = s \o <<e>>
      BY <3>2 DEF s
    <3> QED
      BY <3>1, <3>4, <3>5 DEF s, t, e
  <2>4. Flattens(g, ss, n)
    <3>1. g = [m \in 1..n |-> IF m = 1 THEN ss[m] ELSE g[m - 1] \o ss[m]]
      <4>1. \A m \in 1..n : g[m] = IF m = 1 THEN ss[m] ELSE g[m - 1] \o ss[m]
        <5> SUFFICES ASSUME NEW m \in 1..n
                     PROVE  g[m] = IF m = 1 THEN ss[m] ELSE g[m - 1] \o ss[m]
          OBVIOUS
        <5>1. m = 1 \/ m \in 2..n
          BY <1>1
        <5> HIDE DEF ss, g
        <5> QED
          BY <5>1, <2>2, <2>3
      <4> HIDE DEF ss
      <4> QED
        BY <4>1
    <3> QED
      BY <3>1 DEF Flattens
  <2>5. FlattenSeq(ss) = g[n]
    <3> HIDE DEF ss, g
    <3> QED
      BY <1>1, <1>3, <2>4, FlattenIs
  <2>6. g[n] = p
    BY <1>1, <1>3, SubSeqFull
  <2> QED
    BY <2>5, <2>6 DEF Expanded
<1> QED
  BY <1>1, <1>2, <1>3

(* While no later subnegotiation has opened, the newest event holds the    *)
(* option the reference decoder finds and, if it has no byte 255, the      *)
(* payload, cut to the accumulator's capacity, for every stream, chunking, *)
(* capacity and table size.                                                *)
THEOREM SubnegotiationExact == Spec => []SubnegotiationDecoded
<1>1. IndInv /\ SubInv /\ [Next]_vars => SubInv'
  BY SubOutside, SubOpens, SubOptionRead, SubByteRead, SubPairRead, SubEnds, SubElsewhere
     DEF Next, ParseByte
<1>2. SubInv => SubnegotiationDecoded
  <2> DEFINE k == Len(snEv)
             p == subs[k][2]
  <2> SUFFICES ASSUME SubInv, k > 0, k = Len(subs), ~InSubnegotiation
               PROVE  /\ snEv[k][1] = subs[k][1]
                      /\ Escapes(p) = {} => SnData(k) = Capped(p, SnCap)
    BY DEF SubnegotiationDecoded, Escapes, Capped
  <2>1. snEv[k][1] = subs[k][1] /\ Holds(SnData(k), p)
    BY DEF SubInv, NewestOK
  <2>2. p \in Seq(Byte)
    <3>1. subs \in Seq(Byte \X Seq(Byte)) /\ k \in 1..Len(subs)
      BY DEF SubInv
    <3> QED
      BY <3>1
  <2>3. ASSUME Escapes(p) = {} PROVE SnData(k) = Capped(p, SnCap)
    BY <2>1, <2>2, <2>3, NothingDoubled DEF Holds
  <2> QED
    BY <2>1, <2>3
<1> QED
  BY <1>1, <1>2, SubInit, Invariance, PTL DEF Spec
============================================================================

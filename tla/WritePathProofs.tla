-------------------------- MODULE WritePathProofs --------------------------
(***************************************************************************)
(* Proofs about WritePath for every set of texts, commands and             *)
(* subnegotiations, every capacity of at least five bytes, every output of *)
(* zlib, and any number of calls and failing writes.                       *)
(*                                                                         *)
(* The argument: all that the peer has not read yet, on the wire and in    *)
(* the buffer, takes its decoder to a state in which it has exactly what   *)
(* the calls have accepted.  The run of the decoder over those bytes is a  *)
(* function from positions to decoder states.                              *)
(***************************************************************************)
EXTENDS WritePath, FlattenTheorems, FiniteSetTheorems

(* The peer: the variables of TelnetStream. *)
Decoder ==
    [mode : {"text", "iac", "verb", "sb", "body", "bodyiac"}, verb : Nat, opt : Nat,
     body : Seq(Nat), text : Seq(Nat), cmds : Seq(Nat \X Nat), subs : Seq(Nat \X Seq(Nat))]

Peer == [mode |-> mode, verb |-> verb, opt |-> opt, body |-> body, text |-> text,
         cmds |-> cmds, subs |-> subs]

(* Record and Take as functions of such a state. *)
Shows(d, b) == [d EXCEPT !.mode = "text", !.text = Append(d.text, b)]
Recorded(d, bytes) ==
    SubSeq(d.body \o bytes, 1,
           IF Len(d.body \o bytes) < Observed THEN Len(d.body \o bytes) ELSE Observed)

OnText(d, b) == IF b = CmdIAC THEN [d EXCEPT !.mode = "iac"] ELSE Shows(d, b)
OnIAC(d, b) ==
    IF b = CmdIAC THEN Shows(d, b)
    ELSE IF b \in Verbs THEN [d EXCEPT !.mode = "verb", !.verb = b]
    ELSE IF b = CmdSB THEN [d EXCEPT !.mode = "sb", !.body = << >>]
    ELSE [d EXCEPT !.mode = "text"]
OnBody(d, b) == IF b = CmdIAC THEN [d EXCEPT !.mode = "bodyiac"]
                ELSE [d EXCEPT !.body = Recorded(d, <<b>>)]
OnBodyIAC(d, b) ==
    IF b = CmdSE THEN [d EXCEPT !.mode = "text", !.subs = Append(d.subs, <<d.opt, d.body>>)]
    ELSE [d EXCEPT !.mode = "body",
                   !.body = Recorded(d, IF b = CmdIAC THEN <<b>> ELSE <<CmdIAC, b>>)]
Decoded(d, b) ==
    IF d.mode = "text" THEN OnText(d, b)
    ELSE IF d.mode = "iac" THEN OnIAC(d, b)
    ELSE IF d.mode = "verb" THEN [d EXCEPT !.mode = "text", !.cmds = Append(d.cmds, <<d.verb, b>>)]
    ELSE IF d.mode = "sb" THEN [d EXCEPT !.mode = "body", !.opt = b]
    ELSE IF d.mode = "body" THEN OnBody(d, b)
    ELSE OnBodyIAC(d, b)

(* A data byte leaves a decoder, back in text. *)
LEMMA ShowsTyped ==
    ASSUME NEW d \in Decoder, NEW b \in Nat
    PROVE  /\ Shows(d, b) \in Decoder
           /\ Shows(d, b).mode = "text" /\ Shows(d, b).text = Append(d.text, b)
           /\ Shows(d, b).cmds = d.cmds /\ Shows(d, b).subs = d.subs
<1>1. Append(d.text, b) \in Seq(Nat)
  BY AppendProperties DEF Decoder
<1> QED
  BY <1>1 DEF Shows, Decoder

(* So is the recorded payload. *)
LEMMA RecordedTyped ==
    ASSUME NEW d \in Decoder, NEW bytes \in Seq(Nat)
    PROVE  Recorded(d, bytes) \in Seq(Nat)
<1> DEFINE s == d.body \o bytes
           n == IF Len(s) < Observed THEN Len(s) ELSE Observed
<1>1. s \in Seq(Nat) /\ Len(s) \in Nat
  BY ConcatProperties DEF Decoder
<1> HIDE DEF s
<1>2. n \in Int /\ \A i \in 1..n : s[i] \in Nat
  BY <1>1, CallAssumption
<1> HIDE DEF n
<1>3. SubSeq(s, 1, n) \in Seq(Nat)
  BY <1>2, SubSeqProperties
<1> QED
  BY <1>3 DEF Recorded, s, n

(* The decoder stays one. *)
LEMMA DecodedTyped ==
    ASSUME NEW d \in Decoder, NEW b \in Nat
    PROVE  Decoded(d, b) \in Decoder
<1>1. Shows(d, b) \in Decoder
  BY ShowsTyped
<1>2. <<b>> \in Seq(Nat) /\ <<CmdIAC, b>> \in Seq(Nat)
  BY DEF CmdIAC
<1>3. Recorded(d, <<b>>) \in Seq(Nat) /\ Recorded(d, <<CmdIAC, b>>) \in Seq(Nat)
  BY <1>2, RecordedTyped
<1>4. Append(d.cmds, <<d.verb, b>>) \in Seq(Nat \X Nat)
  BY AppendProperties DEF Decoder
<1>5. Append(d.subs, <<d.opt, d.body>>) \in Seq(Nat \X Seq(Nat))
  BY AppendProperties DEF Decoder
<1>6. OnText(d, b) \in Decoder
  BY <1>1 DEF OnText, Decoder
<1>7. OnIAC(d, b) \in Decoder
  <2>1. [d EXCEPT !.mode = "verb", !.verb = b] \in Decoder
    BY DEF Decoder
  <2>2. [d EXCEPT !.mode = "sb", !.body = << >>] \in Decoder
    BY EmptySeq DEF Decoder
  <2>3. [d EXCEPT !.mode = "text"] \in Decoder
    BY DEF Decoder
  <2> QED
    BY <1>1, <2>1, <2>2, <2>3 DEF OnIAC
<1>8. OnBody(d, b) \in Decoder
  BY <1>3 DEF OnBody, Decoder
<1>9. OnBodyIAC(d, b) \in Decoder
  BY <1>3, <1>5 DEF OnBodyIAC, Decoder
<1>10. [d EXCEPT !.mode = "text", !.cmds = Append(d.cmds, <<d.verb, b>>)] \in Decoder
  BY <1>4 DEF Decoder
<1>11. [d EXCEPT !.mode = "body", !.opt = b] \in Decoder
  BY DEF Decoder
<1> QED
  BY <1>6, <1>7, <1>8, <1>9, <1>10, <1>11 DEF Decoded
----------------------------------------------------------------------------
(* tr is the run of the decoder over s, from d to e. *)
Runs(tr, d, s, e) == /\ tr[0] = d /\ tr[Len(s)] = e
                     /\ \A k \in 1..Len(s) : tr[k] = Decoded(tr[k - 1], s[k])
Leads(d, s, e) == \E tr \in [0..Len(s) -> Decoder] : Runs(tr, d, s, e)

(* Nothing leads nowhere else, ... *)
LEMMA LeadsNowhere ==
    ASSUME NEW d \in Decoder
    PROVE  Leads(d, << >>, d)
<1> DEFINE tr == [k \in 0..Len(<< >>) |-> d]
<1>1. Len(<< >>) = 0
  BY EmptySeq
<1>2. tr \in [0..Len(<< >>) -> Decoder]
  OBVIOUS
<1>3. Runs(tr, d, << >>, d)
  BY <1>1 DEF Runs
<1> QED
  BY <1>2, <1>3 DEF Leads

(* ... and only there. *)
LEMMA LeadsStays ==
    ASSUME NEW d, NEW e, Leads(d, << >>, e)
    PROVE  e = d
  BY EmptySeq DEF Leads, Runs

(* One byte is one step. *)
LEMMA LeadsOne ==
    ASSUME NEW d \in Decoder, NEW b \in Nat
    PROVE  Leads(d, <<b>>, Decoded(d, b)) /\ Decoded(d, b) \in Decoder
<1> DEFINE tr == [k \in 0..1 |-> IF k = 0 THEN d ELSE Decoded(d, b)]
<1>1. Len(<<b>>) = 1 /\ <<b>>[1] = b
  OBVIOUS
<1>2. Decoded(d, b) \in Decoder
  BY DecodedTyped
<1>3. tr \in [0..1 -> Decoder] /\ tr[0] = d /\ tr[1] = Decoded(d, b)
  BY <1>2
<1> HIDE DEF tr
<1>4. Runs(tr, d, <<b>>, Decoded(d, b))
  <2>1. \A k \in 1..1 : k = 1 /\ k - 1 = 0
    OBVIOUS
  <2> QED
    BY <1>1, <1>3, <2>1 DEF Runs
<1> QED
  BY <1>1, <1>2, <1>3, <1>4 DEF Leads

(* A run can be continued. *)
LEMMA LeadsOn ==
    ASSUME NEW d, NEW e, NEW f, NEW s \in Seq(Nat), NEW t \in Seq(Nat),
           Leads(d, s, e), Leads(e, t, f)
    PROVE  Leads(d, s \o t, f)
<1>1. PICK u \in [0..Len(s) -> Decoder] : Runs(u, d, s, e)
  BY DEF Leads
<1>2. PICK v \in [0..Len(t) -> Decoder] : Runs(v, e, t, f)
  BY DEF Leads
<1> DEFINE m == Len(s)
           n == Len(t)
           st == s \o t
           tr == [k \in 0..(m + n) |-> IF k <= m THEN u[k] ELSE v[k - m]]
<1>3. /\ m \in Nat /\ n \in Nat /\ Len(st) = m + n
      /\ \A k \in 1..(m + n) : st[k] = IF k <= m THEN s[k] ELSE t[k - m]
  BY ConcatProperties
<1> HIDE DEF st
<1>4. u \in [0..m -> Decoder] /\ v \in [0..n -> Decoder]
  BY <1>1, <1>2
<1>5. /\ u[0] = d /\ u[m] = e /\ v[0] = e /\ v[n] = f
      /\ \A k \in 1..m : u[k] = Decoded(u[k - 1], s[k])
      /\ \A k \in 1..n : v[k] = Decoded(v[k - 1], t[k])
  BY <1>1, <1>2 DEF Runs
<1> HIDE DEF m, n
<1>6. tr \in [0..(m + n) -> Decoder]
  <2> SUFFICES ASSUME NEW k \in 0..(m + n)
               PROVE  (IF k <= m THEN u[k] ELSE v[k - m]) \in Decoder
    OBVIOUS
  <2>1. k <= m => k \in 0..m
    BY <1>3
  <2>2. ~(k <= m) => k - m \in 0..n
    BY <1>3
  <2> QED
    BY <1>4, <2>1, <2>2
<1>7. tr[0] = d /\ tr[m + n] = f
  <2>1. 0 \in 0..(m + n) /\ m + n \in 0..(m + n) /\ 0 <= m
    BY <1>3
  <2>2. CASE n = 0
    BY <1>3, <1>5, <2>1, <2>2
  <2>3. CASE n # 0
    <3>1. ~(m + n <= m) /\ (m + n) - m = n
      BY <1>3, <2>3
    <3> QED
      BY <1>5, <2>1, <3>1
  <2> QED
    BY <2>2, <2>3
<1>8. ASSUME NEW k \in 1..(m + n)
      PROVE  tr[k] = Decoded(tr[k - 1], st[k])
  <2>0. k \in 0..(m + n) /\ k - 1 \in 0..(m + n)
    BY <1>3
  <2>1. CASE k <= m
    <3>1. k \in 1..m /\ k - 1 <= m
      BY <1>3, <2>1
    <3>2. tr[k] = u[k] /\ tr[k - 1] = u[k - 1]
      BY <2>0, <2>1, <3>1
    <3> QED
      BY <1>3, <1>5, <2>1, <3>1, <3>2
  <2>2. CASE k = m + 1
    <3>1. ~(k <= m) /\ k - m = 1 /\ k - 1 = m /\ k - 1 <= m /\ 1 \in 1..n /\ 1 - 1 = 0
      BY <1>3, <2>2
    <3>2. tr[k] = v[1] /\ tr[k - 1] = u[m]
      BY <2>0, <3>1
    <3>3. v[1] = Decoded(v[0], t[1]) /\ st[k] = t[1]
      BY <1>3, <1>5, <3>1
    <3> QED
      BY <1>5, <3>2, <3>3
  <2>3. CASE k > m + 1
    <3>1. /\ ~(k <= m) /\ ~(k - 1 <= m) /\ k - m \in 1..n
          /\ (k - 1) - m = (k - m) - 1
      BY <1>3, <2>3
    <3>2. tr[k] = v[k - m] /\ tr[k - 1] = v[(k - m) - 1]
      BY <2>0, <3>1
    <3>3. v[k - m] = Decoded(v[(k - m) - 1], t[k - m]) /\ st[k] = t[k - m]
      BY <1>3, <1>5, <3>1
    <3> QED
      BY <3>2, <3>3
  <2> QED
    BY <1>3, <2>1, <2>2, <2>3
<1> HIDE DEF tr
<1>9. Runs(tr, d, st, f)
  BY <1>3, <1>7, <1>8 DEF Runs
<1> QED
  BY <1>3, <1>6, <1>9 DEF Leads, st

(* A run can be begun. *)
LEMMA LeadsFrom ==
    ASSUME NEW d, NEW e, NEW s \in Seq(Nat), s # << >>, Leads(d, s, e)
    PROVE  Leads(Decoded(d, Head(s)), Tail(s), e)
<1>1. PICK u \in [0..Len(s) -> Decoder] : Runs(u, d, s, e)
  BY DEF Leads
<1> DEFINE n == Len(Tail(s))
           tr == [k \in 0..n |-> u[k + 1]]
<1>2. /\ n \in Nat /\ Len(s) = n + 1 /\ Head(s) = s[1]
      /\ \A k \in 1..n : Tail(s)[k] = s[k + 1]
  BY HeadTailProperties, EmptySeq
<1> HIDE DEF n
<1>3. /\ u[0] = d /\ u[n + 1] = e
      /\ \A k \in 1..(n + 1) : u[k] = Decoded(u[k - 1], s[k])
  BY <1>1, <1>2 DEF Runs
<1>4. tr \in [0..n -> Decoder] /\ \A k \in 0..n : tr[k] = u[k + 1]
  BY <1>1, <1>2
<1>5. tr[0] = Decoded(d, Head(s)) /\ tr[n] = e
  <2>1. 1 \in 1..(n + 1) /\ 0 \in 0..n /\ n \in 0..n /\ 0 + 1 = 1 /\ 1 - 1 = 0
    BY <1>2
  <2>2. u[1] = Decoded(u[0], s[1])
    BY <1>3, <2>1
  <2> QED
    BY <1>2, <1>3, <1>4, <2>1, <2>2
<1>6. ASSUME NEW k \in 1..n PROVE tr[k] = Decoded(tr[k - 1], Tail(s)[k])
  <2>1. k \in 0..n /\ k - 1 \in 0..n /\ k + 1 \in 1..(n + 1) /\ (k + 1) - 1 = k /\ (k - 1) + 1 = k
    BY <1>2
  <2>2. tr[k] = u[k + 1] /\ tr[k - 1] = u[k]
    BY <1>4, <2>1
  <2>3. u[k + 1] = Decoded(u[k], s[k + 1])
    BY <1>3, <2>1
  <2> QED
    BY <1>2, <2>2, <2>3
<1> HIDE DEF tr
<1>7. Runs(tr, Decoded(d, Head(s)), Tail(s), e)
  BY <1>5, <1>6 DEF Runs, n
<1> QED
  BY <1>4, <1>7 DEF Leads, n

(* e has all that d has, and perhaps more. *)
Grown(d, e) == /\ IsPrefix(d.text, e.text)
               /\ IsPrefix(d.cmds, e.cmds)
               /\ IsPrefix(d.subs, e.subs)

(* t is s, or s and one element of S more. *)
AtMostOne(s, t, S) == t = s \/ \E x \in S : t = Append(s, x)

(* A step appends at most one element to each sequence. *)
LEMMA DecodedAppends ==
    ASSUME NEW d \in Decoder, NEW b \in Nat
    PROVE  LET f == Decoded(d, b)
           IN /\ AtMostOne(d.text, f.text, Nat)
              /\ AtMostOne(d.cmds, f.cmds, Nat \X Nat)
              /\ AtMostOne(d.subs, f.subs, Nat \X Seq(Nat))
<1> USE DEF AtMostOne
<1> DEFINE f == Decoded(d, b)
           Same(g) == g.text = d.text /\ g.cmds = d.cmds /\ g.subs = d.subs
<1>1. <<d.verb, b>> \in Nat \X Nat /\ <<d.opt, d.body>> \in Nat \X Seq(Nat)
  BY DEF Decoder
<1>2. /\ Shows(d, b).cmds = d.cmds /\ Shows(d, b).subs = d.subs
      /\ Shows(d, b).text = Append(d.text, b)
  BY ShowsTyped
<1>3. CASE d.mode = "text"
  <2>1. CASE b = CmdIAC
    <3>1. f = [d EXCEPT !.mode = "iac"]
      BY <1>3, <2>1 DEF Decoded, OnText
    <3> QED
      BY <3>1 DEF Decoder
  <2>2. CASE b # CmdIAC
    <3>1. f = Shows(d, b)
      BY <1>3, <2>2 DEF Decoded, OnText
    <3> QED
      BY <1>1, <1>2, <3>1
  <2> QED
    BY <2>1, <2>2
<1>4. CASE d.mode = "iac"
  <2>1. CASE b = CmdIAC
    <3>1. f = Shows(d, b)
      BY <1>4, <2>1 DEF Decoded, OnIAC
    <3> QED
      BY <1>1, <1>2, <3>1
  <2>2. CASE b # CmdIAC
    <3>1. \/ f = [d EXCEPT !.mode = "verb", !.verb = b]
          \/ f = [d EXCEPT !.mode = "sb", !.body = << >>]
          \/ f = [d EXCEPT !.mode = "text"]
      BY <1>4, <2>2 DEF Decoded, OnIAC
    <3> HIDE DEF f
    <3>2. Same(f)
      BY <3>1 DEF Decoder
    <3> QED
      BY <3>2 DEF f
  <2> QED
    BY <2>1, <2>2
<1>5. CASE d.mode = "verb"
  <2>1. f = [d EXCEPT !.mode = "text", !.cmds = Append(d.cmds, <<d.verb, b>>)]
    BY <1>5 DEF Decoded
  <2> HIDE DEF f
  <2>2. f.text = d.text /\ f.cmds = Append(d.cmds, <<d.verb, b>>) /\ f.subs = d.subs
    BY <2>1 DEF Decoder
  <2> QED
    BY <1>1, <2>2 DEF f
<1>6. CASE d.mode = "sb"
  <2>1. f = [d EXCEPT !.mode = "body", !.opt = b]
    BY <1>6 DEF Decoded
  <2> HIDE DEF f
  <2>2. Same(f)
    BY <2>1 DEF Decoder
  <2> QED
    BY <2>2 DEF f
<1>7. CASE d.mode = "body"
  <2>1. \/ f = [d EXCEPT !.mode = "bodyiac"]
        \/ f = [d EXCEPT !.body = Recorded(d, <<b>>)]
    BY <1>7 DEF Decoded, OnBody
  <2> HIDE DEF f
  <2>2. Same(f)
    BY <2>1 DEF Decoder
  <2> QED
    BY <2>2 DEF f
<1>8. CASE d.mode = "bodyiac"
  <2>1. CASE b = CmdSE
    <3>1. f = [d EXCEPT !.mode = "text", !.subs = Append(d.subs, <<d.opt, d.body>>)]
      BY <1>8, <2>1 DEF Decoded, OnBodyIAC
    <3> HIDE DEF f
    <3>2. /\ f.text = d.text /\ f.cmds = d.cmds
          /\ f.subs = Append(d.subs, <<d.opt, d.body>>)
      BY <3>1 DEF Decoder
    <3> QED
      BY <1>1, <3>2 DEF f
  <2>2. CASE b # CmdSE
    <3> DEFINE r == Recorded(d, IF b = CmdIAC THEN <<b>> ELSE <<CmdIAC, b>>)
    <3>1. f = [d EXCEPT !.mode = "body", !.body = r]
      BY <1>8, <2>2 DEF Decoded, OnBodyIAC
    <3> HIDE DEF f, r
    <3>2. Same(f)
      BY <3>1 DEF Decoder
    <3> QED
      BY <3>2 DEF f
  <2> QED
    BY <2>1, <2>2
<1> QED
  BY <1>3, <1>4, <1>5, <1>6, <1>7, <1>8 DEF Decoder

(* A prefix of s is one of what s has become. *)
LEMMA PrefixAppends ==
    ASSUME NEW S, NEW r \in Seq(S), NEW s \in Seq(S), NEW t, IsPrefix(r, s), AtMostOne(s, t, S)
    PROVE  IsPrefix(r, t)
<1>1. CASE t = s
  BY <1>1
<1>2. CASE \E x \in S : t = Append(s, x)
  <2>1. PICK x \in S : t = Append(s, x)
    BY <1>2
  <2>2. t = s \o <<x>> /\ <<x>> \in Seq(S)
    BY <2>1, AppendIsConcat
  <2> QED
    BY <2>2, PrefixLonger
<1> QED
  BY <1>1, <1>2 DEF AtMostOne

(* The decoder never takes back what it has decoded. *)
LEMMA LeadsGrows ==
    ASSUME NEW d, NEW e, NEW s \in Seq(Nat), Leads(d, s, e)
    PROVE  Grown(d, e) /\ d \in Decoder /\ e \in Decoder
<1>1. PICK tr \in [0..Len(s) -> Decoder] : Runs(tr, d, s, e)
  BY DEF Leads
<1> DEFINE n == Len(s)
           T == {k \in Nat : k <= n => Grown(d, tr[k])}
<1>2. /\ n \in Nat /\ tr[0] = d /\ tr[n] = e /\ tr \in [0..n -> Decoder]
      /\ \A k \in 1..n : tr[k] = Decoded(tr[k - 1], s[k]) /\ s[k] \in Nat
  BY <1>1 DEF Runs
<1> HIDE DEF n
<1>3. d \in Decoder /\ e \in Decoder
  BY <1>2
<1>4. d.text \in Seq(Nat) /\ d.cmds \in Seq(Nat \X Nat) /\ d.subs \in Seq(Nat \X Seq(Nat))
  BY <1>3 DEF Decoder
<1>5. 0 \in T
  BY <1>2, <1>4, PrefixSelf DEF Grown
<1>6. ASSUME NEW k \in Nat, k \in T PROVE k + 1 \in T
  <2> SUFFICES ASSUME k + 1 <= n PROVE Grown(d, tr[k + 1])
    OBVIOUS
  <2> DEFINE g == tr[k]
             b == s[k + 1]
             f == Decoded(g, b)
  <2>1. k + 1 \in 1..n /\ k \in 0..n /\ k <= n /\ (k + 1) - 1 = k
    BY <1>2
  <2>2. g \in Decoder /\ b \in Nat /\ tr[k + 1] = f /\ Grown(d, g)
    BY <1>2, <1>6, <2>1
  <2> HIDE DEF g, b
  <2>3. /\ AtMostOne(g.text, f.text, Nat) /\ AtMostOne(g.cmds, f.cmds, Nat \X Nat)
        /\ AtMostOne(g.subs, f.subs, Nat \X Seq(Nat))
    BY <2>2, DecodedAppends
  <2>4. g.text \in Seq(Nat) /\ g.cmds \in Seq(Nat \X Nat) /\ g.subs \in Seq(Nat \X Seq(Nat))
    BY <2>2 DEF Decoder
  <2> HIDE DEF f
  <2>5. IsPrefix(d.text, f.text)
    BY <1>4, <2>2, <2>3, <2>4, PrefixAppends DEF Grown
  <2>6. IsPrefix(d.cmds, f.cmds)
    BY <1>4, <2>2, <2>3, <2>4, PrefixAppends DEF Grown
  <2>7. IsPrefix(d.subs, f.subs)
    BY <1>4, <2>2, <2>3, <2>4, PrefixAppends DEF Grown
  <2> QED
    BY <2>2, <2>5, <2>6, <2>7 DEF Grown
<1>7. \A k \in Nat : k \in T
  <2> HIDE DEF T
  <2> QED
    BY <1>5, <1>6, NatSetInduction
<1>8. Grown(d, tr[n])
  BY <1>2, <1>7
<1> QED
  BY <1>2, <1>3, <1>8
----------------------------------------------------------------------------
(* One byte escaped is one data byte at the peer. *)
LEMMA EscapedLeads ==
    ASSUME NEW e \in Decoder, e.mode = "text", NEW b \in Nat
    PROVE  /\ Leads(e, Escaped(b), Shows(e, b))
           /\ Escaped(b) \in Seq(Nat) /\ Len(Escaped(b)) \in 1..2
           /\ Len(Escaped(b)) = 2 => b = CmdIAC
<1>1. CASE b # CmdIAC
  <2>1. Escaped(b) = <<b>> /\ Decoded(e, b) = Shows(e, b)
    BY <1>1 DEF Escaped, Decoded, OnText
  <2> QED
    BY <2>1, LeadsOne
<1>2. CASE b = CmdIAC
  <2> DEFINE e1 == [e EXCEPT !.mode = "iac"]
  <2>1. e1 \in Decoder /\ Decoded(e, b) = e1
    BY <1>2 DEF Decoder, Decoded, OnText
  <2>2. e1.mode = "iac" /\ e1.text = e.text
    BY DEF Decoder
  <2>3. Decoded(e1, b) = Shows(e1, b)
    BY <1>2, <2>2 DEF Decoded, OnIAC
  <2>4. Shows(e1, b) = Shows(e, b)
    <3> DEFINE t == Append(e.text, b)
    <3>1. Shows(e, b) = [e EXCEPT !.mode = "text", !.text = t]
      BY DEF Shows
    <3>2. Shows(e1, b) = [e1 EXCEPT !.mode = "text", !.text = t]
      BY <2>2 DEF Shows
    <3> HIDE DEF t
    <3> QED
      BY <3>1, <3>2 DEF Decoder
  <2> HIDE DEF e1
  <2>5. Escaped(b) = <<b>> \o <<b>> /\ <<b>> \in Seq(Nat) /\ Len(<<b>> \o <<b>>) = 2
        /\ <<b>> \o <<b>> \in Seq(Nat)
    BY <1>2 DEF Escaped
  <2>6. Leads(e, <<b>>, e1) /\ Leads(e1, <<b>>, Shows(e, b))
    BY <2>1, <2>3, <2>4, LeadsOne
  <2>7. Leads(e, <<b>> \o <<b>>, Shows(e, b))
    BY <2>5, <2>6, LeadsOn
  <2> QED
    BY <1>2, <2>5, <2>7
<1> QED
  BY <1>1, <1>2

(* f is between two sequences and has the commands and subnegotiations of  *)
(* e, and data after its text.                                             *)
TextOnly(e, f, data) == /\ f \in Decoder /\ f.mode = "text" /\ f.text = e.text \o data
                        /\ f.cmds = e.cmds /\ f.subs = e.subs

(* Appending to a part of a sequence appends to all of it. *)
LEMMA ConcatAppend ==
    ASSUME NEW S, NEW r \in Seq(S), NEW s \in Seq(S), NEW x \in S
    PROVE  /\ r \o (s \o <<x>>) = Append(r \o s, x)
           /\ r \o Append(s, x) = Append(r \o s, x)
<1>1. <<x>> \in Seq(S) /\ r \o s \in Seq(S)
  BY ConcatProperties
<1>2. r \o (s \o <<x>>) = (r \o s) \o <<x>>
  BY <1>1, ConcatAssociative
<1>3. (r \o s) \o <<x>> = Append(r \o s, x) /\ s \o <<x>> = Append(s, x)
  BY <1>1, AppendIsConcat
<1> QED
  BY <1>2, <1>3

(* Text without IAC arrives as it is. *)
LEMMA PlainLeads ==
    ASSUME NEW e \in Decoder, e.mode = "text", NEW data \in Seq(Nat), CmdIAC \notin ToSet(data)
    PROVE  \E f \in Decoder : Leads(e, data, f) /\ TextOnly(e, f, data)
<1> DEFINE n == Len(data)
           upto(k) == SubSeq(data, 1, k)
           at(k) == [e EXCEPT !.text = e.text \o upto(k)]
           tr == [k \in 0..n |-> at(k)]
<1>1. /\ n \in Nat /\ e.text \in Seq(Nat)
      /\ \A k \in 1..n : data[k] \in Nat /\ data[k] # CmdIAC
  <2>1. n \in Nat /\ DOMAIN data = 1..n /\ \A k \in 1..n : data[k] \in Nat
    BY LenProperties
  <2>2. \A k \in 1..n : data[k] \in ToSet(data)
    BY <2>1 DEF ToSet
  <2> QED
    BY <2>1, <2>2 DEF Decoder
<1>2. ASSUME NEW k \in 0..n PROVE upto(k) \in Seq(Nat) /\ e.text \o upto(k) \in Seq(Nat)
  <2>1. \A i \in 1..k : data[i] \in Nat
    BY <1>1
  <2>2. upto(k) \in Seq(Nat)
    BY <1>1, <2>1, SubSeqProperties
  <2> QED
    BY <1>1, <2>2, ConcatProperties
<1>3. ASSUME NEW k \in 1..n
      PROVE  e.text \o upto(k) = Append(e.text \o upto(k - 1), data[k])
  <2>0. k - 1 \in 0..n /\ k \in 0..n
    BY <1>1
  <2>1. /\ upto(k - 1) \in Seq(Nat) /\ e.text \o upto(k - 1) \in Seq(Nat)
        /\ data[k] \in Nat /\ <<data[k]>> \in Seq(Nat)
    BY <1>1, <1>2, <2>0
  <2>2. upto(k) = upto(k - 1) \o <<data[k]>>
    <3>1. 1 \in 1..n /\ k \in 1..Len(data) /\ 1 \in 1..Len(data)
      BY <1>1
    <3> QED
      BY <1>1, <3>1, SubSeqRecursiveSecond
  <2> DEFINE front == upto(k - 1)
             x == data[k]
             r == e.text
             N == Nat
  <2>3. r \in Seq(N) /\ front \in Seq(N) /\ x \in N /\ upto(k) = front \o <<x>>
    BY <1>1, <2>1, <2>2
  <2> HIDE DEF upto, front, x, r, N
  <2>4. r \o (front \o <<x>>) = Append(r \o front, x)
    BY ONLY <2>3, ConcatAppend
  <2> QED
    BY <2>3, <2>4 DEF front, x, r
<1>4. upto(0) = << >> /\ upto(n) = data
  BY <1>1, SubSeqEmpty, SubSeqFull
<1> HIDE DEF upto
<1>5. ASSUME NEW k \in 0..n
      PROVE  /\ at(k) \in Decoder /\ at(k).mode = "text"
             /\ at(k).text = e.text \o upto(k) /\ at(k).cmds = e.cmds /\ at(k).subs = e.subs
  BY <1>2 DEF Decoder
<1>6. tr \in [0..n -> Decoder] /\ \A k \in 0..n : tr[k] = at(k)
  BY <1>5
<1>7. ASSUME NEW k \in 1..n PROVE tr[k] = Decoded(tr[k - 1], data[k])
  <2> DEFINE g == at(k - 1)
             b == data[k]
  <2>0. k - 1 \in 0..n /\ k \in 0..n
    BY <1>1
  <2>1. g \in Decoder /\ g.mode = "text" /\ g.text = e.text \o upto(k - 1)
    BY <1>5, <2>0
  <2>2. Decoded(g, b) = [g EXCEPT !.mode = "text", !.text = Append(g.text, b)]
    BY <1>1, <2>1 DEF Decoded, OnText, Shows
  <2>3. Append(g.text, b) = e.text \o upto(k)
    BY <1>3, <2>1
  <2>4. [g EXCEPT !.mode = "text", !.text = e.text \o upto(k)] = at(k)
    BY <2>1 DEF Decoder
  <2> QED
    BY <1>6, <2>0, <2>2, <2>3, <2>4
<1>8. tr[0] = e
  <2>1. at(0) = [e EXCEPT !.text = e.text \o << >>]
    BY <1>4
  <2>2. e.text \o << >> = e.text
    BY <1>1, ConcatEmptySeq
  <2>3. [e EXCEPT !.text = e.text] = e
    BY DEF Decoder
  <2>4. 0 \in 0..n
    BY <1>1
  <2> QED
    BY <1>6, <2>1, <2>2, <2>3, <2>4
<1> HIDE DEF at, tr
<1>9. Runs(tr, e, data, at(n))
  BY <1>1, <1>6, <1>7, <1>8 DEF Runs
<1>10. Leads(e, data, at(n)) /\ n \in 0..n
  BY <1>1, <1>6, <1>9 DEF Leads
<1>11. at(n) \in Decoder /\ TextOnly(e, at(n), data)
  BY <1>4, <1>5, <1>10 DEF TextOnly
<1> QED
  BY <1>10, <1>11

(* Two bytes one by one, ... *)
LEMMA TwoBytes ==
    ASSUME NEW a \in Nat, NEW b \in Nat
    PROVE  <<a>> \o <<b>> = <<a, b>>
<1> DEFINE u == <<a>>
           v == <<b>>
           x == u \o v
           r == <<a, b>>
<1>1. u \in Seq(Nat) /\ Len(u) = 1 /\ u[1] = a /\ v \in Seq(Nat) /\ Len(v) = 1 /\ v[1] = b
  OBVIOUS
<1>2. r \in Seq(Nat) /\ Len(r) = 2 /\ r[1] = a /\ r[2] = b
  OBVIOUS
<1> HIDE DEF u, v, r
<1>3. x \in Seq(Nat) /\ Len(x) = 2 /\ x[1] = a /\ x[2] = b
  <2>1. /\ x \in Seq(Nat) /\ Len(x) = Len(u) + Len(v)
        /\ \A i \in 1..Len(u) + Len(v) : x[i] = IF i <= Len(u) THEN u[i] ELSE v[i - Len(u)]
    BY <1>1, ConcatProperties
  <2> HIDE DEF x
  <2>2. /\ 1 \in 1..Len(u) + Len(v) /\ 2 \in 1..Len(u) + Len(v)
        /\ 1 <= Len(u) /\ ~(2 <= Len(u)) /\ 2 - Len(u) = 1
    BY <1>1
  <2>3. x[1] = u[1] /\ x[2] = v[1]
    BY ONLY <2>1, <2>2
  <2> QED
    BY <1>1, <2>1, <2>3
<1> HIDE DEF x
<1>4. \A i \in 1..Len(x) : i = 1 \/ i = 2
  BY <1>3
<1>5. x = r
  BY <1>2, <1>3, <1>4, SeqEqual
<1> QED
  BY <1>5 DEF x, u, v, r

(* ... and three. *)
LEMMA ThreeBytes ==
    ASSUME NEW a \in Nat, NEW b \in Nat, NEW c \in Nat
    PROVE  (<<a>> \o <<b>>) \o <<c>> = <<a, b, c>>
<1> DEFINE x == <<a, b>>
           w == <<c>>
           t == x \o w
           r == <<a, b, c>>
<1>1. /\ x \in Seq(Nat) /\ Len(x) = 2 /\ x[1] = a /\ x[2] = b
      /\ w \in Seq(Nat) /\ Len(w) = 1 /\ w[1] = c
  OBVIOUS
<1>2. r \in Seq(Nat) /\ Len(r) = 3 /\ r[1] = a /\ r[2] = b /\ r[3] = c
  OBVIOUS
<1> HIDE DEF x, w, r
<1>3. t \in Seq(Nat) /\ Len(t) = 3 /\ t[1] = a /\ t[2] = b /\ t[3] = c
  <2>1. /\ t \in Seq(Nat) /\ Len(t) = Len(x) + Len(w)
        /\ \A i \in 1..Len(x) + Len(w) : t[i] = IF i <= Len(x) THEN x[i] ELSE w[i - Len(x)]
    BY <1>1, ConcatProperties
  <2> HIDE DEF t
  <2>2. /\ 1 \in 1..Len(x) + Len(w) /\ 2 \in 1..Len(x) + Len(w) /\ 3 \in 1..Len(x) + Len(w)
        /\ 1 <= Len(x) /\ 2 <= Len(x) /\ ~(3 <= Len(x)) /\ 3 - Len(x) = 1
    BY <1>1
  <2>3. t[1] = x[1] /\ t[2] = x[2] /\ t[3] = w[1]
    BY ONLY <2>1, <2>2
  <2> QED
    BY <1>1, <2>1, <2>3
<1> HIDE DEF t
<1>4. \A i \in 1..Len(t) : i = 1 \/ i = 2 \/ i = 3
  BY <1>3
<1>5. t = r
  BY <1>2, <1>3, <1>4, SeqEqual
<1> QED
  BY <1>5, TwoBytes DEF t, x, w, r

(* A command arrives as it was sent. *)
LEMMA CommandLeads ==
    ASSUME NEW e \in Decoder, e.mode = "text", NEW v \in Verbs, NEW o \in Nat
    PROVE  \E f \in Decoder : /\ Leads(e, <<CmdIAC, v, o>>, f)
                              /\ f.mode = "text" /\ f.cmds = Append(e.cmds, <<v, o>>)
                              /\ f.subs = e.subs /\ f.text = e.text
<1> DEFINE e1 == [e EXCEPT !.mode = "iac"]
           e2 == [e1 EXCEPT !.mode = "verb", !.verb = v]
           e3 == [e2 EXCEPT !.mode = "text", !.cmds = Append(e2.cmds, <<e2.verb, o>>)]
<1>0. CmdIAC \in Nat /\ v \in Nat /\ v # CmdIAC
  BY DEF Verbs, CmdIAC, CmdWill, CmdWont, CmdDo, CmdDont
<1>1. Decoded(e, CmdIAC) = e1
  BY DEF Decoded, OnText
<1>2. e1 \in Decoder /\ e1.mode = "iac" /\ e1.cmds = e.cmds /\ e1.subs = e.subs
      /\ e1.text = e.text
  BY DEF Decoder
<1> HIDE DEF e1
<1>3. Decoded(e1, v) = e2
  BY <1>0, <1>2 DEF Decoded, OnIAC
<1>4. e2 \in Decoder /\ e2.mode = "verb" /\ e2.verb = v /\ e2.cmds = e.cmds /\ e2.subs = e.subs
      /\ e2.text = e.text
  BY <1>0, <1>2 DEF Decoder
<1> HIDE DEF e2
<1>5. Decoded(e2, o) = e3
  BY <1>4 DEF Decoded
<1>6. e3.mode = "text" /\ e3.cmds = Append(e.cmds, <<v, o>>) /\ e3.subs = e.subs
      /\ e3.text = e.text
  BY <1>4 DEF Decoder
<1> HIDE DEF e3
<1>7. Leads(e, <<CmdIAC>>, e1) /\ Leads(e1, <<v>>, e2) /\ Leads(e2, <<o>>, e3) /\ e3 \in Decoder
  BY <1>0, <1>1, <1>2, <1>3, <1>4, <1>5, LeadsOne
<1>8. <<CmdIAC>> \in Seq(Nat) /\ <<v>> \in Seq(Nat) /\ <<o>> \in Seq(Nat)
      /\ <<CmdIAC>> \o <<v>> \in Seq(Nat)
  BY <1>0
<1>9. Leads(e, <<CmdIAC>> \o <<v>>, e2)
  BY <1>7, <1>8, LeadsOn
<1>10. Leads(e, (<<CmdIAC>> \o <<v>>) \o <<o>>, e3)
  BY <1>7, <1>8, <1>9, LeadsOn
<1>11. (<<CmdIAC>> \o <<v>>) \o <<o>> = <<CmdIAC, v, o>>
  BY <1>0, ThreeBytes
<1>12. Leads(e, <<CmdIAC, v, o>>, e3)
  BY <1>10, <1>11
<1> QED
  BY <1>6, <1>7, <1>12

(* A byte recorded while there is room is appended. *)
LEMMA RecordedOne ==
    ASSUME NEW d \in Decoder, NEW b \in Nat, Len(d.body) < Observed
    PROVE  Recorded(d, <<b>>) = Append(d.body, b) /\ Append(d.body, b) \in Seq(Nat)
<1> DEFINE s == d.body \o <<b>>
<1>1. d.body \in Seq(Nat) /\ Len(d.body) \in Nat /\ Observed \in Nat
  BY CallAssumption DEF Decoder
<1>2. /\ s = Append(d.body, b) /\ Append(d.body, b) \in Seq(Nat)
      /\ Len(Append(d.body, b)) = Len(d.body) + 1
  BY <1>1, AppendIsConcat, AppendProperties
<1> HIDE DEF s
<1>3. s \in Seq(Nat) /\ Len(s) \in Nat /\ Len(s) <= Observed
  BY <1>1, <1>2
<1>4. (IF Len(s) < Observed THEN Len(s) ELSE Observed) = Len(s)
  BY <1>1, <1>3
<1>5. SubSeq(s, 1, Len(s)) = s
  BY <1>3, SubSeqFull
<1> QED
  BY <1>2, <1>4, <1>5 DEF Recorded, s

(* One payload byte escaped is recorded as it is. *)
LEMMA PayloadByteLeads ==
    ASSUME NEW g \in Decoder, g.mode = "body", NEW b \in Nat, Len(g.body) < Observed
    PROVE  /\ Leads(g, Escaped(b), [g EXCEPT !.body = Append(g.body, b)])
           /\ [g EXCEPT !.body = Append(g.body, b)] \in Decoder
           /\ Escaped(b) \in Seq(Nat)
<1> DEFINE h == [g EXCEPT !.body = Append(g.body, b)]
<1>0. Recorded(g, <<b>>) = Append(g.body, b) /\ Append(g.body, b) \in Seq(Nat)
  BY RecordedOne
<1>1. h \in Decoder
  BY <1>0 DEF Decoder
<1>2. CASE b # CmdIAC
  <2>1. Decoded(g, b) = h /\ Escaped(b) = <<b>>
    BY <1>0, <1>2 DEF Decoded, OnBody, Escaped
  <2> QED
    BY <1>1, <2>1, LeadsOne
<1>3. CASE b = CmdIAC
  <2> DEFINE g1 == [g EXCEPT !.mode = "bodyiac"]
  <2>1. Decoded(g, b) = g1
    BY <1>3 DEF Decoded, OnBody
  <2>2. g1 \in Decoder /\ g1.mode = "bodyiac" /\ g1.body = g.body
    BY DEF Decoder
  <2>3. Recorded(g1, <<b>>) = Append(g.body, b)
    BY <2>2, RecordedOne
  <2>4. b # CmdSE
    BY <1>3 DEF CmdIAC, CmdSE
  <2>5. Decoded(g1, b) = [g1 EXCEPT !.mode = "body", !.body = Append(g.body, b)]
    BY <1>3, <2>2, <2>3, <2>4 DEF Decoded, OnBodyIAC
  <2>6. [g1 EXCEPT !.mode = "body", !.body = Append(g.body, b)] = h
    BY <1>0 DEF Decoder
  <2> HIDE DEF g1, h
  <2>7. Leads(g, <<b>>, g1) /\ Leads(g1, <<b>>, h)
    BY <2>1, <2>2, <2>5, <2>6, LeadsOne
  <2>8. Escaped(b) = <<b>> \o <<b>> /\ <<b>> \in Seq(Nat) /\ <<b>> \o <<b>> \in Seq(Nat)
    BY <1>3 DEF Escaped
  <2>9. Leads(g, <<b>> \o <<b>>, h)
    BY <2>7, <2>8, LeadsOn
  <2> QED
    BY <1>1, <2>8, <2>9 DEF h
<1> QED
  BY <1>2, <1>3

(* The first n bytes of a payload, and how many of them are IAC. *)
First(data, n) == SubSeq(data, 1, n)
IACs(data, n)  == Cardinality({k \in 1..n : data[k] = CmdIAC})

(* The first bytes of a payload are a payload. *)
LEMMA FirstProperties ==
    ASSUME NEW data \in Seq(Nat), NEW n \in 0..Len(data)
    PROVE  /\ First(data, n) \in Seq(Nat) /\ Len(First(data, n)) = n
           /\ \A k \in 1..n : First(data, n)[k] = data[k]
<1>1. n \in Int /\ \A i \in 1..n : data[i] \in Nat
  OBVIOUS
<1> QED
  BY <1>1, SubSeqProperties DEF First

(* EscapeIAC adds the escape of the last byte to that of the others. *)
LEMMA EscapeLast ==
    ASSUME NEW data \in Seq(Nat), NEW n \in Nat, n + 1 <= Len(data)
    PROVE  /\ EscapeIAC(First(data, n)) \in Seq(Nat)
           /\ EscapeIAC(First(data, n + 1)) = EscapeIAC(First(data, n)) \o Escaped(data[n + 1])
           /\ First(data, n + 1) = Append(First(data, n), data[n + 1])
<1> DEFINE ss == [k \in 1..(n + 1) |-> Escaped(data[k])]
<1>0. n \in 0..Len(data) /\ n + 1 \in 0..Len(data) /\ n + 1 \in 1..Len(data) /\ 1 \in 1..Len(data)
  OBVIOUS
<1>1. \A k \in 1..(n + 1) : data[k] \in Nat
  BY <1>0
<1>2. ss \in [1..(n + 1) -> Seq(Nat)]
  <2>1. \A b \in Nat : Escaped(b) \in Seq(Nat)
    BY DEF Escaped, CmdIAC
  <2> QED
    BY <1>1, <2>1
<1>3. EscapeIAC(First(data, n + 1)) = FlattenSeq(ss)
  <2>1. [k \in 1..Len(First(data, n + 1)) |-> Escaped(First(data, n + 1)[k])] = ss
    BY <1>0, FirstProperties
  <2> QED
    BY <2>1 DEF EscapeIAC
<1>4. EscapeIAC(First(data, n)) = FlattenSeq([k \in 1..n |-> ss[k]])
  <2>0. /\ Len(First(data, n)) = n
        /\ \A k \in 1..n : First(data, n)[k] = data[k] /\ ss[k] = Escaped(data[k])
    BY <1>0, FirstProperties
  <2> HIDE DEF ss
  <2>1. [k \in 1..Len(First(data, n)) |-> Escaped(First(data, n)[k])] = [k \in 1..n |-> ss[k]]
    BY <2>0
  <2> QED
    BY <2>1 DEF EscapeIAC
<1>5. ss[n + 1] = Escaped(data[n + 1])
  OBVIOUS
<1> HIDE DEF ss
<1>6. /\ FlattenSeq([k \in 1..n |-> ss[k]]) \in Seq(Nat)
      /\ FlattenSeq(ss) = FlattenSeq([k \in 1..n |-> ss[k]]) \o ss[n + 1]
  BY <1>2, FlattenLast
<1>7. First(data, n + 1) = First(data, n) \o <<data[n + 1]>>
  <2>1. n + 1 \in 1..Len(data) /\ (n + 1) - 1 = n
    BY <1>0
  <2> QED
    BY <1>0, <2>1, SubSeqRecursiveSecond DEF First
<1>8. First(data, n) \o <<data[n + 1]>> = Append(First(data, n), data[n + 1])
  BY <1>0, <1>1, FirstProperties, AppendIsConcat
<1> QED
  BY <1>3, <1>4, <1>5, <1>6, <1>7, <1>8

(* One byte more is one IAC more or none. *)
LEMMA IACsNext ==
    ASSUME NEW data, NEW n \in Nat
    PROVE  /\ IACs(data, n) \in Nat /\ IACs(data, 0) = 0
           /\ IACs(data, n + 1) = IF data[n + 1] = CmdIAC THEN IACs(data, n) + 1 ELSE IACs(data, n)
<1> DEFINE A == {k \in 1..n : data[k] = CmdIAC}
           B == {k \in 1..(n + 1) : data[k] = CmdIAC}
<1>1. IsFiniteSet(A)
  <2>1. IsFiniteSet(1..n) /\ A \in SUBSET (1..n)
    BY FS_Interval
  <2> QED
    BY <2>1, FS_Subset
<1>2. Cardinality(A) \in Nat
  BY <1>1, FS_CardinalityType
<1>3. {k \in 1..0 : data[k] = CmdIAC} = {}
  OBVIOUS
<1>4. CASE data[n + 1] = CmdIAC
  <2>1. B = A \cup {n + 1} /\ n + 1 \notin A
    BY <1>4
  <2> HIDE DEF A, B
  <2>2. Cardinality(B) = Cardinality(A) + 1
    BY <1>1, <2>1, FS_AddElement
  <2> QED
    BY <1>2, <1>3, <1>4, <2>2, FS_EmptySet DEF IACs, A, B
<1>5. CASE data[n + 1] # CmdIAC
  <2>1. B = A
    BY <1>5
  <2> QED
    BY <1>2, <1>3, <1>5, <2>1, FS_EmptySet DEF IACs
<1> QED
  BY <1>4, <1>5

(* EscapeIAC of nothing is nothing. *)
LEMMA EscapeNone ==
    ASSUME NEW data
    PROVE  First(data, 0) = << >> /\ EscapeIAC(First(data, 0)) = << >>
<1>1. First(data, 0) = << >>
  BY SubSeqEmpty DEF First
<1>2. [k \in 1..Len(<< >>) |-> Escaped(<< >>[k])] = << >>
  BY EmptySeq
<1> QED
  BY <1>1, <1>2, FlattenEmpty DEF EscapeIAC

(* What SendSubnegotiation counts is what EscapeIAC writes. *)
LEMMA EscapeLen ==
    ASSUME NEW data \in Seq(Nat)
    PROVE  \A n \in 0..Len(data) : /\ EscapeIAC(First(data, n)) \in Seq(Nat)
                                   /\ Len(EscapeIAC(First(data, n))) = n + IACs(data, n)
<1> DEFINE E(n) == EscapeIAC(First(data, n))
           T == {n \in Nat : n <= Len(data) => E(n) \in Seq(Nat) /\ Len(E(n)) = n + IACs(data, n)}
<1>1. 0 \in T
  <2>1. E(0) = << >> /\ IACs(data, 0) = 0
    BY EscapeNone, IACsNext
  <2>2. << >> \in Seq(Nat) /\ Len(<< >>) = 0
    BY EmptySeq
  <2> HIDE DEF E
  <2>3. E(0) \in Seq(Nat) /\ Len(E(0)) = 0 + IACs(data, 0) /\ 0 \in Nat
    <3>1. E(0) \in Seq(Nat) /\ Len(E(0)) = 0
      BY <2>1, <2>2, Zenon
    <3>2. 0 + IACs(data, 0) = 0 /\ 0 \in Nat
      BY <2>1
    <3> QED
      BY <3>1, <3>2, Zenon
  <2> QED
    BY <2>3, Zenon
<1>2. ASSUME NEW n \in Nat, n \in T PROVE n + 1 \in T
  <2> SUFFICES ASSUME n + 1 <= Len(data)
               PROVE  E(n + 1) \in Seq(Nat) /\ Len(E(n + 1)) = (n + 1) + IACs(data, n + 1)
    OBVIOUS
  <2> DEFINE b == data[n + 1]
             r == E(n)
             q == Escaped(b)
             m == IACs(data, n)
  <2>1. r \in Seq(Nat) /\ Len(r) = n + m
    BY <1>2
  <2>2. b \in Nat
    BY n + 1 \in 1..Len(data)
  <2>3. q \in Seq(Nat) /\ Len(q) = IF b = CmdIAC THEN 2 ELSE 1
    BY <2>2 DEF Escaped, CmdIAC
  <2>4. E(n + 1) = r \o q
    BY EscapeLast
  <2>5. m \in Nat /\ IACs(data, n + 1) = IF b = CmdIAC THEN m + 1 ELSE m
    BY IACsNext
  <2> HIDE DEF b, r, q, m, E
  <2>6. r \o q \in Seq(Nat) /\ Len(r \o q) = Len(r) + Len(q)
    BY <2>1, <2>3, ConcatProperties
  <2>7. Len(r) + Len(q) = (n + 1) + IACs(data, n + 1)
    BY <2>1, <2>3, <2>5
  <2> QED
    BY <2>4, <2>6, <2>7
<1>3. \A n \in Nat : n \in T
  <2> HIDE DEF T
  <2> QED
    BY <1>1, <1>2, NatSetInduction
<1> QED
  BY <1>3

(* An escaped payload is recorded as it was. *)
LEMMA PayloadLeads ==
    ASSUME NEW e \in Decoder, e.mode = "body", e.body = << >>,
           NEW data \in Seq(Nat), Len(data) <= Observed
    PROVE  \A n \in 0..Len(data) :
              /\ Leads(e, EscapeIAC(First(data, n)), [e EXCEPT !.body = First(data, n)])
              /\ [e EXCEPT !.body = First(data, n)] \in Decoder
<1> DEFINE E(n) == EscapeIAC(First(data, n))
           at(n) == [e EXCEPT !.body = First(data, n)]
           T == {n \in Nat : n <= Len(data) => Leads(e, E(n), at(n)) /\ at(n) \in Decoder}
<1>0. Len(data) \in Nat /\ Observed \in Nat
  BY CallAssumption
<1>1. 0 \in T
  <2>1. E(0) = << >> /\ First(data, 0) = << >>
    BY EscapeNone
  <2>2. at(0) = e
    BY <2>1 DEF Decoder
  <2> HIDE DEF E, at
  <2> QED
    BY <2>1, <2>2, LeadsNowhere
<1>2. ASSUME NEW n \in Nat, n \in T PROVE n + 1 \in T
  <2> SUFFICES ASSUME n + 1 <= Len(data)
               PROVE  Leads(e, E(n + 1), at(n + 1)) /\ at(n + 1) \in Decoder
    OBVIOUS
  <2> DEFINE b == data[n + 1]
             g == at(n)
  <2>0. n \in 0..Len(data) /\ n + 1 \in 1..Len(data)
    BY <1>0
  <2>1. Leads(e, E(n), g) /\ g \in Decoder
    BY <1>0, <1>2
  <2>2. First(data, n) \in Seq(Nat) /\ Len(First(data, n)) = n /\ b \in Nat
    BY <2>0, FirstProperties
  <2>3. g.mode = "body" /\ g.body = First(data, n) /\ Len(g.body) < Observed
    BY <1>0, <2>2 DEF Decoder
  <2>4. First(data, n + 1) = Append(First(data, n), b) /\ E(n + 1) = E(n) \o Escaped(b)
        /\ E(n) \in Seq(Nat)
    BY EscapeLast
  <2>5. [g EXCEPT !.body = Append(g.body, b)] = at(n + 1)
    BY <2>3, <2>4 DEF Decoder
  <2> HIDE DEF b, g, E, at
  <2>6. Leads(g, Escaped(b), at(n + 1)) /\ at(n + 1) \in Decoder /\ Escaped(b) \in Seq(Nat)
    BY <2>1, <2>2, <2>3, <2>5, PayloadByteLeads
  <2>7. Leads(e, E(n) \o Escaped(b), at(n + 1))
    BY <2>1, <2>4, <2>6, LeadsOn
  <2> QED
    BY <2>4, <2>6, <2>7
<1>3. \A n \in Nat : n \in T
  <2> HIDE DEF T
  <2> QED
    BY <1>1, <1>2, NatSetInduction
<1> QED
  BY <1>0, <1>3

(* A subnegotiation arrives as it was sent. *)
LEMMA SubnegotiationLeads ==
    ASSUME NEW e \in Decoder, e.mode = "text", NEW o \in Nat,
           NEW data \in Seq(Nat), Len(data) <= Observed
    PROVE  \E f \in Decoder :
              /\ Leads(e, <<CmdIAC, CmdSB, o>> \o EscapeIAC(data) \o <<CmdIAC, CmdSE>>, f)
              /\ f.mode = "text" /\ f.subs = Append(e.subs, <<o, data>>)
              /\ f.cmds = e.cmds /\ f.text = e.text
<1> DEFINE Same(f) == f.cmds = e.cmds /\ f.text = e.text
           e1 == [e EXCEPT !.mode = "iac"]
           e2 == [e1 EXCEPT !.mode = "sb", !.body = << >>]
           e3 == [e2 EXCEPT !.mode = "body", !.opt = o]
           e4 == [e3 EXCEPT !.body = data]
           e5 == [e4 EXCEPT !.mode = "bodyiac"]
           e6 == [e5 EXCEPT !.mode = "text", !.subs = Append(e5.subs, <<e5.opt, e5.body>>)]
           mid == EscapeIAC(data)
<1>0. /\ CmdIAC \in Nat /\ CmdSB \in Nat /\ CmdSE \in Nat /\ CmdSE # CmdIAC
      /\ CmdSB # CmdIAC /\ CmdSB \notin Verbs
  BY DEF Verbs, CmdIAC, CmdWill, CmdWont, CmdDo, CmdDont, CmdSB, CmdSE
<1>1. Decoded(e, CmdIAC) = e1
  BY DEF Decoded, OnText
<1>2. e1 \in Decoder /\ e1.mode = "iac" /\ Same(e1) /\ e1.subs = e.subs
  BY DEF Decoder
<1> HIDE DEF e1
<1>3. Decoded(e1, CmdSB) = e2
  BY <1>0, <1>2 DEF Decoded, OnIAC
<1>4. e2 \in Decoder /\ e2.mode = "sb" /\ e2.body = << >> /\ Same(e2) /\ e2.subs = e.subs
  BY <1>2, EmptySeq DEF Decoder
<1> HIDE DEF e2
<1>5. Decoded(e2, o) = e3
  BY <1>4 DEF Decoded
<1>6. /\ e3 \in Decoder /\ e3.mode = "body" /\ e3.body = << >> /\ e3.opt = o
      /\ Same(e3) /\ e3.subs = e.subs
  BY <1>4 DEF Decoder
<1> HIDE DEF e3
<1>7. Leads(e3, mid, e4) /\ mid \in Seq(Nat)
  <2>1. Len(data) \in 0..Len(data) /\ First(data, Len(data)) = data
    BY SubSeqFull DEF First
  <2> QED
    BY <1>6, <2>1, PayloadLeads, EscapeLen
<1>8. /\ e4 \in Decoder /\ e4.mode = "body" /\ e4.body = data /\ e4.opt = o
      /\ Same(e4) /\ e4.subs = e.subs
  BY <1>6 DEF Decoder
<1> HIDE DEF e4, mid
<1>9. Decoded(e4, CmdIAC) = e5
  BY <1>8 DEF Decoded, OnBody
<1>10. /\ e5 \in Decoder /\ e5.mode = "bodyiac" /\ e5.body = data /\ e5.opt = o
       /\ Same(e5) /\ e5.subs = e.subs
  BY <1>8 DEF Decoder
<1> HIDE DEF e5
<1>11. Decoded(e5, CmdSE) = e6
  BY <1>10 DEF Decoded, OnBodyIAC
<1>12. e6.mode = "text" /\ e6.subs = Append(e.subs, <<o, data>>) /\ Same(e6)
  BY <1>10 DEF Decoder
<1> HIDE DEF e6
<1>13. Leads(e, <<CmdIAC>>, e1) /\ Leads(e1, <<CmdSB>>, e2) /\ Leads(e2, <<o>>, e3)
  BY <1>0, <1>1, <1>2, <1>3, <1>4, <1>5, LeadsOne
<1>14. Leads(e4, <<CmdIAC>>, e5) /\ Leads(e5, <<CmdSE>>, e6) /\ e6 \in Decoder
  BY <1>0, <1>8, <1>9, <1>10, <1>11, LeadsOne
<1>15. /\ <<CmdIAC>> \in Seq(Nat) /\ <<CmdSB>> \in Seq(Nat) /\ <<o>> \in Seq(Nat)
       /\ <<CmdSE>> \in Seq(Nat) /\ <<CmdIAC>> \o <<CmdSB>> \in Seq(Nat)
  BY <1>0
<1>16. Leads(e, <<CmdIAC, CmdSB, o>>, e3)
  <2>1. Leads(e, <<CmdIAC>> \o <<CmdSB>>, e2)
    BY <1>13, <1>15, LeadsOn
  <2>2. Leads(e, (<<CmdIAC>> \o <<CmdSB>>) \o <<o>>, e3)
    BY <1>13, <1>15, <2>1, LeadsOn
  <2>3. (<<CmdIAC>> \o <<CmdSB>>) \o <<o>> = <<CmdIAC, CmdSB, o>>
    BY <1>0, ThreeBytes
  <2> QED
    BY <2>2, <2>3
<1>17. Leads(e4, <<CmdIAC, CmdSE>>, e6)
  <2>1. Leads(e4, <<CmdIAC>> \o <<CmdSE>>, e6)
    BY <1>14, <1>15, LeadsOn
  <2>2. <<CmdIAC>> \o <<CmdSE>> = <<CmdIAC, CmdSE>>
    BY <1>0, TwoBytes
  <2> QED
    BY <2>1, <2>2
<1> DEFINE a == <<CmdIAC, CmdSB, o>>
           c == <<CmdIAC, CmdSE>>
<1>18. a \in Seq(Nat) /\ c \in Seq(Nat)
  BY <1>0
<1> HIDE DEF a, c
<1>19. a \o mid \in Seq(Nat) /\ Leads(e, a \o mid, e4)
  BY <1>7, <1>16, <1>18, LeadsOn, ConcatProperties DEF a
<1>20. Leads(e, (a \o mid) \o c, e6)
  BY <1>17, <1>18, <1>19, LeadsOn DEF c
<1> QED
  BY <1>12, <1>14, <1>20 DEF a, c, mid
----------------------------------------------------------------------------
(* What the peer will have read once the buffer is flushed: the wire, and  *)
(* what a failed write has left of the buffer.                             *)
Rest == wire \o SubSeq(buf, sent + 1, Len(buf))

BufferOK == /\ buf \in Seq(Nat) /\ cap \in Nat /\ cap >= WriteCap
            /\ wire \in Seq(Nat) /\ sent \in 0..Len(buf) /\ faults \in Nat

(* No write has failed, nothing was sent twice. *)
Clean == ~again /\ sent = 0

(* A step that puts bytes at the end of the stream, or sends a part of it  *)
(* again.                                                                  *)
Carries(bytes) == /\ BufferOK'
                  /\ ~again' => ~again /\ Rest' = Rest \o bytes
                  /\ faults' = 0 => faults = 0 /\ (Clean => Clean')

(* The larger of two numbers is one of them. *)
LEMMA MaxOfTwo ==
    ASSUME NEW a \in Nat, NEW b \in Nat
    PROVE  Max({a, b}) \in {a, b} /\ Max({a, b}) >= a /\ Max({a, b}) >= b
<1>1. \E x \in {a, b} : \A y \in {a, b} : x >= y
  <2>1. CASE a >= b
    BY <2>1
  <2>2. CASE b >= a
    BY <2>2
  <2> QED
    BY <2>1, <2>2
<1> DEFINE m == CHOOSE x \in {a, b} : \A y \in {a, b} : x >= y
<1>2. m \in {a, b} /\ \A y \in {a, b} : m >= y
  BY <1>1
<1>3. Max({a, b}) = m
  BY DEF Max
<1> HIDE DEF m
<1> QED
  BY <1>2, <1>3

(* The whole buffer, and the part of it after the first bytes. *)
LEMMA PartsOfBuffer ==
    ASSUME NEW b \in Seq(Nat), NEW n \in 0..Len(b)
    PROVE  /\ SubSeq(b, 1, n) \in Seq(Nat) /\ SubSeq(b, n + 1, Len(b)) \in Seq(Nat)
           /\ SubSeq(b, 1, n) \o SubSeq(b, n + 1, Len(b)) = b
           /\ SubSeq(b, 0 + 1, Len(b)) = b
<1>1. Len(b) \in Nat /\ n \in Nat /\ \A i \in 1..Len(b) : b[i] \in Nat
  OBVIOUS
<1>2. SubSeq(b, 1, n) \in Seq(Nat)
  BY <1>1, SubSeqProperties
<1>3. SubSeq(b, n + 1, Len(b)) \in Seq(Nat)
  <2>1. n + 1 \in Int /\ Len(b) \in Int /\ \A i \in (n + 1)..Len(b) : b[i] \in Nat
    BY <1>1
  <2> QED
    BY <2>1, SubSeqProperties
<1>4. SubSeq(b, 1, Len(b)) = b /\ 0 + 1 = 1
  BY SubSeqFull
<1>5. SubSeq(b, 1, n) \o SubSeq(b, n + 1, Len(b)) = SubSeq(b, 1, Len(b))
  <2>1. 1 \in 1..Len(b) + 1 /\ n \in 1 - 1..Len(b) /\ Len(b) \in n..Len(b)
    BY <1>1
  <2> QED
    BY <2>1, ConcatAdjacentSubSeq
<1> QED
  BY <1>2, <1>3, <1>4, <1>5

(* The part of the buffer after the first n bytes grows with it. *)
LEMMA PartAppended ==
    ASSUME NEW b \in Seq(Nat), NEW c \in Seq(Nat), NEW n \in 0..Len(b)
    PROVE  SubSeq(b \o c, n + 1, Len(b \o c)) = SubSeq(b, n + 1, Len(b)) \o c
<1> DEFINE bc == b \o c
           m == Len(b)
           k == Len(c)
           u == SubSeq(bc, n + 1, Len(bc))
           v == SubSeq(b, n + 1, m)
           w == v \o c
<1>1. /\ m \in Nat /\ k \in Nat /\ n \in Nat /\ n <= m /\ bc \in Seq(Nat) /\ Len(bc) = m + k
      /\ \A i \in 1..(m + k) : bc[i] = IF i <= m THEN b[i] ELSE c[i - m]
      /\ \A i \in 1..m : b[i] \in Nat
  BY ConcatProperties
<1>2. v \in Seq(Nat) /\ Len(v) = m - n /\ \A i \in 1..(m - n) : v[i] = b[n + i]
  <2>1. n + 1 \in Int /\ m \in Int /\ \A i \in (n + 1)..m : b[i] \in Nat
    BY <1>1
  <2>2. /\ v \in Seq(Nat) /\ Len(v) = IF n + 1 <= m THEN m - (n + 1) + 1 ELSE 0
        /\ \A i \in 1..(m - (n + 1) + 1) : v[i] = b[(n + 1) + i - 1]
    BY <2>1, SubSeqProperties
  <2> HIDE DEF v, m
  <2> QED
    BY <1>1, <2>2
<1> HIDE DEF bc, m, v
<1>3. u \in Seq(Nat) /\ Len(u) = m + k - n /\ \A i \in 1..(m + k - n) : u[i] = bc[n + i]
  <2>1. n + 1 \in Int /\ m + k \in Int /\ \A i \in (n + 1)..(m + k) : bc[i] \in Nat
    BY <1>1
  <2>2. /\ u \in Seq(Nat) /\ Len(u) = IF n + 1 <= m + k THEN (m + k) - (n + 1) + 1 ELSE 0
        /\ \A i \in 1..((m + k) - (n + 1) + 1) : u[i] = bc[(n + 1) + i - 1]
    BY <1>1, <2>1, SubSeqProperties
  <2> HIDE DEF u, k
  <2>3. (m + k) - (n + 1) + 1 = m + k - n /\ (~(n + 1 <= m + k) => m + k - n = 0)
    BY <1>1
  <2>4. ASSUME NEW i \in 1..(m + k - n) PROVE u[i] = bc[n + i]
    <3>1. i \in 1..((m + k) - (n + 1) + 1) /\ (n + 1) + i - 1 = n + i
      BY <1>1, <2>3
    <3> QED
      BY <2>2, <3>1
  <2> QED
    BY <2>2, <2>3, <2>4
<1>4. /\ w \in Seq(Nat) /\ Len(w) = (m - n) + k
      /\ \A i \in 1..((m - n) + k) : w[i] = IF i <= m - n THEN v[i] ELSE c[i - (m - n)]
  <2>1. /\ w \in Seq(Nat) /\ Len(w) = Len(v) + Len(c)
        /\ \A i \in 1..Len(v) + Len(c) : w[i] = IF i <= Len(v) THEN v[i] ELSE c[i - Len(v)]
    BY <1>2, ConcatProperties
  <2> HIDE DEF w
  <2> QED
    BY <1>1, <1>2, <2>1
<1> HIDE DEF u, w, k
<1>5. ASSUME NEW i \in 1..Len(u) PROVE u[i] = w[i]
  <2>1. i \in 1..(m + k - n) /\ i \in 1..((m - n) + k) /\ n + i \in 1..(m + k)
    BY <1>1, <1>3
  <2>2. CASE i <= m - n
    <3>1. i \in 1..(m - n) /\ n + i <= m
      BY <1>1, <2>1, <2>2
    <3>2. u[i] = b[n + i] /\ w[i] = b[n + i]
      BY <1>1, <1>2, <1>3, <1>4, <2>1, <2>2, <3>1
    <3> QED
      BY <3>2
  <2>3. CASE ~(i <= m - n)
    <3>1. ~(n + i <= m) /\ (n + i) - m = i - (m - n)
      BY <1>1, <2>1, <2>3
    <3>2. u[i] = c[(n + i) - m] /\ w[i] = c[i - (m - n)]
      BY <1>1, <1>3, <1>4, <2>1, <2>3, <3>1
    <3> QED
      BY <3>1, <3>2
  <2> QED
    BY <2>2, <2>3
<1>6. Len(u) = Len(w)
  BY <1>1, <1>3, <1>4
<1>7. u = w
  BY <1>3, <1>4, <1>5, <1>6, SeqEqual
<1> QED
  BY <1>7 DEF u, w, v, m, bc

(* append to a buffer, with enough room for it in the end. *)
LEMMA AppendTyped ==
    ASSUME BufferOK, NEW b \in Seq(Nat), NEW bytes \in Seq(Nat), append(b, bytes)
    PROVE  /\ buf' = b \o bytes /\ buf' \in Seq(Nat) /\ Len(buf') = Len(b) + Len(bytes)
           /\ cap' \in Nat /\ cap' >= cap /\ cap' >= WriteCap
           /\ cap' # cap => Len(b) + Len(bytes) > cap
<1> DEFINE len == Len(b) + Len(bytes)
           more == cap + cap \div 4
<1>1. /\ buf' = b \o bytes /\ buf' \in Seq(Nat) /\ Len(buf') = len /\ len \in Nat
      /\ cap \in Nat /\ cap >= WriteCap /\ WriteCap \in Nat
  BY ConcatProperties, WriteAssumption DEF append, BufferOK
<1>2. more \in Nat /\ more >= cap
  BY <1>1
<1>3. cap' = IF len <= cap THEN cap ELSE Max({len, more})
  BY DEF append
<1> HIDE DEF len, more
<1>4. Max({len, more}) \in {len, more} /\ Max({len, more}) >= more
  BY <1>1, <1>2, MaxOfTwo
<1>5. Max({len, more}) \in Nat
  BY <1>1, <1>2, <1>4
<1> QED
  BY <1>1, <1>2, <1>3, <1>4, <1>5 DEF len

(* A flag that is a disjunction is down when both parts are. *)
LEMMA FlushedOnce ==
    ASSUME Flushed
    PROVE  ~again' <=> ~again /\ ~(sent > 0)
  BY Zenon DEF Flushed

(* The bytes after the first none. *)
LEMMA RestCaughtUp ==
    ASSUME BufferOK, CaughtUp
    PROVE  /\ Rest = SubSeq(buf, sent + 1, Len(buf)) /\ Rest \in Seq(Nat)
           /\ sent = 0 => Rest = buf
<1>1. buf \in Seq(Nat) /\ sent \in 0..Len(buf) /\ wire = << >>
  BY DEF BufferOK, CaughtUp
<1> DEFINE r == SubSeq(buf, sent + 1, Len(buf))
<1>2. r \in Seq(Nat) /\ SubSeq(buf, 0 + 1, Len(buf)) = buf
  BY <1>1, PartsOfBuffer
<1>3. << >> \o r = r
  BY <1>2, ConcatEmptySeq
<1>4. sent = 0 => r = buf
  BY <1>2
<1> HIDE DEF r
<1>5. Rest = << >> \o r
  BY <1>1 DEF Rest, r
<1> QED
  BY <1>2, <1>3, <1>4, <1>5 DEF r

(* Three parts of a stream can be joined in either order. *)
LEMMA ConcatThree ==
    ASSUME NEW r \in Seq(Nat), NEW s \in Seq(Nat), NEW t \in Seq(Nat)
    PROVE  r \o (s \o t) = (r \o s) \o t
<1> DEFINE N == Nat
<1>1. r \in Seq(N) /\ s \in Seq(N) /\ t \in Seq(N)
  OBVIOUS
<1> HIDE DEF N
<1>2. (r \o s) \o t = r \o (s \o t)
  BY ONLY <1>1, ConcatAssociative
<1> QED
  BY <1>2

(* Appending puts the bytes at the end of the stream, ... *)
LEMMA AppendCarries ==
    ASSUME BufferOK, NEW bytes \in Seq(Nat), append(buf, bytes),
           UNCHANGED <<wire, sent, again, faults>>
    PROVE  Carries(bytes)
<1>1. /\ buf' = buf \o bytes /\ buf' \in Seq(Nat) /\ Len(buf') = Len(buf) + Len(bytes)
      /\ cap' \in Nat /\ cap' >= WriteCap
  BY AppendTyped DEF BufferOK
<1>2. /\ buf \in Seq(Nat) /\ wire \in Seq(Nat) /\ sent \in 0..Len(buf) /\ faults \in Nat
      /\ Len(buf) \in Nat /\ Len(bytes) \in Nat /\ sent \in Nat
  BY DEF BufferOK
<1>3. BufferOK'
  <2>1. sent \in 0..Len(buf')
    BY <1>1, <1>2
  <2> QED
    BY <1>1, <1>2, <2>1 DEF BufferOK
<1>4. Rest' = Rest \o bytes
  <2> DEFINE v == SubSeq(buf, sent + 1, Len(buf))
  <2>1. SubSeq(buf', sent + 1, Len(buf')) = v \o bytes
    BY <1>1, <1>2, PartAppended
  <2>2. v \in Seq(Nat)
    BY <1>2, PartsOfBuffer
  <2>3. Rest' = wire \o SubSeq(buf', sent + 1, Len(buf'))
    BY DEF Rest
  <2>4. Rest = wire \o v
    BY DEF Rest
  <2> HIDE DEF v
  <2>5. wire \o (v \o bytes) = (wire \o v) \o bytes
    BY <1>2, <2>2, ConcatThree
  <2> QED
    BY <2>1, <2>3, <2>4, <2>5
<1>5. (again' <=> again) /\ sent' = sent /\ faults' = faults
  BY Zenon
<1> QED
  BY <1>3, <1>4, <1>5, Zenon DEF Carries, Clean

(* ... so does flushing and appending, ... *)
LEMMA FlushedCarries ==
    ASSUME BufferOK, CaughtUp, Flushed, UNCHANGED faults, NEW bytes \in Seq(Nat),
           buf' = bytes, cap' \in Nat, cap' >= WriteCap
    PROVE  Carries(bytes)
<1>1. /\ buf \in Seq(Nat) /\ sent \in 0..Len(buf) /\ faults \in Nat /\ sent \in Nat
      /\ wire = << >> /\ wire' = wire \o buf /\ sent' = 0
  BY DEF BufferOK, CaughtUp, Flushed
<1>2. wire' = buf
  BY <1>1, ConcatEmptySeq
<1>3. BufferOK'
  <2>1. 0 \in 0..Len(buf')
    OBVIOUS
  <2> QED
    BY <1>1, <1>2, <2>1 DEF BufferOK
<1>4. Rest' = buf \o bytes
  <2>1. SubSeq(bytes, 0 + 1, Len(bytes)) = bytes
    <3>1. 0 \in 0..Len(bytes)
      OBVIOUS
    <3> QED
      BY <3>1, PartsOfBuffer
  <2> QED
    BY <1>1, <1>2, <2>1 DEF Rest
<1>5. sent = 0 => Rest = buf
  BY RestCaughtUp
<1>6. ~again' <=> ~again /\ ~(sent > 0)
  BY FlushedOnce
<1>7. ~(sent > 0) <=> sent = 0
  BY <1>1
<1>8. sent = 0 => Rest' = Rest \o bytes
  BY <1>4, <1>5
<1>9. sent' = 0 /\ faults' = faults
  BY <1>1
<1> QED
  BY <1>3, <1>6, <1>7, <1>8, <1>9, Zenon DEF Carries, Clean

(* ... and what every call does. *)
LEMMA EmitCarries ==
    ASSUME BufferOK, CaughtUp, NEW full, NEW bytes \in Seq(Nat), Emit(full, bytes)
    PROVE  Carries(bytes)
<1>1. CASE ~full
  <2>1. append(buf, bytes) /\ UNCHANGED <<wire, sent, again, faults>>
    BY <1>1 DEF Emit
  <2> QED
    BY <2>1, AppendCarries
<1>2. CASE full
  <2>1. Flushed /\ append(<< >>, bytes) /\ UNCHANGED faults
    BY <1>2 DEF Emit
  <2>2. << >> \in Seq(Nat)
    BY EmptySeq
  <2>3. buf' = << >> \o bytes /\ cap' \in Nat /\ cap' >= WriteCap
    BY <2>1, <2>2, AppendTyped
  <2>4. << >> \o bytes = bytes
    BY ConcatEmptySeq
  <2>5. buf' = bytes
    BY <2>3, <2>4
  <2> QED
    BY <2>1, <2>3, <2>5, FlushedCarries
<1> QED
  BY <1>1, <1>2

(* A write that fails leaves the stream as it is, or sends a part of it    *)
(* again.                                                                  *)
LEMMA FailsCarries ==
    ASSUME BufferOK, CaughtUp, FlushFails
    PROVE  Carries(<< >>) /\ faults' # 0
<1>1. /\ buf \in Seq(Nat) /\ sent \in 0..Len(buf) /\ faults \in Nat /\ sent \in Nat
      /\ wire = << >> /\ cap \in Nat /\ cap >= WriteCap /\ Len(buf) \in Nat
  BY DEF BufferOK, CaughtUp
<1>2. faults' = faults + 1 /\ buf' = buf /\ cap' = cap
  BY DEF FlushFails
<1>3. PICK n \in 0..(Len(buf) - 1) :
          /\ wire' = wire \o SubSeq(buf, 1, n)
          /\ again' = (again \/ (sent > 0 /\ n > 0))
          /\ sent' = Max({sent, n})
  BY DEF FlushFails
<1> DEFINE sub == SubSeq(buf, 1, n)
           r == SubSeq(buf, sent + 1, Len(buf))
<1>4. n \in 0..Len(buf) /\ n \in Nat
  BY <1>1, <1>3
<1>5. sub \in Seq(Nat) /\ sub \o SubSeq(buf, n + 1, Len(buf)) = buf
  BY <1>1, <1>4, PartsOfBuffer
<1>6. wire' = sub
  BY <1>1, <1>3, <1>5, ConcatEmptySeq
<1>7. sent' \in {sent, n} /\ sent' >= sent /\ sent' >= n
  BY <1>1, <1>3, <1>4, MaxOfTwo
<1>8. BufferOK'
  <2>1. sent' \in 0..Len(buf)
    BY <1>1, <1>4, <1>7
  <2>2. faults' \in Nat
    BY <1>1, <1>2
  <2> HIDE DEF sub
  <2> QED
    BY <1>1, <1>2, <1>5, <1>6, <2>1, <2>2 DEF BufferOK
<1>9. ~again' <=> ~again /\ ~(sent > 0 /\ n > 0)
  BY <1>3, Zenon
<1>10. Rest' = sub \o SubSeq(buf, sent' + 1, Len(buf))
  BY <1>2, <1>6 DEF Rest
<1>11. ~(sent > 0 /\ n > 0) => Rest' = Rest
  <2>1. CASE sent = 0
    <3>1. sent' = n
      BY <1>4, <1>7, <2>1
    <3>2. Rest = buf
      BY <2>1, RestCaughtUp
    <3> QED
      BY <1>5, <1>10, <3>1, <3>2
  <2>2. CASE n = 0
    <3>1. sent' = sent
      BY <1>1, <1>7, <2>2
    <3>2. sub = << >>
      BY <2>2, SubSeqEmpty
    <3>3. Rest = r /\ Rest \in Seq(Nat)
      BY RestCaughtUp
    <3> HIDE DEF sub
    <3>4. Rest' = << >> \o r
      BY <1>10, <3>1, <3>2
    <3>5. << >> \o r = r
      BY <3>3, ConcatEmptySeq
    <3> QED
      BY <3>3, <3>4, <3>5
  <2> QED
    BY <1>1, <1>4, <2>1, <2>2
<1>12. Rest \o << >> = Rest
  BY RestCaughtUp, ConcatEmptySeq
<1>13. faults' # 0
  BY <1>1, <1>2
<1>14. ~again' => ~again /\ Rest' = Rest \o << >>
  BY <1>9, <1>11, <1>12, Zenon
<1> QED
  BY <1>8, <1>13, <1>14, Zenon DEF Carries
----------------------------------------------------------------------------
(* A Write holds the lock, or a call of the MCCPWriter has still to write. *)
CallsOK ==
    /\ p \in Seq(Nat) /\ by \in {"app", "zlib"}
    /\ zip \in {"none", "plain", "zlib", "failed"}
    /\ next \in {"none", "enable", "start", "write", "flush", "close"}

OutOK  == out \in [text : Seq(Nat), cmds : Seq(Nat \X Nat), subs : Seq(Nat \X Seq(Nat))]
PeerOK == Peer \in Decoder

(* e has what the calls have accepted. *)
Final(e) == e.mode = "text" /\ e.text = out.text /\ e.cmds = out.cmds /\ e.subs = out.subs

(* What has not been read leads the peer there. *)
Stream == ~again => \E e \in Decoder : Leads(Peer, Rest, e) /\ Final(e)

Faultless == faults = 0 => Clean

IndInv == BufferOK /\ CallsOK /\ OutOK /\ PeerOK /\ Stream /\ Faultless

(* bytes lead every such decoder to one that has what is accepted then. *)
Moves(bytes) == \A e \in Decoder : Final(e) => \E f \in Decoder : Leads(e, bytes, f) /\ Final(f)'

(* The stream as it was and the bytes after it. *)
LEMMA RestTyped == ASSUME BufferOK PROVE Rest \in Seq(Nat)
<1>1. wire \in Seq(Nat) /\ SubSeq(buf, sent + 1, Len(buf)) \in Seq(Nat)
  BY PartsOfBuffer DEF BufferOK
<1> DEFINE r == SubSeq(buf, sent + 1, Len(buf))
<1> HIDE DEF r
<1>2. r \in Seq(Nat)
  BY <1>1 DEF r
<1>3. wire \o r \in Seq(Nat)
  BY <1>1, <1>2, ConcatProperties
<1> QED
  BY <1>3 DEF Rest, r

(* A step that puts bytes into the stream keeps the invariant if they make *)
(* up for what it accepts.                                                 *)
LEMMA StreamStep ==
    ASSUME IndInv, NEW bytes \in Seq(Nat), Carries(bytes), Moves(bytes),
           CallsOK', OutOK', UNCHANGED refVars
    PROVE  IndInv'
<1>1. BufferOK /\ Rest \in Seq(Nat)
  BY RestTyped DEF IndInv
<1>2. Peer' = Peer /\ PeerOK'
  BY DEF refVars, Peer, PeerOK, IndInv
<1>3. Stream'
  <2> SUFFICES ASSUME ~again' PROVE \E e \in Decoder : Leads(Peer, Rest', e) /\ Final(e)'
    BY <1>2, Zenon DEF Stream
  <2>1. ~again /\ Rest' = Rest \o bytes
    BY Zenon DEF Carries
  <2>2. PICK e \in Decoder : Leads(Peer, Rest, e) /\ Final(e)
    BY <2>1, Zenon DEF IndInv, Stream
  <2>3. PICK f \in Decoder : Leads(e, bytes, f) /\ Final(f)'
    BY <2>2, Zenon DEF Moves
  <2>4. Leads(Peer, Rest \o bytes, f)
    BY <1>1, <2>2, <2>3, LeadsOn
  <2> QED
    BY <2>1, <2>3, <2>4, Zenon
<1>4. Faultless'
  BY Zenon DEF Carries, Faultless, IndInv
<1> QED
  BY <1>2, <1>3, <1>4, Zenon DEF IndInv, Carries

(* Nothing is accepted. *)
LEMMA MovesNothing ==
    ASSUME UNCHANGED out
    PROVE  Moves(<< >>)
<1> SUFFICES ASSUME NEW e \in Decoder, Final(e)
             PROVE  \E f \in Decoder : Leads(e, << >>, f) /\ Final(f)'
  BY DEF Moves
<1>1. Final(e)'
  BY DEF Final
<1> QED
  BY <1>1, LeadsNowhere
----------------------------------------------------------------------------
(* What PutCommand writes is a command. *)
LEMMA CommandBytes ==
    ASSUME NEW v, NEW o
    PROVE  BuildCommand(3, v, o).bytes = <<CmdIAC, v, o>>
  BY DEF BuildCommand, Fit

(* A step that accepts nothing and appends nothing. *)
LEMMA QuietStep ==
    ASSUME IndInv, Carries(<< >>), CallsOK', UNCHANGED <<out, refVars>>
    PROVE  IndInv'
<1>1. << >> \in Seq(Nat)
  BY EmptySeq
<1>2. Moves(<< >>) /\ OutOK'
  BY MovesNothing DEF IndInv, OutOK
<1> QED
  BY <1>1, <1>2, StreamStep

(* A failed write in a call that does nothing else. *)
LEMMA FailedStep ==
    ASSUME IndInv, CaughtUp, FlushFails, CallsOK', UNCHANGED <<out, refVars>>
    PROVE  IndInv'
<1>1. Carries(<< >>)
  BY FailsCarries DEF IndInv
<1> QED
  BY <1>1, QuietStep

(* SendCommand, and EnableMCCP2's. *)
LEMMA PutCommandStep ==
    ASSUME IndInv, CaughtUp, p = << >>, NEW c \in Verbs \X Nat, NEW then,
           PutCommand(c, then), UNCHANGED <<p, by, zip, refVars>>,
           then \in {next, "enable"}
    PROVE  IndInv'
<1>1. PICK v \in Verbs, o \in Nat : c = <<v, o>>
  OBVIOUS
<1>2. c[1] = v /\ c[2] = o
  BY <1>1
<1> DEFINE bytes == <<CmdIAC, v, o>>
<1>3. bytes \in Seq(Nat) /\ <<v, o>> \in Nat \X Nat
  BY DEF CmdIAC, Verbs, CmdWill, CmdWont, CmdDo, CmdDont
<1>4. BuildCommand(3, c[1], c[2]).bytes = bytes
  BY <1>2, CommandBytes
<1> HIDE DEF bytes
<1>5. CASE FlushFails /\ UNCHANGED <<out, next>>
  BY <1>5, FailedStep DEF IndInv, CallsOK
<1>6. ASSUME NEW full, Emit(full, bytes), out' = [out EXCEPT !.cmds = Append(@, c)], next' = then
      PROVE  IndInv'
  <2>1. Carries(bytes)
    BY <1>3, <1>6, EmitCarries DEF IndInv
  <2>2. out \in [text : Seq(Nat), cmds : Seq(Nat \X Nat), subs : Seq(Nat \X Seq(Nat))]
    BY DEF IndInv, OutOK
  <2>3. /\ out'.text = out.text /\ out'.subs = out.subs /\ out'.cmds = Append(out.cmds, <<v, o>>)
        /\ OutOK'
    <3>1. Append(out.cmds, c) \in Seq(Nat \X Nat)
      BY <1>1, <1>3, <2>2, AppendProperties
    <3>2. out'.text = out.text /\ out'.subs = out.subs /\ out'.cmds = Append(out.cmds, c)
      BY <1>6, <2>2
    <3>3. OutOK'
      BY <1>6, <2>2, <3>1 DEF OutOK
    <3> QED
      BY <1>1, <3>2, <3>3
  <2>4. CallsOK'
    BY <1>6 DEF IndInv, CallsOK
  <2>5. Moves(bytes)
    <3> SUFFICES ASSUME NEW e \in Decoder, Final(e)
                 PROVE  \E f \in Decoder : Leads(e, bytes, f) /\ Final(f)'
      BY DEF Moves
    <3>1. PICK f \in Decoder : /\ Leads(e, bytes, f) /\ f.mode = "text"
                               /\ f.cmds = Append(e.cmds, <<v, o>>)
                               /\ f.subs = e.subs /\ f.text = e.text
      BY CommandLeads DEF Final, bytes
    <3>2. Final(f)'
      BY <2>3, <3>1 DEF Final
    <3> QED
      BY <3>1, <3>2
  <2> QED
    BY <1>3, <2>1, <2>3, <2>4, <2>5, StreamStep
<1> DEFINE full == Len(buf) + 3 > cap
<1>7. \/ Emit(full, bytes) /\ out' = [out EXCEPT !.cmds = Append(@, c)] /\ next' = then
      \/ FlushFails /\ UNCHANGED <<out, next>>
  BY <1>4 DEF PutCommand
<1> HIDE DEF full
<1> QED
  BY <1>5, <1>6, <1>7

(* SendSubnegotiation makes room for exactly what is written. *)
LEMMA SubnegotiationBytes ==
    ASSUME NEW o \in Nat, NEW data \in Seq(Nat)
    PROVE  LET s == <<o, data>>
               bytes == <<CmdIAC, CmdSB, o>> \o EscapeIAC(data) \o <<CmdIAC, CmdSE>>
           IN /\ Required(s) \in Nat /\ Len(bytes) = Required(s) /\ bytes \in Seq(Nat)
              /\ BuildSubnegotiation(Required(s), o, data).bytes = bytes
              /\ data = << >> => Required(s) = 5
<1> DEFINE s == <<o, data>>
           a == <<CmdIAC, CmdSB, o>>
           mid == EscapeIAC(data)
           c == <<CmdIAC, CmdSE>>
           n == Len(data)
           bytes == (a \o mid) \o c
<1>1. a \in Seq(Nat) /\ Len(a) = 3 /\ c \in Seq(Nat) /\ Len(c) = 2
  BY DEF CmdIAC, CmdSB, CmdSE
<1>2. n \in Nat /\ n \in 0..n /\ DOMAIN data = 1..n /\ First(data, n) = data
  BY LenProperties, SubSeqFull DEF First
<1>3. IACs(data, n) \in Nat /\ IACs(data, 0) = 0
  BY <1>2, IACsNext
<1>4. mid \in Seq(Nat) /\ Len(mid) = n + IACs(data, n)
  BY <1>2, EscapeLen
<1>5. Required(s) = 5 + n + IACs(data, n)
  <2>1. s[2] = data
    OBVIOUS
  <2>2. Required(s) = 5 + Len(data) + Quantify(DOMAIN data, LAMBDA k : data[k] = CmdIAC)
    BY <2>1 DEF Required
  <2>3. Quantify(DOMAIN data, LAMBDA k : data[k] = CmdIAC)
           = Cardinality({k \in DOMAIN data : data[k] = CmdIAC})
    BY DEF Quantify
  <2> QED
    BY <1>2, <2>2, <2>3 DEF IACs
<1> HIDE DEF a, mid, c, n
<1> DEFINE x == a \o mid
<1>6. x \in Seq(Nat) /\ Len(x) = Len(a) + Len(mid)
  BY <1>1, <1>4, ConcatProperties
<1> HIDE DEF x
<1>7. bytes \in Seq(Nat) /\ Len(bytes) = (3 + Len(mid)) + 2
  <2>1. x \o c \in Seq(Nat) /\ Len(x \o c) = Len(x) + Len(c)
    BY <1>1, <1>6, ConcatProperties
  <2>2. Len(x) + Len(c) = (3 + Len(mid)) + 2
    BY <1>1, <1>6
  <2> QED
    BY <2>1, <2>2 DEF x
<1>8. Required(s) \in Nat /\ Len(bytes) = Required(s)
  BY <1>2, <1>3, <1>4, <1>5, <1>7
<1>9. BuildSubnegotiation(Required(s), o, data) = Fit(Required(s), bytes)
  BY DEF BuildSubnegotiation, a, mid, c
<1> HIDE DEF bytes
<1>10. Fit(Required(s), bytes).bytes = bytes
  BY <1>8 DEF Fit
<1>11. data = << >> => n = 0
  BY EmptySeq DEF n
<1>12. data = << >> => Required(s) = 5
  BY <1>3, <1>5, <1>11
<1> QED
  BY <1>7, <1>8, <1>9, <1>10, <1>12 DEF bytes, a, mid, c

(* SendSubnegotiation, and StartCompression's. *)
LEMMA PutSubnegotiationStep ==
    ASSUME IndInv, CaughtUp, p = << >>, NEW o \in Nat, NEW data \in Seq(Nat),
           Len(data) <= Observed, NEW then, PutSubnegotiation(<<o, data>>, then),
           UNCHANGED <<p, by, zip, refVars>>, then \in {next, "start"}
    PROVE  IndInv'
<1> DEFINE s == <<o, data>>
           bytes == <<CmdIAC, CmdSB, o>> \o EscapeIAC(data) \o <<CmdIAC, CmdSE>>
           full == Len(buf) + Required(s) > cap
<1>1. s[1] = o /\ s[2] = data /\ s \in Nat \X Seq(Nat)
  OBVIOUS
<1>2. bytes \in Seq(Nat) /\ BuildSubnegotiation(Required(s), o, data).bytes = bytes
  BY SubnegotiationBytes
<1>3. \/ Emit(full, bytes) /\ out' = [out EXCEPT !.subs = Append(@, s)] /\ next' = then
      \/ FlushFails /\ UNCHANGED <<out, next>>
  BY <1>1, <1>2 DEF PutSubnegotiation
<1>5. ASSUME NEW e \in Decoder, e.mode = "text"
      PROVE  \E f \in Decoder : /\ Leads(e, bytes, f) /\ f.mode = "text"
                                /\ f.subs = Append(e.subs, s) /\ f.cmds = e.cmds
                                /\ f.text = e.text
  BY <1>5, SubnegotiationLeads
<1> HIDE DEF bytes, s, full
<1>6. CASE FlushFails /\ UNCHANGED <<out, next>>
  BY <1>6, FailedStep DEF IndInv, CallsOK
<1>7. CASE Emit(full, bytes) /\ out' = [out EXCEPT !.subs = Append(@, s)] /\ next' = then
  <2>1. Carries(bytes)
    BY <1>2, <1>7, EmitCarries DEF IndInv
  <2>2. out \in [text : Seq(Nat), cmds : Seq(Nat \X Nat), subs : Seq(Nat \X Seq(Nat))]
    BY DEF IndInv, OutOK
  <2>3. /\ out'.text = out.text /\ out'.cmds = out.cmds /\ out'.subs = Append(out.subs, s)
        /\ OutOK'
    <3>1. Append(out.subs, s) \in Seq(Nat \X Seq(Nat))
      BY <1>1, <2>2, AppendProperties
    <3>2. out'.text = out.text /\ out'.cmds = out.cmds /\ out'.subs = Append(out.subs, s)
      BY <1>7, <2>2
    <3>3. OutOK'
      BY <1>7, <2>2, <3>1 DEF OutOK
    <3> QED
      BY <3>2, <3>3
  <2>4. CallsOK'
    BY <1>7 DEF IndInv, CallsOK
  <2>5. Moves(bytes)
    <3> SUFFICES ASSUME NEW e \in Decoder, Final(e)
                 PROVE  \E f \in Decoder : Leads(e, bytes, f) /\ Final(f)'
      BY DEF Moves
    <3>1. PICK f \in Decoder : /\ Leads(e, bytes, f) /\ f.mode = "text"
                               /\ f.subs = Append(e.subs, s) /\ f.cmds = e.cmds
                               /\ f.text = e.text
      BY <1>5 DEF Final
    <3>2. Final(f)'
      BY <2>3, <3>1 DEF Final
    <3> QED
      BY <3>1, <3>2
  <2> QED
    BY <1>2, <2>1, <2>3, <2>4, <2>5, StreamStep
<1> QED
  BY <1>3, <1>6, <1>7

(* A step that does not touch the buffer. *)
LEMMA NothingCarries ==
    ASSUME BufferOK, UNCHANGED <<buf, cap, wire, sent, again, faults>>
    PROVE  Carries(<< >>)
<1>1. BufferOK'
  BY DEF BufferOK
<1>2. Rest' = Rest /\ Rest \o << >> = Rest
  BY RestTyped, ConcatEmptySeq DEF Rest
<1>3. (again' <=> again) /\ sent' = sent /\ faults' = faults
  BY Zenon
<1>4. Rest' = Rest \o << >>
  BY <1>2
<1> QED
  BY <1>1, <1>3, <1>4, Zenon DEF Carries, Clean

(* The flush alone. *)
LEMMA EmptiedCarries ==
    ASSUME BufferOK, CaughtUp, Flushed, buf' = << >>, UNCHANGED <<cap, faults>>
    PROVE  Carries(<< >>)
<1>1. << >> \in Seq(Nat) /\ cap' \in Nat /\ cap' >= WriteCap
  BY EmptySeq DEF BufferOK
<1> QED
  BY <1>1, FlushedCarries

(* Flush, and the one at the end of a call of the MCCPWriter. *)
LEMMA FlushStep == ASSUME IndInv, Flush \/ FlushNext PROVE IndInv'
<1>1. CaughtUp /\ UNCHANGED <<p, by, out, refVars>>
  BY DEF Flush, FlushNext, Call, Keep
<1>2. CallsOK'
  BY <1>1 DEF Flush, FlushNext, Keep, IndInv, CallsOK
<1>3. CASE FlushFails
  BY <1>1, <1>2, <1>3, FailedStep
<1>4. CASE Flushed /\ buf' = << >> /\ UNCHANGED <<cap, faults>>
  <2>1. Carries(<< >>)
    BY <1>1, <1>4, EmptiedCarries DEF IndInv
  <2> QED
    BY <1>1, <1>2, <2>1, QuietStep
<1> QED
  BY <1>3, <1>4 DEF Flush, FlushNext, flushLocked

(* The text of the calls grows. *)
LEMMA TextGrows ==
    ASSUME OutOK, NEW data \in Seq(Nat), out' = [out EXCEPT !.text = @ \o data]
    PROVE  /\ OutOK' /\ out'.text = out.text \o data
           /\ out'.cmds = out.cmds /\ out'.subs = out.subs
<1>1. out \in [text : Seq(Nat), cmds : Seq(Nat \X Nat), subs : Seq(Nat \X Seq(Nat))]
  BY DEF OutOK
<1> DEFINE t == out.text \o data
<1>2. t \in Seq(Nat)
  BY <1>1, ConcatProperties
<1>3. out' = [out EXCEPT !.text = t]
  OBVIOUS
<1> HIDE DEF t
<1>4. OutOK'
  BY <1>1, <1>2, <1>3 DEF OutOK
<1>5. out'.text = t /\ out'.cmds = out.cmds /\ out'.subs = out.subs
  BY <1>1, <1>3
<1> QED
  BY <1>4, <1>5 DEF t

(* Write, up to its loop, whoever calls it. *)
LEMMA BeginWriteStep ==
    ASSUME IndInv, CaughtUp, p = << >>, NEW data \in Seq(Nat), BeginWrite(data),
           by' \in {"app", "zlib"}
    PROVE  IndInv'
<1>1. UNCHANGED <<next, wire, sent, again, faults, zip, refVars>>
  BY DEF BeginWrite
<1>2. CallsOK'
  <2>1. p' \in Seq(Nat)
    BY EmptySeq DEF BeginWrite, IndInv, CallsOK
  <2> QED
    BY <1>1, <2>1 DEF IndInv, CallsOK
<1>3. CASE ~(CmdIAC \in ToSet(data)) /\ Len(buf) + Len(data) <= cap
  <2>1. append(buf, data) /\ out' = [out EXCEPT !.text = @ \o data]
    BY <1>3 DEF BeginWrite
  <2>2. Carries(data)
    BY <1>1, <2>1, AppendCarries DEF IndInv
  <2>3. /\ OutOK' /\ out'.text = out.text \o data
        /\ out'.cmds = out.cmds /\ out'.subs = out.subs
    BY <2>1, TextGrows DEF IndInv
  <2>4. Moves(data)
    <3> SUFFICES ASSUME NEW e \in Decoder, Final(e)
                 PROVE  \E f \in Decoder : Leads(e, data, f) /\ Final(f)'
      BY DEF Moves
    <3>1. PICK f \in Decoder : Leads(e, data, f) /\ TextOnly(e, f, data)
      BY <1>3, PlainLeads DEF Final
    <3>2. Final(f)'
      BY <2>3, <3>1 DEF Final, TextOnly
    <3> QED
      BY <3>1, <3>2
  <2> QED
    BY <1>1, <1>2, <2>2, <2>3, <2>4, StreamStep
<1>4. CASE ~(~(CmdIAC \in ToSet(data)) /\ Len(buf) + Len(data) <= cap)
  <2>1. UNCHANGED <<buf, cap, out>>
    BY <1>4 DEF BeginWrite
  <2>2. Carries(<< >>)
    BY <1>1, <2>1, NothingCarries DEF IndInv
  <2> QED
    BY <1>1, <1>2, <2>1, <2>2, QuietStep
<1> QED
  BY <1>3, <1>4

(* The loop of Write takes a byte. *)
LEMMA ByteWritten ==
    ASSUME IndInv, CaughtUp, p # << >>, NEW full, NEW CONSTANT b, b = Head(p),
           Emit(full, Escaped(b)), p' = Tail(p), UNCHANGED <<by, next, zip, refVars>>,
           out' = [out EXCEPT !.text = Append(@, b)]
    PROVE  IndInv'
<1>1. b \in Nat /\ Tail(p) \in Seq(Nat) /\ <<b>> \in Seq(Nat)
  BY HeadTailProperties DEF IndInv, CallsOK
<1>2. Escaped(b) \in Seq(Nat)
  BY <1>1 DEF Escaped, CmdIAC
<1>3. Carries(Escaped(b))
  BY <1>2, EmitCarries DEF IndInv
<1>4. CallsOK'
  BY <1>1 DEF IndInv, CallsOK
<1>5. /\ OutOK' /\ out'.text = Append(out.text, b)
      /\ out'.cmds = out.cmds /\ out'.subs = out.subs
  <2>1. out.text \in Seq(Nat)
    BY DEF IndInv, OutOK
  <2>2. Append(out.text, b) = out.text \o <<b>>
    BY <1>1, <2>1, AppendIsConcat
  <2>3. out' = [out EXCEPT !.text = @ \o <<b>>]
    BY <2>2
  <2> QED
    BY <1>1, <2>2, <2>3, TextGrows DEF IndInv
<1>6. Moves(Escaped(b))
  <2> SUFFICES ASSUME NEW e \in Decoder, Final(e)
               PROVE  \E f \in Decoder : Leads(e, Escaped(b), f) /\ Final(f)'
    BY DEF Moves
  <2> DEFINE f == Shows(e, b)
  <2>1. /\ f \in Decoder /\ f.mode = "text" /\ f.text = Append(e.text, b)
        /\ f.cmds = e.cmds /\ f.subs = e.subs
    BY <1>1, ShowsTyped
  <2>2. Leads(e, Escaped(b), f)
    BY <1>1, EscapedLeads DEF Final
  <2> HIDE DEF f
  <2>3. Final(f)'
    BY <1>5, <2>1 DEF Final
  <2> QED
    BY <2>1, <2>2, <2>3
<1> QED
  BY <1>2, <1>3, <1>4, <1>5, <1>6, StreamStep

(* The loop of Write. *)
LEMMA WriteNextStep == ASSUME IndInv, WriteNext PROVE IndInv'
<1> DEFINE full == Len(buf) >= cap
<1>1. /\ CaughtUp /\ p # << >> /\ UNCHANGED <<by, refVars>>
      /\ \/ /\ Emit(full, Escaped(Head(p))) /\ p' = Tail(p) /\ UNCHANGED <<next, zip>>
            /\ out' = [out EXCEPT !.text = Append(@, Head(p))]
         \/ /\ FlushFails /\ p' = << >> /\ UNCHANGED out
            /\ next' \in {"none", next} /\ zip' \in {"failed", zip}
  BY DEF WriteNext
<1> HIDE DEF full
<1>2. PICK b : b = Head(p)
  OBVIOUS
<1>3. CASE /\ Emit(full, Escaped(Head(p))) /\ p' = Tail(p) /\ UNCHANGED <<next, zip>>
           /\ out' = [out EXCEPT !.text = Append(@, Head(p))]
  BY <1>1, <1>2, <1>3, ByteWritten
<1>4. CASE /\ FlushFails /\ p' = << >> /\ UNCHANGED out
           /\ next' \in {"none", next} /\ zip' \in {"failed", zip}
  <2>1. CallsOK'
    BY <1>1, <1>4, EmptySeq DEF IndInv, CallsOK
  <2> QED
    BY <1>1, <1>4, <2>1, FailedStep
<1> QED
  BY <1>1, <1>3, <1>4
----------------------------------------------------------------------------
(* A sequence with its first element taken off. *)
LEMMA FirstOfConcat ==
    ASSUME NEW S, NEW x \in S, NEW t \in Seq(S)
    PROVE  <<x>> \o t # << >> /\ Head(<<x>> \o t) = x /\ Tail(<<x>> \o t) = t
<1> DEFINE u == <<x>>
           s == u \o t
<1>1. u \in Seq(S) /\ Len(u) = 1 /\ u[1] = x
  OBVIOUS
<1> HIDE DEF u
<1>2. /\ s \in Seq(S) /\ Len(s) = Len(u) + Len(t)
      /\ \A i \in 1..Len(u) + Len(t) : s[i] = IF i <= Len(u) THEN u[i] ELSE t[i - Len(u)]
  BY <1>1, ConcatProperties
<1> HIDE DEF s
<1> DEFINE n == Len(t)
<1>3. n \in Nat
  OBVIOUS
<1>4. /\ Len(s) = n + 1 /\ s[1] = x /\ \A i \in 2..(n + 1) : s[i] = t[i - 1]
  <2>1. Len(u) + Len(t) = n + 1 /\ 1 \in 1..(n + 1)
    BY <1>1, <1>3
  <2>2. ASSUME NEW i \in 2..(n + 1) PROVE s[i] = t[i - 1]
    <3>1. i \in 1..(n + 1) /\ ~(i <= 1)
      BY <1>3
    <3> QED
      BY <1>1, <1>2, <2>1, <3>1
  <2> QED
    BY <1>1, <1>2, <2>1, <2>2
<1> HIDE DEF n
<1>5. s # << >>
  BY <1>3, <1>4, EmptySeq
<1>6. /\ Head(s) = s[1] /\ Tail(s) \in Seq(S) /\ Len(Tail(s)) = Len(s) - 1
      /\ \A i \in 1..Len(Tail(s)) : Tail(s)[i] = s[i + 1]
  BY <1>2, <1>5, HeadTailProperties
<1>7. ASSUME NEW i \in 1..Len(Tail(s)) PROVE Tail(s)[i] = t[i]
  <2>1. i + 1 \in 2..(n + 1) /\ (i + 1) - 1 = i
    BY <1>3, <1>4, <1>6
  <2> QED
    BY <1>4, <1>6, <2>1
<1>8. Len(Tail(s)) = Len(t)
  BY <1>3, <1>4, <1>6 DEF n
<1>9. Tail(s) = t
  BY <1>6, <1>7, <1>8, SeqEqual
<1> QED
  BY <1>4, <1>5, <1>6, <1>9 DEF s, u

(* Every sequence is its first element and the others. *)
LEMMA HeadFirst ==
    ASSUME NEW S, NEW s \in Seq(S), s # << >>
    PROVE  /\ s = <<Head(s)>> \o Tail(s) /\ Head(s) \in S /\ Tail(s) \in Seq(S)
           /\ Head(s) = s[1]
<1>1. Len(s) \in Nat /\ Len(s) # 0 /\ Head(s) = s[1] /\ Head(s) \in S /\ Tail(s) \in Seq(S)
  BY EmptySeq, HeadTailProperties
<1>2. SubSeq(s, 1, Len(s)) = <<s[1]>> \o SubSeq(s, 1 + 1, Len(s))
  <2>1. 1 \in 1..Len(s) /\ Len(s) \in 1..Len(s)
    BY <1>1
  <2> QED
    BY <2>1, SubSeqRecursiveFirst
<1>3. SubSeq(s, 1, Len(s)) = s /\ Tail(s) = SubSeq(s, 1 + 1, Len(s))
  BY SubSeqFull, TailIsSubSeq
<1> QED
  BY <1>1, <1>2, <1>3

(* One byte in front of two sequences. *)
LEMMA FirstOfThree ==
    ASSUME NEW S, NEW x \in S, NEW s \in Seq(S), NEW t \in Seq(S)
    PROVE  /\ (<<x>> \o s) \o t # << >> /\ Head((<<x>> \o s) \o t) = x
           /\ Tail((<<x>> \o s) \o t) = s \o t
<1> DEFINE u == <<x>>
<1>1. u \in Seq(S) /\ s \o t \in Seq(S)
  BY ConcatProperties
<1>2. /\ <<x>> \o (s \o t) # << >> /\ Head(<<x>> \o (s \o t)) = x
      /\ Tail(<<x>> \o (s \o t)) = s \o t
  BY <1>1, FirstOfConcat
<1> HIDE DEF u
<1>3. (u \o s) \o t = u \o (s \o t)
  BY <1>1, ConcatAssociative
<1> QED
  BY <1>2, <1>3 DEF u

(* A data byte is appended to the peer's text. *)
LEMMA DataByte ==
    ASSUME NEW CONSTANT b, text' = Append(text, b), mode' = "text",
           UNCHANGED <<verb, opt, body, cmds, subs>>
    PROVE  Peer' = Shows(Peer, b)
<1> DEFINE t == Append(text, b)
<1>1. text' = t /\ Peer.text = text
  BY DEF Peer
<1>2. Shows(Peer, b) = [Peer EXCEPT !.mode = "text", !.text = t]
  BY <1>1 DEF Shows
<1> HIDE DEF t
<1> QED
  BY <1>1, <1>2 DEF Peer

(* The peer takes a byte as Decoded says. *)
LEMMA TakeDecodes ==
    ASSUME NEW CONSTANT b \in Nat, Take(b)
    PROVE  Peer' = Decoded(Peer, b)
<1>1. /\ Peer.mode = mode /\ Peer.verb = verb /\ Peer.opt = opt /\ Peer.body = body
      /\ Peer.text = text /\ Peer.cmds = cmds /\ Peer.subs = subs
  BY DEF Peer
<1>2. ASSUME NEW bytes PROVE Record(bytes) = Recorded(Peer, bytes)
  BY <1>1 DEF Record, Recorded
<1>3. CASE TextByte(b)
  <2>1. CASE b = CmdIAC
    <3>1. text' = text /\ mode' = "iac" /\ UNCHANGED <<verb, opt, body, cmds, subs>>
      BY <1>3, <2>1 DEF TextByte
    <3>2. Decoded(Peer, b) = [Peer EXCEPT !.mode = "iac"]
      BY <1>1, <1>3, <2>1 DEF Decoded, OnText, TextByte
    <3> QED
      BY <3>1, <3>2 DEF Peer
  <2>2. CASE b # CmdIAC
    <3>1. Decoded(Peer, b) = Shows(Peer, b)
      BY <1>1, <1>3, <2>2 DEF Decoded, OnText, TextByte
    <3>2. text' = Append(text, b) /\ mode' = "text" /\ UNCHANGED <<verb, opt, body, cmds, subs>>
      BY <1>3, <2>2 DEF TextByte
    <3> QED
      BY <3>1, <3>2, DataByte
  <2> QED
    BY <2>1, <2>2
<1>4. CASE AfterIAC(b)
  <2>1. Decoded(Peer, b) = OnIAC(Peer, b)
    BY <1>1, <1>4 DEF Decoded, AfterIAC
  <2>2. CASE b = CmdIAC
    <3>1. b \notin Verbs /\ b # CmdSB
      BY <2>2 DEF CmdIAC, CmdSB, Verbs, CmdWill, CmdWont, CmdDo, CmdDont
    <3>2. text' = Append(text, b) /\ mode' = "text" /\ UNCHANGED <<verb, opt, body, cmds, subs>>
      BY <1>4, <2>2, <3>1 DEF AfterIAC
    <3>3. OnIAC(Peer, b) = Shows(Peer, b)
      BY <2>2 DEF OnIAC
    <3> QED
      BY <2>1, <3>2, <3>3, DataByte
  <2>3. CASE b # CmdIAC
    <3>1. text' = text /\ UNCHANGED <<opt, cmds, subs>>
      BY <1>4, <2>3 DEF AfterIAC
    <3>2. CASE b \in Verbs
      <4>1. b # CmdSB
        BY <3>2 DEF CmdSB, Verbs, CmdWill, CmdWont, CmdDo, CmdDont
      <4>2. mode' = "verb" /\ verb' = b /\ body' = body
        BY <1>4, <3>2, <4>1 DEF AfterIAC
      <4>3. OnIAC(Peer, b) = [Peer EXCEPT !.mode = "verb", !.verb = b]
        BY <2>3, <3>2 DEF OnIAC
      <4> QED
        BY <2>1, <3>1, <4>2, <4>3 DEF Peer
    <3>3. CASE b \notin Verbs /\ b = CmdSB
      <4>1. mode' = "sb" /\ verb' = verb /\ body' = << >>
        BY <1>4, <3>3 DEF AfterIAC
      <4>2. OnIAC(Peer, b) = [Peer EXCEPT !.mode = "sb", !.body = << >>]
        BY <2>3, <3>3 DEF OnIAC
      <4> QED
        BY <2>1, <3>1, <4>1, <4>2 DEF Peer
    <3>4. CASE b \notin Verbs /\ b # CmdSB
      <4>1. mode' = "text" /\ verb' = verb /\ body' = body
        BY <1>4, <3>4 DEF AfterIAC
      <4>2. OnIAC(Peer, b) = [Peer EXCEPT !.mode = "text"]
        BY <2>3, <3>4 DEF OnIAC
      <4> QED
        BY <2>1, <3>1, <4>1, <4>2 DEF Peer
    <3> QED
      BY <3>2, <3>3, <3>4
  <2> QED
    BY <2>2, <2>3
<1>5. CASE OptionByte(b)
  <2>1. /\ mode' = "text" /\ cmds' = Append(cmds, <<verb, b>>) /\ text' = text
        /\ UNCHANGED <<verb, opt, body, subs>>
    BY <1>5 DEF OptionByte
  <2>2. Decoded(Peer, b) = [Peer EXCEPT !.mode = "text", !.cmds = Append(cmds, <<verb, b>>)]
    BY <1>1, <1>5 DEF Decoded, OptionByte
  <2> QED
    BY <2>1, <2>2 DEF Peer
<1>6. CASE SubOption(b)
  <2>1. /\ mode' = "body" /\ opt' = b /\ text' = text
        /\ UNCHANGED <<verb, body, cmds, subs>>
    BY <1>6 DEF SubOption
  <2>2. Decoded(Peer, b) = [Peer EXCEPT !.mode = "body", !.opt = b]
    BY <1>1, <1>6 DEF Decoded, SubOption
  <2> QED
    BY <2>1, <2>2 DEF Peer
<1>7. CASE SubByte(b)
  <2>1. text' = text /\ UNCHANGED <<verb, opt, cmds, subs>>
    BY <1>7 DEF SubByte
  <2>2. Decoded(Peer, b) = OnBody(Peer, b)
    BY <1>1, <1>7 DEF Decoded, SubByte
  <2> DEFINE r == Recorded(Peer, <<b>>)
  <2>3. CASE b = CmdIAC
    <3>1. mode' = "bodyiac" /\ body' = body
      BY <1>7, <2>3 DEF SubByte
    <3>2. OnBody(Peer, b) = [Peer EXCEPT !.mode = "bodyiac"]
      BY <2>3 DEF OnBody
    <3> QED
      BY <2>1, <2>2, <3>1, <3>2 DEF Peer
  <2>4. CASE b # CmdIAC
    <3>1. mode' = mode /\ body' = r
      BY <1>2, <1>7, <2>4 DEF SubByte
    <3>2. OnBody(Peer, b) = [Peer EXCEPT !.body = r]
      BY <2>4 DEF OnBody
    <3> HIDE DEF r
    <3> QED
      BY <2>1, <2>2, <3>1, <3>2 DEF Peer
  <2> QED
    BY <2>3, <2>4
<1>8. CASE SubAfterIAC(b)
  <2>1. text' = text /\ UNCHANGED <<verb, opt, cmds>>
    BY <1>8 DEF SubAfterIAC
  <2>2. Decoded(Peer, b) = OnBodyIAC(Peer, b)
    BY <1>1, <1>8 DEF Decoded, SubAfterIAC
  <2>3. CASE b = CmdSE
    <3>1. mode' = "text" /\ body' = body /\ subs' = Append(subs, <<opt, body>>)
      BY <1>8, <2>3 DEF SubAfterIAC, CmdSE, CmdIAC
    <3>2. OnBodyIAC(Peer, b)
             = [Peer EXCEPT !.mode = "text", !.subs = Append(subs, <<opt, body>>)]
      BY <1>1, <2>3 DEF OnBodyIAC
    <3> QED
      BY <2>1, <2>2, <3>1, <3>2 DEF Peer
  <2>4. CASE b # CmdSE
    <3> DEFINE r == Recorded(Peer, IF b = CmdIAC THEN <<b>> ELSE <<CmdIAC, b>>)
    <3>1. mode' = "body" /\ subs' = subs
      BY <1>8, <2>4 DEF SubAfterIAC
    <3>2. body' = IF b = CmdIAC THEN Record(<<b>>) ELSE Record(<<CmdIAC, b>>)
      BY <1>8, <2>4 DEF SubAfterIAC
    <3>3. body' = r
      BY <1>2, <3>2
    <3>4. OnBodyIAC(Peer, b) = [Peer EXCEPT !.mode = "body", !.body = r]
      BY <2>4 DEF OnBodyIAC
    <3> HIDE DEF r
    <3> QED
      BY <2>1, <2>2, <3>1, <3>3, <3>4 DEF Peer
  <2> QED
    BY <2>3, <2>4
<1> QED
  BY <1>3, <1>4, <1>5, <1>6, <1>7, <1>8 DEF Take

(* A byte read by the peer is one the stream has less. *)
LEMMA PeerReadsStep == ASSUME IndInv, PeerReads PROVE IndInv'
<1>1. /\ wire # << >> /\ wire' = Tail(wire) /\ Take(Head(wire))
      /\ UNCHANGED <<buf, cap, p, by, zip, next, sent, again, out, faults>>
  BY DEF PeerReads
<1>2. wire \in Seq(Nat) /\ BufferOK /\ PeerOK
  BY DEF IndInv, BufferOK
<1>3. PICK b : b = Head(wire)
  OBVIOUS
<1>4. b \in Nat /\ Tail(wire) \in Seq(Nat) /\ wire = <<b>> \o Tail(wire)
  BY <1>1, <1>2, <1>3, HeadFirst
<1>5. Take(b)
  BY <1>1, <1>3
<1>6. Peer' = Decoded(Peer, b)
  BY <1>4, <1>5, TakeDecodes
<1>7. PeerOK'
  BY <1>2, <1>4, <1>6, DecodedTyped DEF PeerOK
<1>8. Rest # << >> /\ Head(Rest) = b /\ Rest' = Tail(Rest)
  <2> DEFINE r == SubSeq(buf, sent + 1, Len(buf))
             t == Tail(wire)
  <2>1. r \in Seq(Nat) /\ t \in Seq(Nat)
    BY <1>2, <1>4, PartsOfBuffer DEF BufferOK
  <2>2. Rest' = t \o r /\ Rest = (<<b>> \o t) \o r
    BY <1>1, <1>4 DEF Rest
  <2> HIDE DEF r, t
  <2>3. b \in Nat
    BY <1>4
  <2>4. /\ (<<b>> \o t) \o r # << >> /\ Head((<<b>> \o t) \o r) = b
        /\ Tail((<<b>> \o t) \o r) = t \o r
    BY ONLY <2>1, <2>3, FirstOfThree
  <2> QED
    BY <2>2, <2>4, Zenon
<1>9. BufferOK'
  BY <1>1, <1>2, <1>4 DEF BufferOK
<1>10. CallsOK' /\ OutOK'
  BY <1>1 DEF IndInv, CallsOK, OutOK
<1>11. ASSUME NEW e \in Decoder, Final(e) PROVE Final(e)'
  BY <1>1, <1>11 DEF Final
<1>12. (again' <=> again) /\ sent' = sent /\ faults' = faults
  BY <1>1, Zenon
<1>13. Stream'
  <2> SUFFICES ASSUME ~again' PROVE \E e \in Decoder : Leads(Peer', Rest', e) /\ Final(e)'
    BY Zenon DEF Stream
  <2>1. PICK e \in Decoder : Leads(Peer, Rest, e) /\ Final(e)
    BY <1>12, Zenon DEF IndInv, Stream
  <2>2. Rest \in Seq(Nat)
    BY <1>2, RestTyped
  <2>3. Leads(Decoded(Peer, b), Tail(Rest), e)
    <3>1. Leads(Decoded(Peer, Head(Rest)), Tail(Rest), e)
      BY <1>8, <2>1, <2>2, LeadsFrom
    <3> QED
      BY <1>8, <3>1
  <2>4. Leads(Peer', Rest', e)
    BY <1>6, <1>8, <2>3
  <2> QED
    BY <1>11, <2>1, <2>4
<1>14. Faultless'
  BY <1>12, Zenon DEF IndInv, Faultless, Clean
<1> QED
  BY <1>7, <1>9, <1>10, <1>13, <1>14, Zenon DEF IndInv
----------------------------------------------------------------------------
(* The invariant holds at first, ... *)
LEMMA InitIndInv == Init => IndInv
<1> SUFFICES ASSUME Init PROVE IndInv
  OBVIOUS
<1>1. << >> \in Seq(Nat) /\ Len(<< >>) = 0
  BY EmptySeq
<1>2. BufferOK
  BY <1>1, WriteAssumption DEF Init, BufferOK
<1>3. CallsOK
  BY <1>1 DEF Init, CallsOK
<1>4. OutOK
  <2>1. << >> \in Seq(Nat \X Nat) /\ << >> \in Seq(Nat \X Seq(Nat))
    BY EmptySeq
  <2> QED
    BY <1>1, <2>1 DEF Init, OutOK
<1>5. PeerOK
  <2>1. << >> \in Seq(Nat \X Nat) /\ << >> \in Seq(Nat \X Seq(Nat))
    BY EmptySeq
  <2>2. /\ mode = "text" /\ verb = 0 /\ opt = 0 /\ body = << >> /\ text = << >>
        /\ cmds = << >> /\ subs = << >>
    BY DEF Init, RefInit
  <2> QED
    BY <1>1, <2>1, <2>2 DEF PeerOK, Peer, Decoder
<1>6. Final(Peer)
  BY DEF Init, RefInit, Peer, Final
<1>7. Rest = << >>
  <2>1. CaughtUp /\ sent = 0 /\ buf = << >>
    BY DEF Init, CaughtUp
  <2> QED
    BY <1>2, <2>1, RestCaughtUp
<1>8. Stream
  <2>1. Peer \in Decoder
    BY <1>5 DEF PeerOK
  <2>2. Leads(Peer, Rest, Peer)
    BY <1>7, <2>1, LeadsNowhere
  <2> QED
    BY <1>6, <2>1, <2>2 DEF Stream
<1>9. Faultless
  BY DEF Init, Faultless, Clean
<1> QED
  BY <1>2, <1>3, <1>4, <1>5, <1>8, <1>9, Zenon DEF IndInv

(* ... and every step keeps it. *)
LEMMA NextIndInv == IndInv /\ [Next]_vars => IndInv'
<1> SUFFICES ASSUME IndInv, [Next]_vars PROVE IndInv'
  OBVIOUS
<1>1. ASSUME NEW data \in Texts, Write(data) PROVE IndInv'
  <2>1. data \in Seq(Nat) /\ CaughtUp /\ p = << >> /\ BeginWrite(data) /\ by' = "app"
    BY <1>1, CallAssumption DEF Write, Call
  <2> QED
    BY <2>1, BeginWriteStep
<1>2. CASE WriteNext
  BY <1>2, WriteNextStep
<1>3. ASSUME NEW c \in Commands, SendCommand(c) PROVE IndInv'
  <2>1. c \in Verbs \X Nat
    BY CallAssumption
  <2>2. CaughtUp /\ p = << >> /\ PutCommand(c, next) /\ UNCHANGED <<p, by, zip, refVars>>
    BY <1>3 DEF SendCommand, Call, Keep
  <2> QED
    BY <2>1, <2>2, PutCommandStep
<1>4. ASSUME NEW s \in Subnegs, SendSubnegotiation(s) PROVE IndInv'
  <2>1. PICK o \in Nat, data \in Seq(Nat) : s = <<o, data>>
    BY CallAssumption
  <2>2. Len(data) <= Observed
    BY <2>1, CallAssumption
  <2>3. /\ CaughtUp /\ p = << >> /\ PutSubnegotiation(<<o, data>>, next)
        /\ UNCHANGED <<p, by, zip, refVars>>
    BY <1>4, <2>1 DEF SendSubnegotiation, Call, Keep
  <2> QED
    BY <2>2, <2>3, PutSubnegotiationStep
<1>5. CASE Flush \/ FlushNext
  BY <1>5, FlushStep
<1>6. CASE EnableMCCP2
  <2>1. <<CmdWill, OptMCCP2>> \in Verbs \X Nat
    BY CallAssumption DEF Verbs
  <2>2. /\ CaughtUp /\ p = << >> /\ PutCommand(<<CmdWill, OptMCCP2>>, "enable")
        /\ UNCHANGED <<p, by, zip, refVars>>
    BY <1>6 DEF EnableMCCP2, Call, Keep
  <2> QED
    BY <2>1, <2>2, PutCommandStep
<1>7. CASE StartCompression
  <2>1. OptMCCP2 \in Nat /\ << >> \in Seq(Nat) /\ Len(<< >>) <= Observed
    BY CallAssumption, EmptySeq
  <2>2. /\ CaughtUp /\ p = << >> /\ PutSubnegotiation(<<OptMCCP2, << >>>>, "start")
        /\ UNCHANGED <<p, by, zip, refVars>>
    BY <1>7 DEF StartCompression, Call, Keep
  <2> QED
    BY <2>1, <2>2, PutSubnegotiationStep
<1>8. ASSUME NEW call \in {"write", "flush", "close"}, CompressedCall(call) PROVE IndInv'
  <2>1. /\ UNCHANGED <<buf, cap, p, wire, sent, again, out, faults, by, zip, refVars>>
        /\ next' = call
    BY <1>8 DEF CompressedCall, Keep
  <2>2. Carries(<< >>) /\ CallsOK'
    BY <2>1, NothingCarries DEF IndInv, CallsOK
  <2> QED
    BY <2>1, <2>2, QuietStep
<1>9. ASSUME NEW data \in Zipped, ZipWrites(data) PROVE IndInv'
  <2>1. data \in Seq(Nat) /\ CaughtUp /\ p = << >> /\ BeginWrite(data) /\ by' = "zlib"
    BY <1>9, CallAssumption DEF ZipWrites, Call
  <2> QED
    BY <2>1, BeginWriteStep
<1>10. CASE CompressedReturn
  <2>1. /\ UNCHANGED <<buf, cap, p, by, wire, sent, again, out, faults, refVars>>
        /\ zip' \in {"plain", zip} /\ next' = "none"
    BY <1>10 DEF CompressedReturn
  <2>2. Carries(<< >>) /\ CallsOK'
    BY <2>1, NothingCarries DEF IndInv, CallsOK
  <2> QED
    BY <2>1, <2>2, QuietStep
<1>11. CASE PeerReads
  BY <1>11, PeerReadsStep
<1>12. CASE UNCHANGED vars
  <2>1. UNCHANGED <<buf, cap, p, by, zip, next, wire, sent, again, out, faults, refVars>>
    BY <1>12 DEF vars
  <2>2. Carries(<< >>) /\ CallsOK'
    BY <2>1, NothingCarries DEF IndInv, CallsOK
  <2> QED
    BY <2>1, <2>2, QuietStep
<1> QED
  BY <1>1, <1>2, <1>3, <1>4, <1>5, <1>6, <1>7, <1>8, <1>9, <1>10, <1>11, <1>12 DEF Next, MCCP

(* The invariant gives what the peer has, ... *)
LEMMA IndDelivered == IndInv => Delivered
<1> SUFFICES ASSUME IndInv, ~again
             PROVE  IsPrefix(text, out.text) /\ IsPrefix(cmds, out.cmds) /\ IsPrefix(subs, out.subs)
  BY Zenon DEF Delivered
<1>1. PICK e \in Decoder : Leads(Peer, Rest, e) /\ Final(e)
  BY Zenon DEF IndInv, Stream
<1>2. Rest \in Seq(Nat)
  BY RestTyped DEF IndInv
<1>3. Grown(Peer, e)
  BY <1>1, <1>2, LeadsGrows
<1>4. Peer.text = text /\ Peer.cmds = cmds /\ Peer.subs = subs
  BY DEF Peer
<1> QED
  BY <1>1, <1>3, <1>4 DEF Grown, Final

(* ... that nothing is missing, ... *)
LEMMA IndComplete == IndInv => Complete
<1> SUFFICES ASSUME IndInv, wire = << >>, buf = << >>, faults = 0
             PROVE  mode = "text" /\ text = out.text /\ cmds = out.cmds /\ subs = out.subs
  BY DEF Complete
<1>1. ~again /\ sent = 0
  BY Zenon DEF IndInv, Faultless, Clean
<1>2. Rest = << >>
  BY <1>1, RestCaughtUp DEF IndInv, CaughtUp
<1>3. PICK e \in Decoder : Leads(Peer, Rest, e) /\ Final(e)
  BY <1>1, Zenon DEF IndInv, Stream
<1>4. e = Peer
  BY <1>2, <1>3, LeadsStays
<1> QED
  BY <1>3, <1>4 DEF Peer, Final

(* A call moves the buffer only if it has no room for the bytes. *)
LEMMA EmitGrows ==
    ASSUME BufferOK, NEW full, NEW bytes \in Seq(Nat), Emit(full, bytes), cap' # cap
    PROVE  IF full THEN Len(bytes) > cap ELSE Len(buf) + Len(bytes) > cap
<1>1. CASE full
  <2>1. append(<< >>, bytes) /\ << >> \in Seq(Nat) /\ Len(<< >>) = 0
    BY <1>1, EmptySeq DEF Emit
  <2>2. Len(<< >>) + Len(bytes) > cap
    BY <2>1, AppendTyped
  <2>3. Len(bytes) \in Nat /\ 0 + Len(bytes) = Len(bytes)
    OBVIOUS
  <2> QED
    BY <1>1, <2>1, <2>2, <2>3
<1>2. CASE ~full
  <2>1. append(buf, bytes) /\ buf \in Seq(Nat)
    BY <1>2 DEF Emit, BufferOK
  <2>2. Len(buf) + Len(bytes) > cap
    BY <2>1, AppendTyped
  <2> QED
    BY <1>2, <2>2
<1> QED
  BY <1>1, <1>2

(* A command never does. *)
LEMMA CommandFits ==
    ASSUME IndInv, NEW v \in Verbs, NEW o \in Nat, NEW then, PutCommand(<<v, o>>, then)
    PROVE  cap' = cap
<1> DEFINE bytes == <<CmdIAC, v, o>>
           full == Len(buf) + 3 > cap
<1>1. bytes \in Seq(Nat) /\ Len(bytes) = 3
  BY DEF CmdIAC, Verbs, CmdWill, CmdWont, CmdDo, CmdDont
<1>2. BufferOK /\ cap \in Nat /\ cap >= 5 /\ Len(buf) \in Nat
  BY WriteAssumption DEF IndInv, BufferOK
<1>3. BuildCommand(3, v, o).bytes = bytes
  BY CommandBytes
<1>4. Emit(full, bytes) \/ FlushFails
  BY <1>3 DEF PutCommand
<1> HIDE DEF bytes
<1>5. CASE FlushFails
  BY <1>5 DEF FlushFails
<1>6. CASE Emit(full, bytes)
  <2>1. cap' # cap => IF full THEN Len(bytes) > cap ELSE Len(buf) + Len(bytes) > cap
    BY <1>1, <1>2, <1>6, EmitGrows
  <2> QED
    BY <1>1, <1>2, <2>1
<1> QED
  BY <1>4, <1>5, <1>6

(* A subnegotiation does if it is longer than the whole buffer. *)
LEMMA SubnegotiationGrows ==
    ASSUME IndInv, NEW o \in Nat, NEW data \in Seq(Nat), NEW then,
           PutSubnegotiation(<<o, data>>, then), cap' # cap
    PROVE  Required(<<o, data>>) > cap /\ Len(out'.subs) > Len(out.subs)
<1> DEFINE s == <<o, data>>
           bytes == <<CmdIAC, CmdSB, o>> \o EscapeIAC(data) \o <<CmdIAC, CmdSE>>
           full == Len(buf) + Required(s) > cap
<1>1. s[1] = o /\ s[2] = data /\ s \in Nat \X Seq(Nat)
  OBVIOUS
<1>2. /\ bytes \in Seq(Nat) /\ Len(bytes) = Required(s) /\ Required(s) \in Nat
      /\ BuildSubnegotiation(Required(s), o, data).bytes = bytes
  BY SubnegotiationBytes
<1>3. BufferOK /\ cap \in Nat /\ Len(buf) \in Nat
  BY DEF IndInv, BufferOK
<1>4. \/ Emit(full, bytes) /\ out' = [out EXCEPT !.subs = Append(@, s)]
      \/ FlushFails
  BY <1>1, <1>2 DEF PutSubnegotiation
<1> HIDE DEF bytes, s
<1>5. Emit(full, bytes) /\ out' = [out EXCEPT !.subs = Append(@, s)]
  BY <1>4 DEF FlushFails
<1>6. IF full THEN Len(bytes) > cap ELSE Len(buf) + Len(bytes) > cap
  BY <1>2, <1>3, <1>5, EmitGrows
<1>7. Required(s) > cap
  BY <1>2, <1>3, <1>6
<1>8. Len(out'.subs) > Len(out.subs)
  <2>1. out \in [text : Seq(Nat), cmds : Seq(Nat \X Nat), subs : Seq(Nat \X Seq(Nat))]
    BY DEF IndInv, OutOK
  <2>2. out'.subs = Append(out.subs, s)
    BY <1>5, <2>1
  <2>3. Len(Append(out.subs, s)) = Len(out.subs) + 1 /\ Len(out.subs) \in Nat
    BY <1>1, <2>1, AppendProperties
  <2> QED
    BY <2>2, <2>3
<1> QED
  BY <1>7, <1>8 DEF s

(* ... and when the buffer may grow. *)
LEMMA IndGrows ==
    ASSUME IndInv, Next, cap' # cap
    PROVE  \/ p # << >> /\ Head(p) = CmdIAC /\ Len(buf) = cap - 1
           \/ \E s \in Subnegs : Len(out'.subs) > Len(out.subs) /\ Required(s) > cap
<1>1. BufferOK /\ cap \in Nat /\ cap >= 5 /\ Len(buf) \in Nat /\ buf \in Seq(Nat)
  BY WriteAssumption DEF IndInv, BufferOK
<1>2. ASSUME NEW data \in Seq(Nat), BeginWrite(data) PROVE FALSE
  <2>1. append(buf, data) /\ Len(buf) + Len(data) <= cap
    BY <1>2 DEF BeginWrite
  <2>2. Len(buf) + Len(data) > cap
    BY <1>1, <2>1, AppendTyped
  <2>3. Len(data) \in Nat
    OBVIOUS
  <2> QED
    BY <1>1, <2>1, <2>2, <2>3
<1>3. CASE WriteNext
  <2> DEFINE full == Len(buf) >= cap
             b == Head(p)
  <2>1. p # << >> /\ (Emit(full, Escaped(b)) \/ FlushFails)
    BY <1>3 DEF WriteNext
  <2>2. Emit(full, Escaped(b))
    BY <2>1 DEF FlushFails
  <2>3. b \in Nat
    BY <2>1, HeadTailProperties DEF IndInv, CallsOK
  <2> HIDE DEF b
  <2>4. /\ Escaped(b) \in Seq(Nat) /\ Len(Escaped(b)) \in 1..2
        /\ Len(Escaped(b)) = 2 => b = CmdIAC
    BY <2>3 DEF Escaped, CmdIAC
  <2>5. IF full THEN Len(Escaped(b)) > cap ELSE Len(buf) + Len(Escaped(b)) > cap
    BY <1>1, <2>2, <2>4, EmitGrows
  <2>6. Len(Escaped(b)) = 2 /\ Len(buf) = cap - 1
    <3> DEFINE n == Len(Escaped(b))
               m == Len(buf)
    <3>1. n \in 1..2 /\ m \in Nat /\ cap \in Nat /\ cap >= 5
      BY <1>1, <2>4
    <3>2. IF m >= cap THEN n > cap ELSE m + n > cap
      BY <2>5
    <3> HIDE DEF n, m
    <3>3. n = 2 /\ m = cap - 1
      BY <3>1, <3>2
    <3> QED
      BY <3>3 DEF n, m
  <2> QED
    BY <2>1, <2>4, <2>6 DEF b
<1>4. ASSUME NEW c \in Commands, SendCommand(c) PROVE FALSE
  <2>1. PICK v \in Verbs, o \in Nat : c = <<v, o>>
    BY CallAssumption
  <2>2. PutCommand(<<v, o>>, next)
    BY <1>4, <2>1 DEF SendCommand
  <2> QED
    BY <2>2, CommandFits
<1>5. ASSUME NEW s \in Subnegs, SendSubnegotiation(s)
      PROVE  Len(out'.subs) > Len(out.subs) /\ Required(s) > cap
  <2>1. PICK o \in Nat, data \in Seq(Nat) : s = <<o, data>>
    BY CallAssumption
  <2>2. PutSubnegotiation(<<o, data>>, next)
    BY <1>5, <2>1 DEF SendSubnegotiation
  <2> QED
    BY <2>1, <2>2, SubnegotiationGrows
<1>6. CASE EnableMCCP2
  <2>1. CmdWill \in Verbs /\ OptMCCP2 \in Nat
    BY CallAssumption DEF Verbs
  <2>2. PutCommand(<<CmdWill, OptMCCP2>>, "enable")
    BY <1>6 DEF EnableMCCP2
  <2> QED
    BY <2>1, <2>2, CommandFits
<1>7. CASE StartCompression
  <2>1. OptMCCP2 \in Nat /\ << >> \in Seq(Nat)
    BY CallAssumption, EmptySeq
  <2>2. PutSubnegotiation(<<OptMCCP2, << >>>>, "start")
    BY <1>7 DEF StartCompression
  <2>3. Required(<<OptMCCP2, << >>>>) > cap
    BY <2>1, <2>2, SubnegotiationGrows
  <2>4. Required(<<OptMCCP2, << >>>>) = 5
    BY <2>1, SubnegotiationBytes
  <2> QED
    BY <1>1, <2>3, <2>4
<1>8. CASE Flush \/ FlushNext
  BY <1>8 DEF Flush, FlushNext, flushLocked, FlushFails
<1>9. CASE CompressedReturn \/ PeerReads
  BY <1>9 DEF CompressedReturn, PeerReads
<1>10. ASSUME NEW call, CompressedCall(call) PROVE FALSE
  BY <1>10 DEF CompressedCall
<1>11. ASSUME NEW data \in Texts, Write(data) PROVE FALSE
  BY <1>2, <1>11, CallAssumption DEF Write
<1>12. ASSUME NEW data \in Zipped, ZipWrites(data) PROVE FALSE
  BY <1>2, <1>12, CallAssumption DEF ZipWrites
<1> QED
  BY <1>3, <1>4, <1>5, <1>6, <1>7, <1>8, <1>9, <1>10, <1>11, <1>12 DEF Next, MCCP
----------------------------------------------------------------------------
(* IndInv is inductive. *)
THEOREM StreamInvariant == Spec => []IndInv
  BY InitIndInv, NextIndInv, PTL DEF Spec

(* What the peer decodes is a prefix of what Write, SendCommand and        *)
(* SendSubnegotiation have accepted, each kind in order, with the escaping *)
(* loop, the flushes in the middle of it, a zlib writer among the callers  *)
(* of Write and failing writes, as long as no bytes are flushed twice.     *)
THEOREM TextDelivered == Spec => []Delivered
  BY StreamInvariant, IndDelivered, PTL

(* Once all is flushed and read, and no write has failed, the peer has     *)
(* everything and is between two TELNET sequences.                         *)
THEOREM NothingMissing == Spec => []Complete
  BY StreamInvariant, IndComplete, PTL

(* The write buffer grows only for an IAC in its last byte and for a       *)
(* subnegotiation longer than all of it.                                   *)
THEOREM GrowthBounded == Spec => GrowsOnlyForEscapes
<1>1. IndInv /\ [Next]_vars
        => [cap' # cap => \/ p # << >> /\ Head(p) = CmdIAC /\ Len(buf) = cap - 1
                          \/ \E s \in Subnegs :
                                Len(out'.subs) > Len(out.subs) /\ Required(s) > cap]_vars
  BY IndGrows
<1> QED
  BY <1>1, StreamInvariant, PTL DEF Spec, GrowsOnlyForEscapes
============================================================================

-------------------------- MODULE ReadPathProofs ---------------------------
(***************************************************************************)
(* Proofs about ReadPath, for a ring, a readScratch and a ReadLine buffer  *)
(* of any size, a table of any number of data events and any chunks: text  *)
(* that is not lost is read in order, text within the table is lost only   *)
(* by a read that fills readScratch, and terminal size and type are the    *)
(* last ones received.                                                     *)
(***************************************************************************)
EXTENDS ReadPath, FlattenTheorems

(* An item of a chunk, or of what the table of data events leaves of one. *)
Item == Text \cup Subneg \cup {"cmd", "none"}
----------------------------------------------------------------------------
(* Sequences. *)

(* What is in front of the last part of a concatenation. *)
LEMMA FrontPart ==
    ASSUME NEW S, NEW c \in Seq(S), NEW r \in Seq(S), NEW s, s = c \o r
    PROVE  s \in Seq(S) /\ SubSeq(s, 1, Len(s) - Len(r)) = c
<1>1. s \in Seq(S) /\ Len(s) = Len(c) + Len(r) /\ Len(c) \in Nat /\ Len(r) \in Nat
      /\ \A k \in 1..Len(c) : s[k] = c[k]
  BY ConcatProperties
<1>2. Len(s) - Len(r) = Len(c)
  BY <1>1
<1> DEFINE n == Len(c)
           d == SubSeq(s, 1, n)
<1>3. d \in Seq(S) /\ Len(d) = n /\ \A k \in 1..n : d[k] = s[k]
  BY <1>1, SubSeqProperties
<1> HIDE DEF d, n
<1>4. d = c
  <2>1. Len(d) = Len(c) /\ \A k \in 1..Len(c) : d[k] = c[k]
    BY <1>1, <1>3 DEF n
  <2> QED
    BY <1>3, <2>1, SeqEqual
<1> QED
  BY <1>1, <1>2, <1>4 DEF d, n

(* A sequence is its first n elements and the others. *)
LEMMA CutAt ==
    ASSUME NEW S, NEW s \in Seq(S), NEW n \in 0..Len(s)
    PROVE  /\ SubSeq(s, 1, n) \in Seq(S) /\ Len(SubSeq(s, 1, n)) = n
           /\ SubSeq(s, n + 1, Len(s)) \in Seq(S) /\ Len(SubSeq(s, n + 1, Len(s))) = Len(s) - n
           /\ s = SubSeq(s, 1, n) \o SubSeq(s, n + 1, Len(s))
<1> DEFINE a == SubSeq(s, 1, n)
           b == SubSeq(s, n + 1, Len(s))
           t == a \o b
<1>0. n \in Nat /\ Len(s) \in Nat /\ n <= Len(s)
  OBVIOUS
<1>1. a \in Seq(S) /\ Len(a) = n /\ \A k \in 1..n : a[k] = s[k]
  BY <1>0, SubSeqProperties
<1>2. b \in Seq(S) /\ Len(b) = Len(s) - n /\ \A k \in 1..(Len(s) - n) : b[k] = s[n + k]
  BY <1>0, SubSeqProperties
<1> HIDE DEF a, b
<1>3. t \in Seq(S) /\ Len(t) = Len(s)
      /\ \A k \in 1..Len(t) : t[k] = IF k <= n THEN a[k] ELSE b[k - n]
  BY <1>0, <1>1, <1>2, ConcatProperties
<1> HIDE DEF t
<1>4. ASSUME NEW k \in 1..Len(s) PROVE t[k] = s[k]
  <2>1. CASE k <= n
    BY <1>0, <1>1, <1>3, <2>1
  <2>2. CASE ~(k <= n)
    <3>1. k - n \in 1..(Len(s) - n) /\ n + (k - n) = k
      BY <1>0, <2>2
    <3>2. b[k - n] = s[n + (k - n)]
      BY <1>2, <3>1
    <3> QED
      BY <1>3, <2>2, <3>1, <3>2
  <2> QED
    BY <2>1, <2>2
<1>5. t = s
  BY <1>3, <1>4, SeqEqual
<1> QED
  BY <1>1, <1>2, <1>5 DEF a, b, t

(* A sequence is its front and its last element. *)
LEMMA LastSplit ==
    ASSUME NEW S, NEW n \in Nat, NEW u \in Seq(S), Len(u) = n + 1
    PROVE  u = Append(SubSeq(u, 1, n), u[n + 1])
<1> DEFINE v == SubSeq(u, 1, n)
           w == Append(v, u[n + 1])
<1>1. v \in Seq(S) /\ Len(v) = n /\ \A k \in 1..n : v[k] = u[k]
  BY SubSeqProperties
<1>2. u[n + 1] \in S
  OBVIOUS
<1> HIDE DEF v
<1>3. w \in Seq(S) /\ Len(w) = n + 1 /\ (\A k \in 1..n : w[k] = v[k]) /\ w[n + 1] = u[n + 1]
  BY <1>1, <1>2, AppendProperties
<1> HIDE DEF w
<1>4. w = u
  BY <1>1, <1>3, SeqEqual
<1> QED
  BY <1>4 DEF v, w

(* Sequences of one element. *)
LEMMA OneElement ==
    ASSUME NEW S, NEW x \in S
    PROVE  /\ <<x>> \in Seq(S) /\ Len(<<x>>) = 1 /\ <<x>>[1] = x /\ <<x>> # << >>
           /\ SubSeq(<<x>>, 1, 1) = <<x>> /\ SubSeq(<<x>>, 1, 0) = << >>
<1> DEFINE s == <<x>>
           t == SubSeq(s, 1, 1)
<1>1. s \in Seq(S) /\ Len(s) = 1 /\ s[1] = x
  OBVIOUS
<1> HIDE DEF s
<1>2. t \in Seq(S) /\ Len(t) = 1 /\ t[1] = s[1]
  BY <1>1, SubSeqProperties
<1>3. SubSeq(s, 1, 0) = << >>
  BY <1>1, SubSeqProperties
<1> HIDE DEF t
<1>4. t = s
  <2>1. Len(t) = Len(s) /\ \A k \in 1..Len(t) : t[k] = s[k]
    BY <1>1, <1>2
  <2> QED
    BY <1>1, <1>2, <2>1, SeqEqual
<1>5. s # << >>
  <2> SUFFICES ASSUME s = << >> PROVE FALSE
    OBVIOUS
  <2>1. Len(s) = 0
    OBVIOUS
  <2> QED
    BY <1>1, <2>1
<1> QED
  BY <1>1, <1>3, <1>4, <1>5 DEF s, t

(* A sequence of length one. *)
LEMMA OnlyElement ==
    ASSUME NEW S, NEW s \in Seq(S), Len(s) = 1
    PROVE  s[1] \in S /\ s = <<s[1]>>
<1>1. s[1] \in S
  OBVIOUS
<1> DEFINE t == <<s[1]>>
<1>2. t \in Seq(S) /\ Len(t) = 1 /\ t[1] = s[1]
  BY <1>1, OneElement
<1> HIDE DEF t
<1>3. Len(s) = Len(t) /\ \A k \in 1..Len(s) : s[k] = t[k]
  BY <1>2
<1>4. s = t
  BY <1>2, <1>3, SeqEqual
<1> QED
  BY <1>1, <1>4 DEF t

(* Append is concatenation of one element. *)
LEMMA AppendConcat ==
    ASSUME NEW S, NEW s \in Seq(S), NEW x \in S
    PROVE  Append(s, x) = s \o <<x>> /\ <<x>> \in Seq(S)
OBVIOUS

(* Appending to the second part appends to the whole. *)
LEMMA ConcatAppend ==
    ASSUME NEW S, NEW s \in Seq(S), NEW v \in Seq(S), NEW x \in S
    PROVE  s \o Append(v, x) = Append(s \o v, x)
<1>1. Append(v, x) = v \o <<x>> /\ <<x>> \in Seq(S)
  BY AppendConcat
<1>2. s \o v \in Seq(S)
  BY ConcatProperties
<1>3. Append(s \o v, x) = (s \o v) \o <<x>>
  BY ONLY <1>2, x \in S, AppendConcat
<1>4. (s \o v) \o <<x>> = s \o (v \o <<x>>)
  BY ONLY <1>1, ConcatAssociative, s \in Seq(S), v \in Seq(S)
<1> QED
  BY <1>1, <1>3, <1>4
----------------------------------------------------------------------------
(* Only. *)

(* Nothing is kept of nothing. *)
LEMMA OnlyEmpty == ASSUME NEW T, NEW s, s = << >> PROVE Only(s, T) = << >>
<1>1. [k \in 1..Len(s) |-> IF s[k] \in T THEN <<s[k]>> ELSE << >>] = << >>
  OBVIOUS
<1> QED
  BY <1>1, FlattenEmpty DEF Only

(* One element is kept or dropped. *)
LEMMA KeptType ==
    ASSUME NEW S, NEW T, NEW c \in S
    PROVE  /\ (IF c \in T THEN <<c>> ELSE << >>) \in Seq(S \cap T)
           /\ Len(IF c \in T THEN <<c>> ELSE << >>) <= 1
<1>1. CASE c \in T
  <2>1. <<c>> \in Seq(S \cap T) /\ Len(<<c>>) = 1
    BY <1>1
  <2> QED
    BY <1>1, <2>1
<1>2. CASE c \notin T
  <2>1. << >> \in Seq(S \cap T) /\ Len(<< >>) = 0
    OBVIOUS
  <2> QED
    BY <1>2, <2>1
<1> QED
  BY <1>1, <1>2

(* The last element of a sequence is kept if it is in T. *)
LEMMA OnlyLast ==
    ASSUME NEW S, NEW T, NEW n \in Nat, NEW s \in Seq(S), Len(s) = n + 1
    PROVE  /\ Only(SubSeq(s, 1, n), T) \in Seq(S \cap T)
           /\ Only(s, T) = Only(SubSeq(s, 1, n), T) \o (IF s[n + 1] \in T THEN <<s[n + 1]>> ELSE << >>)
           /\ Only(s, T) \in Seq(S \cap T)
<1> DEFINE ss == [k \in 1..(n + 1) |-> IF s[k] \in T THEN <<s[k]>> ELSE << >>]
           f == SubSeq(s, 1, n)
           ff == [k \in 1..Len(f) |-> IF f[k] \in T THEN <<f[k]>> ELSE << >>]
<1>1. ss \in [1..(n + 1) -> Seq(S \cap T)]
  <2>1. ASSUME NEW k \in 1..(n + 1) PROVE ss[k] \in Seq(S \cap T)
    BY KeptType
  <2> QED
    BY <2>1
<1>2. Len(f) = n /\ \A k \in 1..n : f[k] = s[k]
  BY SubSeqProperties
<1>3. ff = [k \in 1..n |-> ss[k]]
  <2> HIDE DEF f
  <2> QED
    BY <1>2
<1>4. Only(s, T) = FlattenSeq(ss) /\ Only(f, T) = FlattenSeq(ff)
  <2> HIDE DEF f
  <2> QED
    BY DEF Only
<1>5. ss[n + 1] = IF s[n + 1] \in T THEN <<s[n + 1]>> ELSE << >>
  OBVIOUS
<1> HIDE DEF ss, f, ff
<1>6. /\ FlattenSeq(ff) \in Seq(S \cap T)
      /\ FlattenSeq(ss) = FlattenSeq(ff) \o ss[n + 1]
      /\ FlattenSeq(ss) \in Seq(S \cap T)
  BY <1>1, <1>3, FlattenLast
<1>7. /\ Only(f, T) \in Seq(S \cap T)
      /\ Only(s, T) = Only(f, T) \o (IF s[n + 1] \in T THEN <<s[n + 1]>> ELSE << >>)
      /\ Only(s, T) \in Seq(S \cap T)
  BY <1>4, <1>5, <1>6
<1> QED
  BY <1>7 DEF f

(* What is kept of one element. *)
LEMMA OnlyOne ==
    ASSUME NEW S, NEW T, NEW x \in S
    PROVE  Only(<<x>>, T) = IF x \in T THEN <<x>> ELSE << >>
<1> DEFINE s == <<x>>
           n == 0
           l == IF x \in T THEN <<x>> ELSE << >>
<1>1. s \in Seq(S) /\ Len(s) = n + 1 /\ n \in Nat /\ s[n + 1] = x /\ SubSeq(s, 1, n) = << >>
  BY OneElement
<1>2. l \in Seq(S \cap T)
  BY KeptType
<1>3. Only(<< >>, T) = << >>
  BY OnlyEmpty
<1> HIDE DEF s, n
<1>4. /\ Only(SubSeq(s, 1, n), T) \in Seq(S \cap T)
      /\ Only(s, T) = Only(SubSeq(s, 1, n), T) \o (IF s[n + 1] \in T THEN <<s[n + 1]>> ELSE << >>)
      /\ Only(s, T) \in Seq(S \cap T)
  BY ONLY <1>1, OnlyLast, Zenon
<1>5. Only(s, T) = << >> \o l
  BY <1>1, <1>3, <1>4
<1> HIDE DEF l
<1>6. Only(s, T) = l
  BY <1>2, <1>5, ConcatEmptySeq
<1> QED
  BY <1>6 DEF s, l

(* What is kept is a sequence of elements of T, no longer than s. *)
LEMMA OnlyBounded ==
    ASSUME NEW S, NEW T, NEW s \in Seq(S)
    PROVE  Only(s, T) \in Seq(S \cap T) /\ Len(Only(s, T)) <= Len(s)
<1> DEFINE Holds(u) == Only(u, T) \in Seq(S \cap T) /\ Len(Only(u, T)) <= Len(u)
           M == {n \in Nat : \A u \in Seq(S) : Len(u) = n => Holds(u)}
<1>1. 0 \in M
  <2> SUFFICES ASSUME NEW u \in Seq(S), Len(u) = 0 PROVE Holds(u)
    OBVIOUS
  <2>1. u = << >>
    OBVIOUS
  <2>2. Only(u, T) = << >>
    BY <2>1, OnlyEmpty
  <2> QED
    BY <2>2
<1>2. ASSUME NEW n \in Nat, n \in M PROVE n + 1 \in M
  <2> SUFFICES ASSUME NEW u \in Seq(S), Len(u) = n + 1 PROVE Holds(u)
    OBVIOUS
  <2> DEFINE f == SubSeq(u, 1, n)
             l == IF u[n + 1] \in T THEN <<u[n + 1]>> ELSE << >>
             o == Only(f, T)
  <2>1. f \in Seq(S) /\ Len(f) = n
    BY SubSeqProperties
  <2>2. Holds(f)
    BY <1>2, <2>1
  <2>3. o \in Seq(S \cap T) /\ Only(u, T) = o \o l /\ Only(u, T) \in Seq(S \cap T)
    <3>1. /\ Only(SubSeq(u, 1, n), T) \in Seq(S \cap T)
          /\ Only(u, T) = Only(SubSeq(u, 1, n), T) \o (IF u[n + 1] \in T THEN <<u[n + 1]>> ELSE << >>)
          /\ Only(u, T) \in Seq(S \cap T)
      BY ONLY OnlyLast, n \in Nat, u \in Seq(S), Len(u) = n + 1, Zenon
    <3> QED
      BY <3>1
  <2>4. l \in Seq(S \cap T) /\ Len(l) <= 1
    <3>1. u[n + 1] \in S
      OBVIOUS
    <3> QED
      BY ONLY <3>1, KeptType
  <2>5. Len(o) <= n
    BY <2>1, <2>2
  <2> HIDE DEF o, l
  <2>6. Len(Only(u, T)) = Len(o) + Len(l) /\ Len(o) \in Nat /\ Len(l) \in Nat
    BY <2>3, <2>4, ConcatProperties
  <2> QED
    BY <2>3, <2>4, <2>5, <2>6
<1>3. \A n \in Nat : n \in M
  <2> HIDE DEF M
  <2> QED
    BY <1>1, <1>2, NatSetInduction
<1>4. Len(s) \in Nat
  OBVIOUS
<1> QED
  BY <1>3, <1>4

(* Of a sequence in which elements of T are struck out no more is kept,    *)
(* and if as much is kept it is the same.                                  *)
StruckOut(v, u, T) == Len(v) = Len(u) /\ \A k \in 1..Len(u) : v[k] = u[k] \/ v[k] \notin T

LEMMA OnlyStruckOut ==
    ASSUME NEW S, NEW T, NEW s \in Seq(S), NEW t \in Seq(S), StruckOut(t, s, T)
    PROVE  /\ Len(Only(t, T)) <= Len(Only(s, T))
           /\ Len(Only(t, T)) = Len(Only(s, T)) => Only(t, T) = Only(s, T)
<1> DEFINE Holds(u, v) == /\ Len(Only(v, T)) <= Len(Only(u, T))
                          /\ Len(Only(v, T)) = Len(Only(u, T)) => Only(v, T) = Only(u, T)
           M == {n \in Nat : \A u, v \in Seq(S) : Len(u) = n /\ StruckOut(v, u, T) => Holds(u, v)}
<1>1. 0 \in M
  <2> SUFFICES ASSUME NEW u \in Seq(S), NEW v \in Seq(S), Len(u) = 0, StruckOut(v, u, T)
               PROVE  Holds(u, v)
    OBVIOUS
  <2>1. u = << >> /\ v = << >>
    BY DEF StruckOut
  <2>2. Only(u, T) = << >> /\ Only(v, T) = << >>
    BY <2>1, OnlyEmpty
  <2> QED
    BY <2>2
<1>2. ASSUME NEW n \in Nat, n \in M PROVE n + 1 \in M
  <2> SUFFICES ASSUME NEW u \in Seq(S), NEW v \in Seq(S), Len(u) = n + 1, StruckOut(v, u, T)
               PROVE  Holds(u, v)
    OBVIOUS
  <2> DEFINE fu == SubSeq(u, 1, n)
             fv == SubSeq(v, 1, n)
             lu == IF u[n + 1] \in T THEN <<u[n + 1]>> ELSE << >>
             lv == IF v[n + 1] \in T THEN <<v[n + 1]>> ELSE << >>
             ou == Only(fu, T)
             ov == Only(fv, T)
  <2>0. Len(v) = n + 1
    BY DEF StruckOut
  <2>1. /\ fu \in Seq(S) /\ Len(fu) = n /\ \A k \in 1..n : fu[k] = u[k]
        /\ fv \in Seq(S) /\ Len(fv) = n /\ \A k \in 1..n : fv[k] = v[k]
    BY <2>0, SubSeqProperties
  <2>2. Holds(fu, fv)
    <3>1. StruckOut(fv, fu, T)
      BY <2>1 DEF StruckOut
    <3> QED
      BY <1>2, <2>1, <3>1
  <2>3. ou \in Seq(S \cap T) /\ Only(u, T) = ou \o lu
    <3>1. /\ Only(SubSeq(u, 1, n), T) \in Seq(S \cap T)
          /\ Only(u, T) = Only(SubSeq(u, 1, n), T) \o (IF u[n + 1] \in T THEN <<u[n + 1]>> ELSE << >>)
          /\ Only(u, T) \in Seq(S \cap T)
      BY ONLY OnlyLast, n \in Nat, u \in Seq(S), Len(u) = n + 1, Zenon
    <3> QED
      BY <3>1
  <2>4. ov \in Seq(S \cap T) /\ Only(v, T) = ov \o lv
    <3>1. /\ Only(SubSeq(v, 1, n), T) \in Seq(S \cap T)
          /\ Only(v, T) = Only(SubSeq(v, 1, n), T) \o (IF v[n + 1] \in T THEN <<v[n + 1]>> ELSE << >>)
          /\ Only(v, T) \in Seq(S \cap T)
      BY ONLY OnlyLast, n \in Nat, v \in Seq(S), <2>0, Zenon
    <3> QED
      BY <3>1
  <2>5. /\ lu \in Seq(S \cap T) /\ lv \in Seq(S \cap T) /\ Len(lu) <= 1
        /\ lv = lu \/ lv = << >>
    <3>1. u[n + 1] \in S /\ v[n + 1] \in S /\ (v[n + 1] = u[n + 1] \/ v[n + 1] \notin T)
      BY <2>0 DEF StruckOut
    <3>2. lu \in Seq(S \cap T) /\ lv \in Seq(S \cap T) /\ Len(lu) <= 1
      BY ONLY <3>1, KeptType
    <3> QED
      BY <3>1, <3>2
  <2>6. Len(ov) <= Len(ou) /\ (Len(ov) = Len(ou) => ov = ou)
    BY <2>2
  <2> HIDE DEF ou, ov, lu, lv
  <2>7. /\ Len(Only(u, T)) = Len(ou) + Len(lu) /\ Len(ou) \in Nat /\ Len(lu) \in Nat
        /\ Len(Only(v, T)) = Len(ov) + Len(lv) /\ Len(ov) \in Nat /\ Len(lv) \in Nat
    BY <2>3, <2>4, <2>5, ConcatProperties
  <2>8. Len(lv) = Len(lu) \/ Len(lv) = 0
    BY <2>5
  <2>9. Len(lv) = Len(lu) => lv = lu
    <3> SUFFICES ASSUME lv = << >>, Len(lv) = Len(lu) PROVE lv = lu
      BY <2>5
    <3> QED
      BY <2>5, EmptySeq
  <2>10. Len(Only(v, T)) <= Len(Only(u, T))
    BY <2>6, <2>7, <2>8
  <2>11. ASSUME Len(Only(v, T)) = Len(Only(u, T)) PROVE Only(v, T) = Only(u, T)
    <3>1. Len(ov) = Len(ou) /\ Len(lv) = Len(lu)
      BY <2>6, <2>7, <2>8, <2>11
    <3> QED
      BY <2>3, <2>4, <2>6, <2>9, <3>1
  <2> QED
    BY <2>10, <2>11
<1>3. \A n \in Nat : n \in M
  <2> HIDE DEF M
  <2> QED
    BY <1>1, <1>2, NatSetInduction
<1>4. Len(s) \in Nat
  OBVIOUS
<1> QED
  BY <1>3, <1>4
----------------------------------------------------------------------------
(* Lines. *)

Scan  == [done : Seq(Seq(Text)), open : Seq(Text)]
Blank == [done |-> << >>, open |-> << >>]

(* A line without its CR is a line. *)
LEMMA NoCRType == ASSUME NEW l \in Seq(Text) PROVE NoCR(l) \in Seq(Text)
<1>1. CASE l # << >>
  <2>1. Len(l) - 1 \in 0..Len(l)
    BY <1>1
  <2>2. SubSeq(l, 1, Len(l) - 1) \in Seq(Text)
    BY <2>1, SubSeqProperties
  <2> QED
    BY <2>2 DEF NoCR, Front
<1>2. CASE l = << >>
  BY <1>2 DEF NoCR
<1> QED
  BY <1>1, <1>2

(* One byte of text takes a scan to a scan. *)
LEMMA AfterByteType ==
    ASSUME NEW a \in Scan, NEW c \in Text
    PROVE  AfterByte(a, c) \in Scan
<1>1. a.done \in Seq(Seq(Text)) /\ a.open \in Seq(Text) /\ NoCR(a.open) \in Seq(Text)
  BY NoCRType DEF Scan
<1>2. /\ Append(a.done, NoCR(a.open)) \in Seq(Seq(Text)) /\ Append(a.open, c) \in Seq(Text)
      /\ << >> \in Seq(Text)
  BY <1>1, AppendProperties
<1> QED
  BY <1>1, <1>2 DEF AfterByte, Scan

(* The recursion of Lines over the first n bytes of a text. *)
Scans(f, text, n) ==
    f = [k \in 0..n |-> IF k = 0 THEN Blank ELSE AfterByte(f[k - 1], text[k])]

(* It has a solution ... *)
LEMMA ScansExists ==
    ASSUME NEW text \in Seq(Text)
    PROVE  \E f \in [0..Len(text) -> Scan] : Scans(f, text, Len(text))
<1> DEFINE M == {n \in Nat : n <= Len(text) => \E f \in [0..n -> Scan] : Scans(f, text, n)}
<1>0. Blank \in Scan
  BY DEF Blank, Scan
<1>1. 0 \in M
  <2> DEFINE f == [k \in 0..0 |-> Blank]
  <2>1. f \in [0..0 -> Scan] /\ Scans(f, text, 0)
    BY <1>0 DEF Scans
  <2> QED
    BY <2>1
<1>2. ASSUME NEW n \in Nat, n \in M PROVE n + 1 \in M
  <2> SUFFICES ASSUME n + 1 <= Len(text)
               PROVE  \E h \in [0..(n + 1) -> Scan] : Scans(h, text, n + 1)
    OBVIOUS
  <2>1. PICK f \in [0..n -> Scan] : Scans(f, text, n)
    BY <1>2
  <2> DEFINE last == AfterByte(f[n], text[n + 1])
             h == [k \in 0..(n + 1) |-> IF k = n + 1 THEN last ELSE f[k]]
  <2>2. last \in Scan
    <3>1. f[n] \in Scan /\ text[n + 1] \in Text
      OBVIOUS
    <3> QED
      BY <3>1, AfterByteType
  <2> HIDE DEF last
  <2>3. h \in [0..(n + 1) -> Scan]
    BY <2>2
  <2>4. ASSUME NEW k \in 0..(n + 1)
        PROVE  h[k] = IF k = 0 THEN Blank ELSE AfterByte(h[k - 1], text[k])
    <3>1. CASE k = n + 1
      <4>1. k # 0 /\ k - 1 = n /\ n \in 0..(n + 1) /\ n # n + 1 /\ h[n] = f[n] /\ h[k] = last
        BY <3>1
      <4> QED
        BY <3>1, <4>1 DEF last
    <3>2. CASE k # n + 1
      <4>1. k \in 0..n /\ h[k] = f[k] /\ (k # 0 => k - 1 \in 0..n /\ h[k - 1] = f[k - 1])
        BY <3>2
      <4>2. f[k] = IF k = 0 THEN Blank ELSE AfterByte(f[k - 1], text[k])
        BY <2>1, <4>1 DEF Scans
      <4> QED
        BY <4>1, <4>2
    <3> QED
      BY <3>1, <3>2
  <2>5. Scans(h, text, n + 1)
    <3> HIDE DEF h
    <3> QED
      BY <2>3, <2>4 DEF Scans
  <2> QED
    BY <2>3, <2>5
<1>3. \A n \in Nat : n \in M
  <2> HIDE DEF M
  <2> QED
    BY <1>1, <1>2, NatSetInduction
<1> QED
  BY <1>3

(* ... and it depends on the bytes read alone. *)
LEMMA ScansAgree ==
    ASSUME NEW s, NEW t, NEW n \in Nat, NEW m \in Nat, NEW f, NEW g,
           Scans(f, s, n), Scans(g, t, m), n <= m, \A k \in 1..n : s[k] = t[k]
    PROVE  f[n] = g[n]
<1> DEFINE M == {k \in Nat : k <= n => f[k] = g[k]}
<1>1. 0 \in M
  BY DEF Scans
<1>2. ASSUME NEW k \in Nat, k \in M PROVE k + 1 \in M
  <2> SUFFICES ASSUME k + 1 <= n PROVE f[k + 1] = g[k + 1]
    OBVIOUS
  <2>1. k + 1 \in 0..n /\ k + 1 \in 0..m /\ k + 1 \in 1..n /\ k + 1 # 0 /\ (k + 1) - 1 = k /\ k <= n
    OBVIOUS
  <2>2. f[k + 1] = AfterByte(f[k], s[k + 1]) /\ g[k + 1] = AfterByte(g[k], t[k + 1])
    BY <2>1 DEF Scans
  <2> QED
    BY <1>2, <2>1, <2>2
<1>3. \A k \in Nat : k \in M
  <2> HIDE DEF M
  <2> QED
    BY <1>1, <1>2, NatSetInduction
<1> QED
  BY <1>3

(* Lines is the last value of that recursion. *)
LEMMA LinesIs ==
    ASSUME NEW text \in Seq(Text)
    PROVE  \E f \in [0..Len(text) -> Scan] : Scans(f, text, Len(text)) /\ Lines(text) = f[Len(text)]
<1> DEFINE n == Len(text)
           g == CHOOSE f : f = [k \in 0..n |-> IF k = 0 THEN Blank ELSE AfterByte(f[k - 1], text[k])]
<1>1. PICK f \in [0..n -> Scan] : Scans(f, text, n)
  BY ScansExists
<1>2. Scans(g, text, n)
  <2>1. \E h : h = [k \in 0..n |-> IF k = 0 THEN Blank ELSE AfterByte(h[k - 1], text[k])]
    BY <1>1 DEF Scans
  <2> HIDE DEF n
  <2> QED
    BY <2>1, Zenon DEF Scans
<1>3. Lines(text) = g[n]
  BY DEF Lines, Blank
<1>4. f[n] = g[n]
  <2>1. n \in Nat
    OBVIOUS
  <2> HIDE DEF n, g
  <2> QED
    BY <1>1, <1>2, <2>1, ScansAgree
<1> QED
  BY <1>1, <1>3, <1>4

(* No bytes, no lines. *)
LEMMA LinesEmpty == Lines(<< >>) = Blank
<1>1. << >> \in Seq(Text) /\ Len(<< >>) = 0
  OBVIOUS
<1>2. PICK f \in [0..0 -> Scan] : Scans(f, << >>, 0) /\ Lines(<< >>) = f[0]
  BY <1>1, LinesIs
<1> QED
  BY <1>2 DEF Scans

(* One byte more. *)
LEMMA LinesLast ==
    ASSUME NEW n \in Nat, NEW t \in Seq(Text), Len(t) = n + 1
    PROVE  Lines(t) = AfterByte(Lines(SubSeq(t, 1, n)), t[n + 1])
<1> DEFINE s == SubSeq(t, 1, n)
<1>1. s \in Seq(Text) /\ Len(s) = n /\ \A k \in 1..n : s[k] = t[k]
  BY SubSeqProperties
<1> HIDE DEF s
<1>2. PICK f \in [0..n -> Scan] : Scans(f, s, n) /\ Lines(s) = f[n]
  BY <1>1, LinesIs
<1>3. PICK g \in [0..(n + 1) -> Scan] : Scans(g, t, n + 1) /\ Lines(t) = g[n + 1]
  BY LinesIs
<1>4. f[n] = g[n]
  <2>1. n + 1 \in Nat /\ n <= n + 1
    OBVIOUS
  <2> QED
    BY <1>1, <1>2, <1>3, <2>1, ScansAgree, SMTT(30)
<1>5. g[n + 1] = AfterByte(g[n], t[n + 1])
  <2>1. n + 1 \in 0..(n + 1) /\ n + 1 # 0 /\ (n + 1) - 1 = n
    OBVIOUS
  <2> QED
    BY <1>3, <2>1 DEF Scans
<1> QED
  BY <1>2, <1>3, <1>4, <1>5 DEF s

(* The lines of a text are complete lines and an open one. *)
LEMMA LinesType == ASSUME NEW text \in Seq(Text) PROVE Lines(text) \in Scan
<1>1. PICK f \in [0..Len(text) -> Scan] : Lines(text) = f[Len(text)]
  BY LinesIs
<1>2. Len(text) \in 0..Len(text)
  OBVIOUS
<1> QED
  BY <1>1, <1>2

(* The same, for a text in two parts. *)
LEMMA LinesAppend ==
    ASSUME NEW c \in Seq(Text), NEW v \in Seq(Text), NEW x \in Text
    PROVE  Lines(c \o Append(v, x)) = AfterByte(Lines(c \o v), x)
<1> DEFINE s == c \o v
           t == Append(s, x)
           n == Len(s)
<1>1. s \in Seq(Text)
  BY ConcatProperties
<1>2. c \o Append(v, x) = t
  BY ConcatAppend
<1> HIDE DEF s
<1>3. t \in Seq(Text) /\ Len(t) = n + 1 /\ t[n + 1] = x /\ n \in Nat
  BY <1>1, AppendProperties
<1>4. SubSeq(t, 1, n) = s
  <2>1. t = s \o <<x>> /\ <<x>> \in Seq(Text) /\ Len(<<x>>) = 1 /\ Len(t) - 1 = n
    BY <1>1, <1>3
  <2> HIDE DEF t, n
  <2>2. SubSeq(t, 1, Len(t) - Len(<<x>>)) = s
    BY ONLY <1>1, <2>1, FrontPart
  <2> QED
    BY <2>1, <2>2
<1> HIDE DEF t, n
<1>5. Lines(t) = AfterByte(Lines(SubSeq(t, 1, n)), t[n + 1])
  BY <1>3, LinesLast
<1> QED
  BY <1>2, <1>3, <1>4, <1>5 DEF s

(* More text without a line end makes the open line longer. *)
LEMMA LinesOpen ==
    ASSUME NEW c \in Seq(Text), NEW b \in Seq(Text), \A k \in 1..Len(b) : b[k] # "LF"
    PROVE  Lines(c \o b).done = Lines(c).done /\ Lines(c \o b).open = Lines(c).open \o b
<1> DEFINE Holds(u) == Lines(c \o u).done = Lines(c).done /\ Lines(c \o u).open = Lines(c).open \o u
           M == {n \in Nat : \A u \in Seq(Text) :
                    Len(u) = n /\ (\A k \in 1..Len(u) : u[k] # "LF") => Holds(u)}
<1>0. Lines(c).open \in Seq(Text)
  BY LinesType DEF Scan
<1>1. 0 \in M
  <2> SUFFICES ASSUME NEW u \in Seq(Text), Len(u) = 0 PROVE Holds(u)
    OBVIOUS
  <2>1. u = << >>
    OBVIOUS
  <2>2. c \o u = c /\ Lines(c).open \o u = Lines(c).open
    BY <1>0, <2>1, ConcatEmptySeq
  <2> QED
    BY <2>2
<1>2. ASSUME NEW n \in Nat, n \in M PROVE n + 1 \in M
  <2> SUFFICES ASSUME NEW u \in Seq(Text), Len(u) = n + 1, \A k \in 1..Len(u) : u[k] # "LF"
               PROVE  Holds(u)
    OBVIOUS
  <2> DEFINE v == SubSeq(u, 1, n)
             x == u[n + 1]
  <2>1. v \in Seq(Text) /\ Len(v) = n /\ (\A k \in 1..Len(v) : v[k] # "LF")
        /\ x \in Text /\ x # "LF" /\ u = Append(v, x)
    <3>1. v \in Seq(Text) /\ Len(v) = n /\ \A k \in 1..n : v[k] = u[k]
      BY SubSeqProperties
    <3>2. x \in Text /\ x # "LF"
      OBVIOUS
    <3>3. u = Append(v, x)
      BY LastSplit
    <3> QED
      BY <3>1, <3>2, <3>3
  <2> HIDE DEF v, x
  <2>2. Holds(v)
    BY <1>2, <2>1
  <2>3. Lines(c \o u) = AfterByte(Lines(c \o v), x)
    BY <2>1, LinesAppend
  <2>4. Lines(c \o u).done = Lines(c \o v).done /\ Lines(c \o u).open = Append(Lines(c \o v).open, x)
    BY <2>1, <2>3 DEF AfterByte
  <2>5. Lines(c).open \o u = Append(Lines(c).open \o v, x)
    <3> DEFINE o == Lines(c).open
    <3>1. o \in Seq(Text)
      BY <1>0
    <3> HIDE DEF o
    <3>2. o \o Append(v, x) = Append(o \o v, x)
      BY ONLY <2>1, <3>1, ConcatAppend
    <3> QED
      BY ONLY <2>1, <3>2 DEF o
  <2> QED
    BY <2>2, <2>4, <2>5
<1>3. \A n \in Nat : n \in M
  <2> HIDE DEF M
  <2> QED
    BY <1>1, <1>2, NatSetInduction
<1>4. Len(b) \in Nat
  OBVIOUS
<1> QED
  BY <1>3, <1>4

(* More text leaves the lines that are complete. *)
LEMMA LinesPrefix ==
    ASSUME NEW c \in Seq(Text), NEW b \in Seq(Text)
    PROVE  IsPrefix(Lines(c).done, Lines(c \o b).done)
<1> DEFINE M == {n \in Nat : \A u \in Seq(Text) :
                    Len(u) = n => IsPrefix(Lines(c).done, Lines(c \o u).done)}
<1>0. Lines(c).done \in Seq(Seq(Text))
  BY LinesType DEF Scan
<1>1. 0 \in M
  <2> SUFFICES ASSUME NEW u \in Seq(Text), Len(u) = 0
               PROVE  IsPrefix(Lines(c).done, Lines(c \o u).done)
    OBVIOUS
  <2>1. c \o u = c
    <3>1. u = << >>
      OBVIOUS
    <3> QED
      BY <3>1, ConcatEmptySeq
  <2> QED
    BY <1>0, <2>1, PrefixSelf
<1>2. ASSUME NEW n \in Nat, n \in M PROVE n + 1 \in M
  <2> SUFFICES ASSUME NEW u \in Seq(Text), Len(u) = n + 1
               PROVE  IsPrefix(Lines(c).done, Lines(c \o u).done)
    OBVIOUS
  <2> DEFINE v == SubSeq(u, 1, n)
             x == u[n + 1]
             a == Lines(c \o v)
             z == IF x = "LF" THEN <<NoCR(a.open)>> ELSE << >>
  <2>1. v \in Seq(Text) /\ Len(v) = n /\ x \in Text /\ u = Append(v, x)
    <3>1. v \in Seq(Text) /\ Len(v) = n
      BY SubSeqProperties
    <3> QED
      BY <3>1, LastSplit
  <2> HIDE DEF v, x
  <2>2. Lines(c \o u) = AfterByte(a, x)
    BY <2>1, LinesAppend
  <2>3. a \in Scan
    <3>1. c \o v \in Seq(Text)
      BY <2>1, ConcatProperties
    <3> QED
      BY <3>1, LinesType
  <2>4. IsPrefix(Lines(c).done, a.done)
    BY <1>2, <2>1
  <2> HIDE DEF a
  <2>5. a.done \in Seq(Seq(Text)) /\ z \in Seq(Seq(Text)) /\ Lines(c \o u).done = a.done \o z
    <3>1. a.done \in Seq(Seq(Text)) /\ NoCR(a.open) \in Seq(Text)
      BY <2>3, NoCRType DEF Scan
    <3>2. CASE x = "LF"
      <4>1. Lines(c \o u).done = Append(a.done, NoCR(a.open))
        BY <2>2, <3>2 DEF AfterByte
      <4>2. Append(a.done, NoCR(a.open)) = a.done \o <<NoCR(a.open)>> /\ <<NoCR(a.open)>> \in Seq(Seq(Text))
        BY ONLY <3>1, AppendConcat
      <4> QED
        BY <3>1, <3>2, <4>1, <4>2
    <3>3. CASE x # "LF"
      <4>1. Lines(c \o u).done = a.done
        BY <2>2, <3>3 DEF AfterByte
      <4> QED
        BY <3>1, <3>3, <4>1, ConcatEmptySeq
    <3> QED
      BY <3>2, <3>3
  <2> HIDE DEF z
  <2> QED
    BY <1>0, <2>4, <2>5, PrefixLonger
<1>3. \A n \in Nat : n \in M
  <2> HIDE DEF M
  <2> QED
    BY <1>1, <1>2, NatSetInduction
<1>4. Len(b) \in Nat
  OBVIOUS
<1> QED
  BY <1>3, <1>4
----------------------------------------------------------------------------
(* The ring. *)

(* Min as the code computes it. *)
LEMMA MinOfTwo ==
    ASSUME NEW a \in Int, NEW b \in Int
    PROVE  Min({a, b}) = IF a <= b THEN a ELSE b
<1> DEFINE m == IF a <= b THEN a ELSE b
<1>1. m \in {a, b} /\ \A y \in {a, b} : m <= y
  OBVIOUS
<1>2. \A x \in {a, b} : (\A y \in {a, b} : x <= y) => x = m
  OBVIOUS
<1> QED
  BY <1>1, <1>2 DEF Min

(* And Max. *)
LEMMA MaxOfTwo ==
    ASSUME NEW a \in Int, NEW b \in Int
    PROVE  Max({a, b}) = IF a >= b THEN a ELSE b
<1> DEFINE m == IF a >= b THEN a ELSE b
<1>1. m \in {a, b} /\ \A y \in {a, b} : m >= y
  OBVIOUS
<1>2. \A x \in {a, b} : (\A y \in {a, b} : x >= y) => x = m
  OBVIOUS
<1> QED
  BY <1>1, <1>2 DEF Max

(* A write stores what there is room for. *)
LEMMA RingWriteStores ==
    ASSUME NEW r \in Seq(Text), NEW s \in Seq(Text), Len(r) <= RingCap
    PROVE  /\ RingWrite(r, s) \in Seq(Text) /\ Len(RingWrite(r, s)) <= RingCap
           /\ Len(RingWrite(r, s)) = IF Len(s) <= RingCap - Len(r) THEN Len(r) + Len(s) ELSE RingCap
           /\ Len(s) <= RingCap - Len(r) => RingWrite(r, s) = r \o s
<1> DEFINE free == RingCap - Len(r)
           m == Min({Len(s), free})
           b == SubSeq(s, 1, m)
<1>1. RingCap \in Nat /\ Len(r) \in Nat /\ Len(s) \in Nat /\ free \in Nat
  BY ReadAssumption
<1>2. m = IF Len(s) <= free THEN Len(s) ELSE free
  BY <1>1, MinOfTwo
<1> HIDE DEF m
<1>3. m \in 0..Len(s)
  BY <1>1, <1>2
<1>4. b \in Seq(Text) /\ Len(b) = m
  BY <1>3, CutAt
<1>5. Len(s) <= free => b = s
  <2> SUFFICES ASSUME Len(s) <= free PROVE b = s
    OBVIOUS
  <2>1. m = Len(s) /\ Len(b) = Len(s) /\ \A k \in 1..Len(s) : b[k] = s[k]
    BY <1>2, <1>4, SubSeqProperties
  <2> HIDE DEF b
  <2> QED
    BY <1>4, <2>1, SeqEqual
<1> HIDE DEF b
<1>6. RingWrite(r, s) = r \o b
  BY DEF RingWrite, b, m
<1>7. r \o b \in Seq(Text) /\ Len(r \o b) = Len(r) + m
  BY <1>4, ConcatProperties
<1> QED
  BY <1>1, <1>2, <1>5, <1>6, <1>7

(* The text of a chunk fits readScratch. *)
LEMMA TextFits ==
    ASSUME NEW chunk \in Chunks
    PROVE  Only(chunk, Text) \in Seq(Text) /\ Len(Only(chunk, Text)) <= ScratchLen
<1>1. chunk \in Seq(Item) /\ Len(chunk) <= ScratchLen /\ Len(chunk) \in Nat /\ ScratchLen \in Nat
  BY ReadAssumption DEF Item
<1>2. Only(chunk, Text) \in Seq(Item \cap Text) /\ Len(Only(chunk, Text)) <= Len(chunk)
  BY <1>1, OnlyBounded
<1>3. Item \cap Text = Text
  BY DEF Item
<1>4. Only(chunk, Text) \in Seq(Text)
  BY <1>2, <1>3
<1>5. Len(Only(chunk, Text)) \in Nat
  BY <1>4
<1> QED
  BY <1>1, <1>2, <1>4, <1>5

(* So does what the table leaves of it; if that is as long it is the same. *)
LEMMA KeptFits ==
    ASSUME NEW chunk \in Chunks
    PROVE  /\ Only(Tabled(chunk), Text) \in Seq(Text)
           /\ Len(Only(Tabled(chunk), Text)) <= Len(Only(chunk, Text))
           /\ Len(Only(Tabled(chunk), Text)) = Len(Only(chunk, Text))
                 => Only(Tabled(chunk), Text) = Only(chunk, Text)
<1>1. chunk \in Seq(Item)
  BY ReadAssumption DEF Item
<1>2. Tabled(chunk) \in Seq(Item) /\ StruckOut(Tabled(chunk), chunk, Text)
  <2> DEFINE t == [k \in 1..Len(chunk) |->
                     IF chunk[k] \in Text /\ Pieces(chunk, k) > MaxPieces THEN "none" ELSE chunk[k]]
  <2>1. \A k \in 1..Len(chunk) : t[k] \in Item /\ (t[k] = chunk[k] \/ t[k] = "none")
    BY <1>1 DEF Item
  <2>2. Len(chunk) \in Nat /\ t \in [1..Len(chunk) -> Item]
    BY <1>1, <2>1
  <2>3. t \in Seq(Item) /\ Len(t) = Len(chunk)
    BY <2>2
  <2>4. "none" \notin Text
    BY DEF Text, Letters
  <2>5. t = Tabled(chunk)
    BY DEF Tabled
  <2> QED
    BY <2>1, <2>3, <2>4, <2>5 DEF StruckOut
<1>3. Only(Tabled(chunk), Text) \in Seq(Item \cap Text)
  BY <1>2, OnlyBounded
<1>4. Item \cap Text = Text
  BY DEF Item
<1> QED
  BY <1>1, <1>2, <1>3, <1>4, OnlyStruckOut
----------------------------------------------------------------------------
(* Losses. *)

Losses == lost \in Nat /\ full \in Nat /\ dropped \in Nat /\ LossBounded

(* A read of the socket keeps the losses bounded. *)
LEMMA LossesReceive ==
    ASSUME Losses, NEW chunk \in Chunks, Receive(chunk) PROVE Losses'
<1> DEFINE text == Only(chunk, Text)
           kept == Only(Tabled(chunk), Text)
<1>1. /\ ring = << >> /\ ring' = RingWrite(ring, kept)
      /\ lost' = lost + Len(text) - Len(ring')
      /\ dropped' = dropped + Len(text) - Len(kept)
      /\ full' = IF Len(kept) = ScratchLen THEN full + 1 ELSE full
  BY DEF Receive
<1>2. /\ text \in Seq(Text) /\ Len(text) <= ScratchLen /\ Len(text) \in Nat
      /\ kept \in Seq(Text) /\ Len(kept) <= Len(text) /\ Len(kept) \in Nat
  BY TextFits, KeptFits
<1> HIDE DEF text, kept
<1>3. ring \in Seq(Text) /\ Len(ring) = 0
  BY <1>1
<1>4. RingCap \in Nat /\ ScratchLen \in Nat /\ ScratchLen <= RingCap + 1
  BY ReadAssumption
<1>5. Len(ring') = IF Len(kept) <= RingCap THEN Len(kept) ELSE RingCap
  <2>1. Len(ring) <= RingCap /\ RingCap - Len(ring) = RingCap /\ Len(ring) + Len(kept) = Len(kept)
    BY <1>2, <1>3, <1>4
  <2>2. Len(RingWrite(ring, kept)) =
            IF Len(kept) <= RingCap - Len(ring) THEN Len(ring) + Len(kept) ELSE RingCap
    BY <1>2, <1>3, <2>1, RingWriteStores
  <2> QED
    BY <1>1, <2>1, <2>2
<1> QED
  BY <1>1, <1>2, <1>4, <1>5 DEF Losses, LossBounded

(* Of the text the table of data events holds only a read that fills       *)
(* readScratch with it loses a byte, and it loses one: the array of the    *)
(* ring is as long as readScratch at most, and the ring is empty when      *)
(* readLocked reads.                                                       *)
THEOREM LossesBounded == Spec => []LossBounded
<1>1. Init => Losses
  BY DEF Init, Losses, LossBounded
<1>2. Losses /\ [Next]_vars => Losses'
  <2> SUFFICES ASSUME Losses, [Next]_vars PROVE Losses'
    OBVIOUS
  <2>1. ASSUME NEW chunk \in Chunks, Receive(chunk) PROVE Losses'
    BY <2>1, LossesReceive
  <2>2. (lost' = lost /\ full' = full /\ dropped' = dropped) => Losses'
    BY DEF Losses, LossBounded
  <2>3. CASE handleSubnegotiation
    BY <2>2, <2>3 DEF handleSubnegotiation, HandleTType, HandleShort, StoreWidth, StoreHeight, histVars
  <2>4. ASSUME NEW n \in 1..RingCap, Read(n) PROVE Losses'
    BY <2>2, <2>4 DEF Read, histVars
  <2>5. CASE ReadLine
    BY <2>2, <2>5 DEF ReadLine, histVars
  <2>6. CASE LineStep
    BY <2>2, <2>6 DEF LineStep
  <2>7. CASE LineError
    BY <2>2, <2>7 DEF LineError, histVars
  <2>8. CASE TerminalSize
    BY <2>2, <2>8 DEF TerminalSize, LoadWidth, LoadHeight, histVars
  <2>9. CASE UNCHANGED vars
    BY <2>2, <2>9 DEF vars, histVars
  <2> QED
    BY <2>1, <2>3, <2>4, <2>5, <2>6, <2>7, <2>8, <2>9 DEF Next
<1>3. Losses => LossBounded
  BY DEF Losses
<1> QED
  BY <1>1, <1>2, <1>3, PTL DEF Spec
----------------------------------------------------------------------------
(* The terminal. *)

(* Of one subnegotiation, the event holds the payload itself. *)
LEMMA OneEvent ==
    ASSUME NEW x \in Subneg, sizes \in Nat, types \in Nat
    PROVE  /\ Sizes(<<x>>) = IF x \in {"naws", "wide"} THEN 1 ELSE 0
           /\ Types(<<x>>) = IF x = "ttype" THEN 1 ELSE 0
           /\ Len(Events(<<x>>)) = 1
           /\ Events(<<x>>)[1] = [option |-> IF x = "ttype" THEN "ttype" ELSE "naws",
                                  data   |-> Payload(x, Number(<<x>>))]
           /\ Number(<<x>>) = IF x = "ttype" THEN types + 1 ELSE sizes + Sizes(<<x>>)
<1> DEFINE items == <<x>>
           bytes == [e \in 1..Len(items) |-> Payload(items[e], Number(SubSeq(items, 1, e)))]
           Seen(e) == [j \in 1..Len(bytes[e]) |->
                          bytes[Max({f \in 1..Len(items) : j <= Len(bytes[f])})][j]]
           p == Payload(x, Number(<<x>>))
<1>1. Len(items) = 1 /\ items[1] = x /\ SubSeq(items, 1, 1) = items /\ items \in Seq(Subneg)
      /\ SubSeq(items, 1, 0) = << >>
  BY OneElement
<1>2. /\ Sizes(items) = IF x \in {"naws", "wide"} THEN 1 ELSE 0
      /\ Types(items) = IF x = "ttype" THEN 1 ELSE 0
  <2>1. /\ Only(items, {"naws", "wide"}) = IF x \in {"naws", "wide"} THEN <<x>> ELSE << >>
        /\ Only(items, {"ttype"}) = IF x \in {"ttype"} THEN <<x>> ELSE << >>
    BY OnlyOne
  <2>2. Len(<<x>>) = 1 /\ Len(<< >>) = 0
    OBVIOUS
  <2> QED
    BY <2>1, <2>2 DEF Sizes, Types
<1>8. Number(items) = IF x = "ttype" THEN types + 1 ELSE sizes + Sizes(items)
  BY <1>1, <1>2 DEF Number, Last
<1>9. Number(items) \in Nat
  BY <1>2, <1>8
<1>3. p \in Seq(Nat)
  BY <1>9 DEF Payload, Subneg
<1>4. Events(items) = [e \in 1..Len(items) |-> [option |-> IF items[e] = "ttype" THEN "ttype" ELSE "naws",
                                                data   |-> Seen(e)]]
  BY DEF Events
<1> HIDE DEF items
<1>5. bytes[1] = p
  <2>1. bytes[1] = Payload(items[1], Number(SubSeq(items, 1, 1)))
    BY <1>1
  <2> QED
    BY <1>1, <2>1 DEF items
<1> HIDE DEF bytes, p
<1>6. ASSUME NEW j \in 1..Len(p) PROVE Max({f \in 1..Len(items) : j <= Len(bytes[f])}) = 1
  <2>1. {f \in 1..Len(items) : j <= Len(bytes[f])} = {1}
    BY <1>1, <1>3, <1>5
  <2>2. Max({1}) = 1
    BY DEF Max
  <2> QED
    BY <2>1, <2>2
<1>7. Seen(1) = p
  <2>1. Seen(1) = [j \in 1..Len(p) |-> p[j]]
    BY <1>5, <1>6
  <2> QED
    BY <1>3, <2>1
<1> HIDE DEF Seen
<1> QED
  BY <1>1, <1>2, <1>4, <1>7, <1>8 DEF items, p

(* The terminal type, when n of them have been received. *)
TypeName(n) == IF n = 0 THEN << >> ELSE <<n>>

(* What is left to do of a chunk with one subnegotiation. *)
Pending ==
    /\ subs = << >> => ~half /\ termWidth = sizes /\ termHeight = sizes /\ termType = TypeName(types)
    /\ subs # << >> =>
        /\ Len(subs) = 1
        /\ \/ /\ subs[1] = [option |-> "ttype", data |-> <<0, types>>] /\ types # 0
              /\ ~half /\ termWidth = sizes /\ termHeight = sizes
           \/ /\ subs[1] = [option |-> "naws", data |-> <<0>>] /\ termType = TypeName(types)
              /\ ~half /\ termWidth = sizes /\ termHeight = sizes
           \/ /\ subs[1] = [option |-> "naws", data |-> <<0, sizes, 0, sizes>>]
              /\ termType = TypeName(types)
              /\ termHeight = sizes - 1
              /\ termWidth = IF half THEN sizes ELSE sizes - 1

(* The inductive invariant: the height is behind the width by one NAWS at  *)
(* most, also by the width TerminalSize has loaded.                        *)
Terminal ==
    /\ blurred \in BOOLEAN /\ sizes \in Nat /\ types \in Nat
    /\ ~blurred =>
         /\ subs \in Seq([option : {"ttype", "naws"}, data : Seq(Nat)])
         /\ half \in BOOLEAN
         /\ Pending
         /\ termWidth \in Nat /\ termHeight \in Nat
         /\ probe # << >> => \E w \in 0..(termHeight + 1) : probe = <<w>>
         /\ size \in Nat \X Nat /\ size[2] >= size[1] - 1

(* What the steps that leave the terminal alone leave alone. *)
LEMMA TerminalKept ==
    ASSUME Terminal, UNCHANGED <<termVars, sizeVars, blurred, sizes, types>> PROVE Terminal'
BY DEF Terminal, Pending, termVars, sizeVars

(* A read of the socket leaves at most one event, of the next size. *)
LEMMA TerminalReceive ==
    ASSUME Terminal, NEW chunk \in Chunks, Receive(chunk) PROVE Terminal'
<1> DEFINE items == SubnegsOf(chunk)
<1>1. /\ subs = << >> /\ subs' = Events(items)
      /\ blurred' = (blurred \/ Len(items) > 1 \/ items = <<"wide">>)
      /\ sizes' = sizes + Sizes(items)
      /\ types' = types + Types(items)
      /\ UNCHANGED <<half, termType, termWidth, termHeight, probe, size>>
  BY DEF Receive, sizeVars
<1>2. items \in Seq(Subneg)
  <2>1. chunk \in Seq(Item)
    BY ReadAssumption DEF Item
  <2>2. items \in Seq(Item \cap Subneg) /\ Item \cap Subneg = Subneg
    BY <2>1, OnlyBounded DEF SubnegsOf, Item
  <2> QED
    BY <2>2
<1>3. sizes' \in Nat /\ types' \in Nat
  <2>1. /\ Only(items, {"naws", "wide"}) \in Seq(Subneg \cap {"naws", "wide"})
        /\ Only(items, {"ttype"}) \in Seq(Subneg \cap {"ttype"})
    BY <1>2, OnlyBounded
  <2>2. Sizes(items) \in Nat /\ Types(items) \in Nat
    BY <2>1 DEF Sizes, Types
  <2> QED
    BY <1>1, <2>2 DEF Terminal
<1> HIDE DEF items
<1>4. blurred' \in BOOLEAN
  BY <1>1 DEF Terminal
<1>5. SUFFICES ASSUME ~blurred'
      PROVE  /\ subs' \in Seq([option : {"ttype", "naws"}, data : Seq(Nat)])
             /\ half' \in BOOLEAN
             /\ Pending'
             /\ termWidth' \in Nat /\ termHeight' \in Nat
             /\ probe' # << >> => \E w \in 0..(termHeight' + 1) : probe' = <<w>>
             /\ size' \in Nat \X Nat /\ size'[2] >= size'[1] - 1
  BY <1>3, <1>4 DEF Terminal
<1>6. ~blurred /\ ~(Len(items) > 1) /\ items # <<"wide">>
  BY <1>1, <1>5
<1>7. /\ half = FALSE /\ termWidth = sizes /\ termHeight = sizes /\ sizes \in Nat
      /\ termType = TypeName(types) /\ types \in Nat
      /\ probe # << >> => \E w \in 0..(termHeight + 1) : probe = <<w>>
      /\ size \in Nat \X Nat /\ size[2] >= size[1] - 1
  BY <1>1, <1>6 DEF Terminal, Pending
<1>8. /\ subs' \in Seq([option : {"ttype", "naws"}, data : Seq(Nat)])
      /\ Pending'
  <2>1. CASE items = << >>
    <3>1. Events(items) = << >>
      BY <2>1 DEF Events
    <3>2. Sizes(items) = 0 /\ Types(items) = 0
      BY <2>1, OnlyEmpty DEF Sizes, Types
    <3> QED
      BY <1>1, <1>7, <3>1, <3>2 DEF Pending
  <2>2. CASE items # << >>
    <3>1. Len(items) = 1
      <4>1. Len(items) \in Nat \ {0}
        BY <1>2, <2>2, EmptySeq, Zenon
      <4>2. ~(Len(items) > 1)
        BY <1>6, Zenon
      <4>3. \A n \in Nat \ {0} : ~(n > 1) => n = 1
        OBVIOUS
      <4> QED
        BY <4>1, <4>2, <4>3, Zenon
    <3>2. items = <<items[1]>> /\ items[1] \in Subneg
      BY <1>2, <3>1, OnlyElement
    <3> DEFINE x == items[1]
    <3>3. /\ Sizes(items) = IF x \in {"naws", "wide"} THEN 1 ELSE 0
          /\ Types(items) = IF x = "ttype" THEN 1 ELSE 0
          /\ Len(subs') = 1
          /\ subs'[1] = [option |-> IF x = "ttype" THEN "ttype" ELSE "naws",
                         data   |-> Payload(x, Number(items))]
          /\ Number(items) = IF x = "ttype" THEN types + 1 ELSE sizes + Sizes(items)
      BY <1>1, <1>7, <3>2, OneEvent
    <3>4. subs' = <<subs'[1]>>
      <4>1. DOMAIN Events(items) = 1..1
        BY <3>1 DEF Events
      <4>2. Events(items) = [e \in 1..1 |-> Events(items)[e]]
        BY <3>1 DEF Events
      <4> QED
        BY <1>1, <4>1, <4>2
    <3>8. ~half' /\ termWidth' = sizes /\ termHeight' = sizes /\ termType' = TypeName(types)
      BY <1>1, <1>7
    <3>5. CASE x = "naws"
      <4>1. /\ sizes' = sizes + 1 /\ types' = types
            /\ subs'[1] = [option |-> "naws", data |-> <<0, sizes', 0, sizes'>>]
        BY <1>1, <1>7, <3>3, <3>5 DEF Payload
      <4>2. subs'[1] \in [option : {"ttype", "naws"}, data : Seq(Nat)]
        BY <1>3, <4>1
      <4>3. subs' \in Seq([option : {"ttype", "naws"}, data : Seq(Nat)]) /\ subs' # << >>
        BY ONLY <3>4, <4>2, OneElement, ZenonT(60)
      <4>5. termHeight' = sizes' - 1 /\ termWidth' = sizes' - 1
        BY <1>7, <4>1, <3>8
      <4>6. termWidth' = IF half' THEN sizes' ELSE sizes' - 1
        BY ONLY <3>8, <4>5
      <4>7. termType' = TypeName(types')
        BY <3>8, <4>1
      <4> QED
        BY ONLY <3>3, <4>1, <4>3, <4>5, <4>6, <4>7 DEF Pending
    <3>6. CASE x = "ttype"
      <4>1. /\ sizes' = sizes /\ types' = types + 1
            /\ subs'[1] = [option |-> "ttype", data |-> <<0, types'>>]
        BY <1>1, <1>7, <3>3, <3>6 DEF Payload
      <4>2. subs'[1] \in [option : {"ttype", "naws"}, data : Seq(Nat)]
        BY <1>3, <4>1
      <4>3. subs' \in Seq([option : {"ttype", "naws"}, data : Seq(Nat)]) /\ subs' # << >>
        BY ONLY <3>4, <4>2, OneElement, ZenonT(60)
      <4>4. types' # 0
        BY <1>7, <4>1
      <4> QED
        BY ONLY <1>7, <3>3, <3>8, <4>1, <4>3, <4>4 DEF Pending
    <3>7. CASE x = "short"
      <4>1. /\ sizes' = sizes /\ types' = types
            /\ subs'[1] = [option |-> "naws", data |-> <<0>>]
        BY <1>1, <1>7, <3>3, <3>7 DEF Payload
      <4>2. subs'[1] \in [option : {"ttype", "naws"}, data : Seq(Nat)]
        BY <1>3, <4>1
      <4>3. subs' \in Seq([option : {"ttype", "naws"}, data : Seq(Nat)]) /\ subs' # << >>
        BY ONLY <3>4, <4>2, OneElement, ZenonT(60)
      <4>4. termType' = TypeName(types')
        BY <3>8, <4>1
      <4> QED
        BY ONLY <1>7, <3>3, <3>8, <4>1, <4>3, <4>4 DEF Pending
    <3>9. x # "wide"
      BY <1>6, <3>2
    <3> QED
      BY <3>2, <3>5, <3>6, <3>7, <3>9 DEF Subneg
  <2> QED
    BY <2>1, <2>2
<1> QED
  BY <1>1, <1>7, <1>8

(* The event at the head, when there is only one. *)
LEMMA TheEvent ==
    ASSUME Terminal, ~blurred, subs # << >>
    PROVE  Head(subs) = subs[1] /\ Tail(subs) = << >>
<1> DEFINE R == [option : {"ttype", "naws"}, data : Seq(Nat)]
<1>1. subs \in Seq(R) /\ Len(subs) = 1
  BY DEF Terminal, Pending
<1> HIDE DEF R
<1>2. Tail(subs) \in Seq(R) /\ Len(Tail(subs)) = 0 /\ Head(subs) = subs[1]
  BY <1>1, HeadTailProperties
<1> QED
  BY <1>2, EmptySeq

(* An event that has been handled: its size is stored, and the width that   *)
(* TerminalSize has loaded is at most one NAWS ahead of the height.         *)
Settled ==
    /\ sizes \in Nat /\ types \in Nat /\ blurred \in BOOLEAN /\ subs = << >> /\ half = FALSE
    /\ termWidth = sizes /\ termHeight = sizes /\ termType = TypeName(types)
    /\ probe # << >> => \E w \in 0..(termHeight + 1) : probe = <<w>>
    /\ size \in Nat \X Nat /\ size[2] >= size[1] - 1

(* The invariant holds when no event waits and the last size is stored. *)
LEMMA TerminalDone ==
    ASSUME Settled'
    PROVE  Terminal'
<1>1. /\ subs' \in Seq([option : {"ttype", "naws"}, data : Seq(Nat)])
      /\ half' \in BOOLEAN
      /\ Pending'
      /\ termWidth' \in Nat /\ termHeight' \in Nat
  <2>1. subs' \in Seq([option : {"ttype", "naws"}, data : Seq(Nat)])
    BY DEF Settled
  <2>2. Pending'
    BY Zenon DEF Pending, Settled
  <2> QED
    BY <2>1, <2>2 DEF Settled
<1> QED
  BY <1>1, Zenon DEF Terminal, Settled

(* Each step of handleSubnegotiation works off that event. *)
LEMMA TerminalHandled ==
    ASSUME Terminal, handleSubnegotiation PROVE Terminal'
<1> USE DEF Data, Handled, sizeVars, histVars, lineVars
<1>1. CASE blurred
  <2>1. blurred' = blurred /\ sizes' = sizes /\ types' = types
    BY DEF handleSubnegotiation, HandleTType, HandleShort, StoreWidth, StoreHeight
  <2> QED
    BY <1>1, <2>1 DEF Terminal
<1>2. CASE ~blurred
  <2>1. half => subs # << >>
    BY <1>2 DEF Terminal, Pending
  <2>2. subs # << >> /\ Head(subs) = subs[1] /\ Tail(subs) = << >>
    BY <1>2, <2>1, TheEvent DEF handleSubnegotiation, HandleTType, HandleShort, StoreWidth, StoreHeight
  <2>3. /\ sizes \in Nat /\ types \in Nat /\ blurred \in BOOLEAN /\ half \in BOOLEAN
        /\ termWidth \in Nat /\ termHeight \in Nat
        /\ probe # << >> => \E w \in 0..(termHeight + 1) : probe = <<w>>
        /\ size \in Nat \X Nat /\ size[2] >= size[1] - 1
        /\ subs \in Seq([option : {"ttype", "naws"}, data : Seq(Nat)])
        /\ Len(subs) = 1
        /\ \/ /\ subs[1] = [option |-> "ttype", data |-> <<0, types>>] /\ types # 0
              /\ ~half /\ termWidth = sizes /\ termHeight = sizes
           \/ /\ subs[1] = [option |-> "naws", data |-> <<0>>] /\ termType = TypeName(types)
              /\ ~half /\ termWidth = sizes /\ termHeight = sizes
           \/ /\ subs[1] = [option |-> "naws", data |-> <<0, sizes, 0, sizes>>]
              /\ termType = TypeName(types)
              /\ termHeight = sizes - 1
              /\ termWidth = IF half THEN sizes ELSE sizes - 1
    BY <1>2, <2>2 DEF Terminal, Pending
  <2>4. CASE HandleTType
    <3>1. /\ subs[1].option = "ttype" /\ subs' = << >> /\ half' = FALSE
          /\ termType' = IF Len(subs[1].data) > 1 /\ subs[1].data[1] = 0 THEN Tail(subs[1].data) ELSE termType
          /\ UNCHANGED <<termWidth, termHeight, probe, size, blurred, sizes, types>>
      BY <2>2, <2>4 DEF HandleTType
    <3>2. subs[1].data = <<0, types>> /\ types # 0 /\ termWidth = sizes /\ termHeight = sizes
      BY <2>3, <3>1
    <3>3. termType' = TypeName(types')
      <4>1. termType' = <<types>>
        BY <2>3, <3>1, <3>2
      <4> QED
        BY <3>1, <3>2, <4>1 DEF TypeName
    <3>4. sizes' \in Nat /\ types' \in Nat /\ blurred' \in BOOLEAN /\ termWidth' = sizes' /\ termHeight' = sizes'
      BY <2>3, <3>1, <3>2
    <3> QED
      BY <2>3, <3>1, <3>3, <3>4, TerminalDone DEF Settled
  <2>5. CASE HandleShort
    <3>1. /\ subs[1].option = "naws" /\ Len(subs[1].data) < 4 /\ subs' = << >> /\ half' = FALSE
          /\ UNCHANGED <<termType, termWidth, termHeight, probe, size, blurred, sizes, types>>
      BY <2>2, <2>5 DEF HandleShort
    <3>2. subs[1] # [option |-> "naws", data |-> <<0, sizes, 0, sizes>>]
      <4> SUFFICES ASSUME subs[1] = [option |-> "naws", data |-> <<0, sizes, 0, sizes>>]
                   PROVE  FALSE
        OBVIOUS
      <4>1. Len(subs[1].data) = 4
        OBVIOUS
      <4> QED
        BY <3>1, <4>1
    <3>3. termWidth = sizes /\ termHeight = sizes /\ termType = TypeName(types)
      BY <2>3, <3>1, <3>2
    <3>4. sizes' \in Nat /\ types' \in Nat /\ blurred' \in BOOLEAN /\ termWidth' = sizes' /\ termHeight' = sizes'
      BY <2>3, <3>1, <3>3
    <3> QED
      BY <2>3, <3>1, <3>3, <3>4, TerminalDone DEF Settled
  <2>6. CASE StoreWidth
    <3>1. /\ subs[1].option = "naws" /\ Len(subs[1].data) >= 4 /\ half' = TRUE
          /\ termWidth' = 256 * subs[1].data[1] + subs[1].data[2]
          /\ UNCHANGED <<subs, termType, termHeight, probe, size, blurred, sizes, types>>
      BY <2>2, <2>6 DEF StoreWidth
    <3>2. /\ subs[1] = [option |-> "naws", data |-> <<0, sizes, 0, sizes>>] /\ termHeight = sizes - 1
          /\ termType = TypeName(types)
      BY <2>3, <3>1, SMTT(30)
    <3>3. termWidth' = sizes
      BY <2>3, <3>1, <3>2
    <3> QED
      BY <1>2, <2>2, <2>3, <3>1, <3>2, <3>3 DEF Terminal, Pending
  <2>7. CASE StoreHeight
    <3>1. /\ half /\ subs' = << >> /\ half' = FALSE
          /\ termHeight' = 256 * subs[1].data[3] + subs[1].data[4]
          /\ UNCHANGED <<termType, termWidth, probe, size, blurred, sizes, types>>
      BY <2>2, <2>7 DEF StoreHeight
    <3>2. /\ subs[1].data = <<0, sizes, 0, sizes>> /\ termHeight = sizes - 1
          /\ termWidth = sizes /\ termType = TypeName(types)
      BY <2>3, <3>1
    <3>3. termHeight' = sizes
      BY <2>3, <3>1, <3>2
    <3>4. probe' # << >> => \E w \in 0..(termHeight' + 1) : probe' = <<w>>
      <4> SUFFICES ASSUME probe' # << >> PROVE \E w \in 0..(termHeight' + 1) : probe' = <<w>>
        OBVIOUS
      <4>1. PICK w \in 0..(termHeight + 1) : probe = <<w>>
        BY <2>3, <3>1
      <4>2. w \in 0..(termHeight' + 1)
        BY <2>3, <3>2, <3>3, <4>1
      <4> QED
        BY <3>1, <4>1, <4>2
    <3>5. sizes' \in Nat /\ types' \in Nat /\ blurred' \in BOOLEAN /\ termWidth' = sizes' /\ termHeight' = sizes'
      BY <2>3, <3>1, <3>2, <3>3
    <3> QED
      BY <2>3, <3>1, <3>2, <3>4, <3>5, TerminalDone DEF Settled
  <2> QED
    BY <2>4, <2>5, <2>6, <2>7 DEF handleSubnegotiation
<1> QED
  BY <1>1, <1>2

(* TerminalSize loads a width that is at most one ahead of the height. *)
LEMMA TerminalProbe ==
    ASSUME Terminal, TerminalSize PROVE Terminal'
<1> USE DEF termVars, histVars
<1>0. UNCHANGED <<termVars, blurred, sizes, types>>
  BY DEF TerminalSize, LoadWidth, LoadHeight
<1>1. CASE blurred
  BY <1>0, <1>1 DEF Terminal
<1>2. CASE ~blurred
  <2>1. /\ termWidth \in Nat /\ termHeight \in Nat /\ sizes \in Nat
        /\ termWidth <= termHeight + 1
        /\ probe # << >> => \E w \in 0..(termHeight + 1) : probe = <<w>>
        /\ size \in Nat \X Nat /\ size[2] >= size[1] - 1
    BY <1>2 DEF Terminal, Pending
  <2>2. /\ probe' # << >> => \E w \in 0..(termHeight + 1) : probe' = <<w>>
        /\ size' \in Nat \X Nat /\ size'[2] >= size'[1] - 1
    <3>1. CASE LoadWidth
      <4>1. probe' = <<termWidth>> /\ size' = size /\ termWidth \in 0..(termHeight + 1)
        BY <2>1, <3>1 DEF LoadWidth
      <4> QED
        BY <2>1, <4>1
    <3>2. CASE LoadHeight
      <4>1. probe # << >> /\ size' = <<probe[1], termHeight>> /\ probe' = << >>
        BY <3>2 DEF LoadHeight
      <4>2. PICK w \in 0..(termHeight + 1) : probe = <<w>>
        BY <2>1, <4>1
      <4>3. size' = <<w, termHeight>> /\ w \in Nat /\ w <= termHeight + 1
        BY <2>1, <4>1, <4>2
      <4> QED
        BY <2>1, <4>1, <4>3
    <3> QED
      BY <3>1, <3>2 DEF TerminalSize
  <2> QED
    BY <1>0, <1>2, <2>2 DEF Terminal, Pending
<1> QED
  BY <1>1, <1>2

(* The invariant of the terminal holds. *)
LEMMA TerminalHolds == Spec => []Terminal
<1>1. Init => Terminal
  <2> SUFFICES ASSUME Init PROVE Terminal
    OBVIOUS
  <2>1. Pending
    BY Zenon DEF Init, Pending, TypeName
  <2>2. size \in Nat \X Nat /\ size[2] >= size[1] - 1
    BY DEF Init
  <2>3. subs \in Seq([option : {"ttype", "naws"}, data : Seq(Nat)])
    BY DEF Init
  <2> QED
    BY <2>1, <2>2, <2>3 DEF Init, Terminal
<1>2. Terminal /\ [Next]_vars => Terminal'
  <2> SUFFICES ASSUME Terminal, [Next]_vars PROVE Terminal'
    OBVIOUS
  <2>1. ASSUME NEW chunk \in Chunks, Receive(chunk) PROVE Terminal'
    BY <2>1, TerminalReceive
  <2>2. CASE handleSubnegotiation
    BY <2>2, TerminalHandled
  <2>3. ASSUME NEW n \in 1..RingCap, Read(n) PROVE Terminal'
    BY <2>3, TerminalKept DEF Read, histVars
  <2>4. CASE ReadLine
    BY <2>4, TerminalKept DEF ReadLine, histVars
  <2>5. CASE LineStep
    BY <2>5, TerminalKept DEF LineStep
  <2>6. CASE LineError
    BY <2>6, TerminalKept DEF LineError, histVars
  <2>7. CASE TerminalSize
    BY <2>7, TerminalProbe
  <2>8. CASE UNCHANGED vars
    BY <2>8, TerminalKept DEF vars, histVars
  <2> QED
    BY <2>1, <2>2, <2>3, <2>4, <2>5, <2>6, <2>7, <2>8 DEF Next
<1> QED
  BY <1>1, <1>2, PTL DEF Spec

(* When a chunk has been handled, and no chunk held two subnegotiations    *)
(* and no size a byte 255, terminal size and type are the last received.   *)
THEOREM TerminalUpToDate == Spec => []TerminalCurrent
<1>1. Terminal => TerminalCurrent
  BY DEF Terminal, Pending, TypeName, TerminalCurrent
<1> QED
  BY <1>1, TerminalHolds, PTL

(* TerminalSize, run between the stores of any number of NAWS, returns a   *)
(* height that is no more than one NAWS older than the width.              *)
THEOREM SizesSkewedByOne == Spec => []SizeSkew
<1>1. Terminal => SizeSkew
  BY DEF Terminal, SizeSkew
<1> QED
  BY <1>1, TerminalHolds, PTL
----------------------------------------------------------------------------
(* Text. *)

(* FirstLF is the place of a LF with none before it, or 0. *)
LEMMA FirstLFIs ==
    ASSUME NEW b \in Seq(Text)
    PROVE  /\ FirstLF(b) = 0 => \A k \in 1..Len(b) : b[k] # "LF"
           /\ FirstLF(b) # 0 => /\ FirstLF(b) \in 1..Len(b) /\ b[FirstLF(b)] = "LF"
                                /\ \A k \in 1..(FirstLF(b) - 1) : b[k] # "LF"
<1> DEFINE I == {k \in 1..Len(b) : b[k] = "LF"}
<1>1. FirstLF(b) = IF I # {} THEN Min(I) ELSE 0
  BY DEF FirstLF, SelectInSeq
<1>2. CASE I = {}
  BY <1>1, <1>2
<1>3. CASE I # {}
  <2>1. I \in SUBSET Nat
    OBVIOUS
  <2>2. \E n \in I : \A m \in I : n <= m
    <3> HIDE DEF I
    <3> QED
      BY <1>3, <2>1, LeastNat
  <2>3. Min(I) \in I /\ \A m \in I : Min(I) <= m
    <3> HIDE DEF I
    <3> QED
      BY <2>2 DEF Min
  <2>4. FirstLF(b) = Min(I)
    BY <1>1, <1>3
  <2> DEFINE f == FirstLF(b)
  <2>5. f \in I /\ \A m \in I : f <= m
    BY <2>3, <2>4
  <2> HIDE DEF f
  <2>6. f \in 1..Len(b) /\ b[f] = "LF" /\ f # 0
    BY <2>5
  <2>7. ASSUME NEW k \in 1..(f - 1) PROVE b[k] # "LF"
    BY <2>5, <2>6
  <2> QED
    BY <2>6, <2>7 DEF f
<1> QED
  BY <1>2, <1>3

(* The bytes one turn of ReadLine takes from the ring, and the others. *)
LEMMA TurnOf ==
    ASSUME NEW r \in Seq(Text), r # << >>, NEW n, n = Min({LineBuf, Len(r)})
    PROVE  /\ n \in 1..Len(r)
           /\ SubSeq(r, 1, n) \in Seq(Text) /\ Len(SubSeq(r, 1, n)) = n
           /\ SubSeq(r, n + 1, Len(r)) \in Seq(Text) /\ Len(SubSeq(r, n + 1, Len(r))) = Len(r) - n
           /\ r = SubSeq(r, 1, n) \o SubSeq(r, n + 1, Len(r))
<1>1. Len(r) \in Nat \ {0} /\ LineBuf \in Nat \ {0}
  BY ReadAssumption
<1>2. n = IF LineBuf <= Len(r) THEN LineBuf ELSE Len(r)
  BY <1>1, MinOfTwo
<1>3. n \in 1..Len(r) /\ n \in 0..Len(r)
  BY <1>1, <1>2
<1> QED
  BY <1>3, CutAt, ZenonT(60)

EndsInCR(l) == l # << >> /\ l[Len(l)] = "CR"

(* At the LF at b[i], the line is the open one without a CR at its end. *)
LEMMA EndOfLineIs ==
    ASSUME NEW b \in Seq(Text), NEW i \in 1..Len(b), line \in Seq(Text)
    PROVE  /\ EndOfLine(b, i) \in Seq(Text)
           /\ (readLineCR <=> EndsInCR(line)) => EndOfLine(b, i) = NoCR(line \o SubSeq(b, 1, i - 1))
<1> DEFINE a == SubSeq(b, 1, i - 1)
           s == line \o a
<1>1. i \in Nat /\ Len(b) \in Nat /\ i - 1 \in 0..Len(b) /\ Len(line) \in Nat
  OBVIOUS
<1>2. a \in Seq(Text) /\ Len(a) = i - 1 /\ \A k \in 1..(i - 1) : a[k] = b[k]
  <2>1. a \in Seq(Text) /\ Len(a) = i - 1
    BY <1>1, CutAt
  <2>2. \A k \in 1..(i - 1) : a[k] = b[k]
    BY <1>1, SubSeqProperties
  <2> QED
    BY <2>1, <2>2
<1>3. CASE i = 1
  <2>1. a = << >>
    BY <1>2, <1>3, EmptySeq
  <2>2. s = line
    BY <2>1, ConcatEmptySeq
  <2>3. CASE readLineCR
    <3> DEFINE m == Max({Len(line) - 1, 0})
    <3>1. EndOfLine(b, i) = SubSeq(line, 1, m)
      BY <1>3, <2>3 DEF EndOfLine
    <3>2. m = IF Len(line) = 0 THEN 0 ELSE Len(line) - 1
      BY <1>1, MaxOfTwo
    <3> HIDE DEF m
    <3>3. m \in 0..Len(line)
      BY <1>1, <3>2
    <3>4. EndOfLine(b, i) \in Seq(Text)
      BY <3>1, <3>3, CutAt
    <3>5. EndsInCR(line) => EndOfLine(b, i) = NoCR(line)
      <4> SUFFICES ASSUME EndsInCR(line) PROVE EndOfLine(b, i) = NoCR(line)
        OBVIOUS
      <4>1. line # << >> /\ Last(line) = "CR"
        BY DEF EndsInCR, Last
      <4>2. m = Len(line) - 1
        BY <1>1, <3>2, <4>1
      <4> QED
        BY <3>1, <4>1, <4>2 DEF NoCR, Front
    <3> QED
      BY <2>2, <2>3, <3>4, <3>5
  <2>4. CASE ~readLineCR
    <3>1. EndOfLine(b, i) = s
      BY <1>3, <2>4 DEF EndOfLine
    <3>2. ~EndsInCR(line) => NoCR(line) = line
      BY DEF EndsInCR, NoCR, Last
    <3> QED
      BY <2>2, <2>4, <3>1, <3>2
  <2> QED
    BY <2>3, <2>4
<1>4. CASE i # 1
  <2>1. i > 1 /\ i - 1 \in 1..(i - 1) /\ a[i - 1] = b[i - 1] /\ i - 2 \in 0..Len(b)
    BY <1>1, <1>2, <1>4
  <2>2. s \in Seq(Text) /\ Len(s) = Len(line) + (i - 1) /\ s[Len(s)] = a[i - 1] /\ s # << >>
    BY <1>1, <1>2, <2>1, ConcatProperties, SMTT(30)
  <2>3. CASE b[i - 1] = "CR"
    <3> DEFINE c == SubSeq(b, 1, i - 2)
    <3>1. EndOfLine(b, i) = line \o c
      BY <1>4, <2>1, <2>3 DEF EndOfLine
    <3>2. c \in Seq(Text) /\ Len(c) = i - 2 /\ \A k \in 1..(i - 2) : c[k] = b[k]
      <4>1. c \in Seq(Text) /\ Len(c) = i - 2
        BY <2>1, CutAt
      <4>2. \A k \in 1..(i - 2) : c[k] = b[k]
        BY <1>1, <2>1, SubSeqProperties
      <4> QED
        BY <4>1, <4>2
    <3> HIDE DEF a, c
    <3>3. a = Append(c, b[i - 1])
      <4>1. Append(c, b[i - 1]) \in Seq(Text) /\ Len(Append(c, b[i - 1])) = i - 1
            /\ (\A k \in 1..(i - 2) : Append(c, b[i - 1])[k] = c[k]) /\ Append(c, b[i - 1])[i - 1] = b[i - 1]
        BY <1>1, <2>1, <3>2, AppendProperties
      <4>2. \A k \in 1..(i - 1) : a[k] = Append(c, b[i - 1])[k]
        BY <1>1, <1>2, <2>1, <3>2, <4>1
      <4> QED
        BY <1>2, <4>1, <4>2, SeqEqual
    <3>4. s = Append(line \o c, "CR") /\ line \o c \in Seq(Text)
      <4>1. "CR" \in Text
        BY DEF Text
      <4>2. line \o Append(c, "CR") = Append(line \o c, "CR")
        BY ONLY <3>2, <4>1, ConcatAppend, line \in Seq(Text)
      <4> QED
        BY <2>3, <3>2, <3>3, <4>2, ConcatProperties
    <3>5. NoCR(s) = line \o c
      <4>1. NoCR(s) = SubSeq(s, 1, Len(s) - 1)
        BY <2>1, <2>2, <2>3 DEF NoCR, Last, Front
      <4> DEFINE d == line \o c
                 z == <<"CR">>
      <4>2. z \in Seq(Text) /\ Len(z) = 1 /\ s = d \o z /\ d \in Seq(Text)
        <5>1. "CR" \in Text
          BY DEF Text
        <5>2. z \in Seq(Text) /\ Len(z) = 1
          BY <5>1, OneElement
        <5>3. d \in Seq(Text) /\ s = Append(d, "CR")
          BY <3>4
        <5> HIDE DEF d, s
        <5> QED
          BY <5>1, <5>2, <5>3, AppendConcat
      <4> HIDE DEF d, z, s
      <4>3. SubSeq(s, 1, Len(s) - Len(z)) = d
        BY ONLY <4>2, FrontPart
      <4> QED
        BY <4>1, <4>2, <4>3 DEF d
    <3> QED
      BY <3>1, <3>4, <3>5 DEF a
  <2>4. CASE b[i - 1] # "CR"
    <3>1. EndOfLine(b, i) = s
      BY <1>4, <2>1, <2>4 DEF EndOfLine
    <3>2. NoCR(s) = s
      BY <2>1, <2>2, <2>4 DEF NoCR, Last
    <3> QED
      BY <2>2, <3>1, <3>2
  <2> QED
    BY <2>3, <2>4
<1> QED
  BY <1>3, <1>4

Typed ==
    /\ how \in {"Read", "ReadLine"}
    /\ how = "Read" => pc = "idle" /\ got \in Seq(Text)
    /\ how = "ReadLine" => got \in Seq(Seq(Text))
    /\ ring \in Seq(Text) /\ Len(ring) <= RingCap
    /\ line \in Seq(Text) /\ stream \in Seq(Text)

(* What has been made of the text taken from the ring, c. *)
InOrder(c) ==
    /\ stream = c \o ring
    /\ how = "Read" => got = c
    /\ how = "ReadLine" /\ pc # "eof" =>
         /\ got = Lines(c).done /\ line = Lines(c).open
         /\ pc = "idle" => line = << >>
         /\ readLineCR <=> EndsInCR(line)
    /\ how = "ReadLine" /\ pc = "eof" =>
         ring = << >> /\ got = Append(Lines(c).done, Lines(c).open)

Reading == ~upset /\ lost = 0 => \E c \in Seq(Text) : InOrder(c)

(* The inductive invariant. *)
TextInv == Typed /\ Losses /\ Reading

(* Regrouping. *)
Splits(s, a, b) == s = a \o b

(* What ReadLine takes, puts back and leaves is still in order. *)
LEMMA FourParts ==
    ASSUME NEW c \in Seq(Text), NEW h \in Seq(Text), NEW t \in Seq(Text), NEW r \in Seq(Text),
           NEW b, Splits(b, h, t), NEW d, Splits(d, b, r), NEW s, Splits(s, c, d),
           NEW e, Splits(e, c, h), NEW u, Splits(u, t, r)
    PROVE  Splits(s, e, u)
<1>1. u \in Seq(Text)
  BY ConcatProperties DEF Splits
<1>2. d = h \o u
  <2>1. (h \o t) \o r = h \o (t \o r)
    BY ConcatAssociative, SMTT(30)
  <2> QED
    BY ONLY <2>1, Splits(b, h, t), Splits(d, b, r), Splits(u, t, r) DEF Splits
<1>3. (c \o h) \o u = c \o (h \o u)
  BY ONLY <1>1, ConcatAssociative, c \in Seq(Text), h \in Seq(Text), SMTT(30)
<1> QED
  BY <1>2, <1>3 DEF Splits

(* A read of the socket keeps the types and the bound of the ring. *)
LEMMA TypedReceive ==
    ASSUME Typed, NEW chunk \in Chunks, Receive(chunk) PROVE Typed'
<1> DEFINE text == Only(chunk, Text)
           kept == Only(Tabled(chunk), Text)
<1>1. /\ ring' = RingWrite(ring, kept) /\ stream' = stream \o text
      /\ UNCHANGED <<how, pc, line, got>>
  BY DEF Receive
<1>2. text \in Seq(Text) /\ kept \in Seq(Text)
  BY TextFits, KeptFits
<1> HIDE DEF text, kept
<1>3. ring' \in Seq(Text) /\ Len(ring') <= RingCap
  BY <1>1, <1>2, RingWriteStores DEF Typed
<1>4. stream' \in Seq(Text)
  BY <1>1, <1>2, ConcatProperties DEF Typed
<1> QED
  BY <1>1, <1>3, <1>4 DEF Typed

(* Read moves the first bytes of the ring to what was read. *)
LEMMA TypedRead ==
    ASSUME Typed, NEW n \in 1..RingCap, Read(n)
    PROVE  /\ Typed'
           /\ \E a \in Seq(Text) : got' = got \o a /\ ring = a \o ring'
<1> DEFINE k == Min({n, Len(ring)})
           a == SubSeq(ring, 1, k)
<1>1. /\ how = "Read" /\ got' = got \o a /\ ring' = SubSeq(ring, k + 1, Len(ring))
      /\ UNCHANGED <<how, pc, line, stream>>
  BY DEF Read, lineVars, histVars
<1>2. ring \in Seq(Text) /\ Len(ring) <= RingCap /\ Len(ring) \in Nat /\ n \in Nat /\ RingCap \in Nat
      /\ got \in Seq(Text) /\ pc = "idle" /\ line \in Seq(Text) /\ stream \in Seq(Text)
  BY <1>1, ReadAssumption DEF Typed
<1>3. k \in 0..Len(ring)
  <2>1. k = IF n <= Len(ring) THEN n ELSE Len(ring)
    BY <1>2, MinOfTwo
  <2> HIDE DEF k
  <2> QED
    BY <1>2, <2>1
<1> HIDE DEF k
<1>4. /\ a \in Seq(Text) /\ ring' \in Seq(Text) /\ Len(ring') = Len(ring) - k /\ ring = a \o ring'
  BY <1>1, <1>2, <1>3, CutAt
<1> HIDE DEF a
<1>5. got' \in Seq(Text)
  BY <1>1, <1>2, <1>4, ConcatProperties
<1>6. Len(ring') <= RingCap
  BY <1>2, <1>3, <1>4
<1> QED
  BY <1>1, <1>2, <1>4, <1>5, <1>6 DEF Typed

(* What becomes of the bytes b that one turn of ReadLine's loop takes,     *)
(* while rest stays in the ring: the line goes on, or ends at b[i].        *)
LineGoesOn(b, rest) ==
    /\ \A k \in 1..Len(b) : b[k] # "LF"
    /\ line' = line \o b /\ ring' = rest
    /\ readLineCR' = (b[Len(b)] = "CR")
    /\ UNCHANGED <<pc, got, upset>>

LineEnds(b, rest, i) ==
    /\ b[i] = "LF" /\ \A k \in 1..(i - 1) : b[k] # "LF"
    /\ got' = Append(got, EndOfLine(b, i))
    /\ upset' = (upset \/ (i < Len(b) /\ rest # << >>))
    /\ i = Len(b) \/ rest = << >> => ring' = SubSeq(b, i + 1, Len(b)) \o rest
    /\ readLineCR' = FALSE /\ pc' = "idle" /\ line' = << >>

(* Every turn is one of the two. *)
LEMMA TurnTyped ==
    ASSUME Typed, LineStep
    PROVE  /\ Typed'
           /\ \E b \in Seq(Text) \ {<< >>}, rest \in Seq(Text) :
                ring = b \o rest /\ (LineGoesOn(b, rest) \/ \E i \in 1..Len(b) : LineEnds(b, rest, i))
<1> DEFINE n == Min({LineBuf, Len(ring)})
           b == SubSeq(ring, 1, n)
           rest == SubSeq(ring, n + 1, Len(ring))
           i == FirstLF(b)
           t == SubSeq(b, i + 1, n)
<1>1. /\ pc = "line" /\ ring # << >> /\ UNCHANGED <<how, stream>>
      /\ \/ /\ i = 0
            /\ line' = line \o b /\ readLineCR' = (b[n] = "CR") /\ ring' = rest
            /\ UNCHANGED <<pc, got, upset>>
         \/ /\ i # 0
            /\ got' = Append(got, EndOfLine(b, i))
            /\ ring' = RingWrite(rest, t)
            /\ readLineCR' = FALSE
            /\ pc' = "idle" /\ line' = << >>
            /\ upset' = (upset \/ (i < n /\ rest # << >>))
  BY DEF LineStep
<1>2. how = "ReadLine" /\ got \in Seq(Seq(Text)) /\ ring \in Seq(Text) /\ Len(ring) <= RingCap
      /\ line \in Seq(Text) /\ stream \in Seq(Text) /\ Len(ring) \in Nat /\ RingCap \in Nat
  BY <1>1, ReadAssumption DEF Typed
<1>3. /\ n \in 1..Len(ring)
      /\ b \in Seq(Text) /\ Len(b) = n
      /\ rest \in Seq(Text) /\ Len(rest) = Len(ring) - n
      /\ ring = b \o rest
  BY <1>1, <1>2, TurnOf
<1> HIDE DEF n, b, rest
<1>4. b # << >> /\ Len(rest) <= RingCap
  <2>1. b # << >>
    <3> SUFFICES ASSUME b = << >> PROVE FALSE
      OBVIOUS
    <3>1. Len(b) = 0
      OBVIOUS
    <3> QED
      BY <1>3, <3>1
  <2> QED
    BY <1>2, <1>3, <2>1
<1>5. CASE i = 0
  <2>1. /\ line' = line \o b /\ readLineCR' = (b[n] = "CR") /\ ring' = rest
        /\ UNCHANGED <<pc, got, upset>>
    BY <1>1, <1>5
  <2>2. \A k \in 1..Len(b) : b[k] # "LF"
    BY <1>3, <1>5, FirstLFIs
  <2>3. line' \in Seq(Text)
    BY <1>2, <1>3, <2>1, ConcatProperties
  <2>4. Typed'
    BY <1>1, <1>2, <1>3, <1>4, <2>1, <2>3 DEF Typed
  <2> QED
    BY <1>3, <1>4, <2>1, <2>2, <2>4 DEF LineGoesOn
<1>6. CASE i # 0
  <2>1. /\ got' = Append(got, EndOfLine(b, i))
        /\ ring' = RingWrite(rest, t)
        /\ readLineCR' = FALSE
        /\ pc' = "idle" /\ line' = << >>
        /\ upset' = (upset \/ (i < n /\ rest # << >>))
    BY <1>1, <1>6
  <2>2. i \in 1..Len(b) /\ b[i] = "LF" /\ \A k \in 1..(i - 1) : b[k] # "LF"
    BY <1>3, <1>6, FirstLFIs
  <2> HIDE DEF i
  <2>3. t \in Seq(Text) /\ Len(t) = n - i /\ n \in Nat /\ i \in Nat
    <3>1. i \in 0..Len(b) /\ n \in Nat /\ i \in Nat
      BY <1>3, <2>2
    <3>2. SubSeq(b, i + 1, Len(b)) \in Seq(Text) /\ Len(SubSeq(b, i + 1, Len(b))) = Len(b) - i
      BY <1>3, <3>1, CutAt
    <3> QED
      BY <1>3, <3>1, <3>2
  <2>4. EndOfLine(b, i) \in Seq(Text)
    BY <1>2, <1>3, <2>2, EndOfLineIs
  <2>5. t = SubSeq(b, i + 1, Len(b))
    BY <1>3
  <2> HIDE DEF t
  <2>6. /\ ring' \in Seq(Text) /\ Len(ring') <= RingCap
        /\ Len(t) <= RingCap - Len(rest) => ring' = rest \o t
    BY <1>3, <1>4, <2>1, <2>3, RingWriteStores
  <2>7. i = Len(b) \/ rest = << >> => ring' = t \o rest
    <3>1. CASE i = Len(b)
      <4>1. t = << >> /\ Len(t) <= RingCap - Len(rest)
        BY <1>2, <1>3, <1>4, <2>3, <3>1, EmptySeq
      <4> QED
        BY <1>3, <2>6, <4>1, ConcatEmptySeq
    <3>2. CASE rest = << >>
      <4>1. Len(rest) = 0
        BY <3>2
      <4>2. Len(t) <= RingCap - Len(rest)
        BY <1>2, <1>3, <2>3, <4>1
      <4> QED
        BY <2>3, <2>6, <3>2, <4>2, ConcatEmptySeq
    <3> QED
      BY <3>1, <3>2
  <2>8. got' \in Seq(Seq(Text))
    BY <1>2, <2>1, <2>4, AppendProperties
  <2>9. Typed'
    BY <1>1, <1>2, <2>1, <2>6, <2>8 DEF Typed
  <2> QED
    BY <1>3, <1>4, <2>1, <2>2, <2>5, <2>7, <2>9 DEF LineEnds
<1> QED
  BY <1>5, <1>6

(* Steps that leave the text alone. *)
LEMMA TextKept ==
    ASSUME TextInv, UNCHANGED <<how, pc, ring, line, readLineCR, stream, got, lost, full, dropped, upset>>
    PROVE  TextInv'
<1>1. Typed'
  BY DEF TextInv, Typed
<1>2. Losses'
  BY DEF TextInv, Losses, LossBounded
<1>3. ASSUME NEW c PROVE InOrder(c)' <=> InOrder(c)
  BY DEF InOrder
<1>4. Reading'
  BY <1>3 DEF TextInv, Reading
<1> QED
  BY <1>1, <1>2, <1>4 DEF TextInv

(* A read of the socket adds the same bytes to stream and ring. *)
LEMMA TextReceive ==
    ASSUME TextInv, NEW chunk \in Chunks, Receive(chunk) PROVE TextInv'
<1> DEFINE text == Only(chunk, Text)
           kept == Only(Tabled(chunk), Text)
<1>1. Typed' /\ Losses'
  BY TypedReceive, LossesReceive DEF TextInv
<1>2. /\ ring = << >> /\ ring' = RingWrite(ring, kept) /\ stream' = stream \o text
      /\ lost' = lost + Len(text) - Len(ring')
      /\ readLineCR' = (readLineCR /\ ring' # << >>)
      /\ upset' = (upset \/ (readLineCR /\ ring' = << >>))
      /\ how = "ReadLine" => pc = "line"
      /\ UNCHANGED <<how, pc, line, got>>
  BY DEF Receive
<1>3. /\ text \in Seq(Text) /\ Len(text) \in Nat /\ kept \in Seq(Text) /\ Len(kept) \in Nat
      /\ Len(kept) <= Len(text) /\ (Len(kept) = Len(text) => kept = text)
  BY TextFits, KeptFits
<1>4. lost \in Nat /\ RingCap \in Nat /\ stream \in Seq(Text)
  BY ReadAssumption DEF TextInv, Losses, Typed
<1> HIDE DEF text, kept
<1>5. SUFFICES ASSUME ~upset', lost' = 0 PROVE \E c \in Seq(Text) : InOrder(c)'
  BY <1>1 DEF TextInv, Reading
<1>6. ~upset /\ (readLineCR' <=> readLineCR)
  BY <1>2, <1>5
<1>7. ring' = text /\ lost = 0
  <2>1. ring \in Seq(Text) /\ Len(ring) = 0 /\ Len(ring) <= RingCap /\ RingCap - Len(ring) = RingCap
    BY <1>2, <1>4
  <2>2. /\ Len(ring') = IF Len(kept) <= RingCap - Len(ring) THEN Len(ring) + Len(kept) ELSE RingCap
        /\ Len(kept) <= RingCap - Len(ring) => ring' = ring \o kept
    BY <1>2, <1>3, <2>1, RingWriteStores
  <2>3. Len(kept) <= RingCap /\ lost = 0 /\ Len(kept) = Len(text)
    BY <1>2, <1>3, <1>4, <1>5, <2>1, <2>2
  <2> QED
    BY <1>2, <1>3, <2>1, <2>2, <2>3, ConcatEmptySeq
<1>8. PICK c \in Seq(Text) : InOrder(c)
  BY <1>6, <1>7 DEF TextInv, Reading
<1>9. stream' = c \o ring'
  <2>1. stream = c
    BY <1>2, <1>8, ConcatEmptySeq DEF InOrder
  <2> QED
    BY <1>2, <1>7, <2>1
<1>10. InOrder(c)'
  BY <1>2, <1>6, <1>8, <1>9 DEF InOrder
<1> QED
  BY <1>10

(* Read takes bytes in order. *)
LEMMA TextRead ==
    ASSUME TextInv, NEW n \in 1..RingCap, Read(n) PROVE TextInv'
<1>1. how = "Read" /\ UNCHANGED <<how, pc, line, readLineCR, stream, lost, full, dropped, upset>>
  BY DEF Read, lineVars, histVars
<1>2. Typed'
  BY TypedRead DEF TextInv
<1>3. PICK a \in Seq(Text) : got' = got \o a /\ ring = a \o ring'
  BY TypedRead DEF TextInv
<1>4. Losses'
  BY <1>1 DEF TextInv, Losses, LossBounded
<1>5. SUFFICES ASSUME ~upset', lost' = 0 PROVE \E c \in Seq(Text) : InOrder(c)'
  BY <1>2, <1>4 DEF TextInv, Reading
<1>6. PICK c \in Seq(Text) : InOrder(c)
  BY <1>1, <1>5 DEF TextInv, Reading
<1>7. ring' \in Seq(Text)
  BY <1>2 DEF Typed
<1>8. c \o (a \o ring') = (c \o a) \o ring' /\ c \o a \in Seq(Text)
  <2> DEFINE r == ring'
  <2>1. r \in Seq(Text)
    BY <1>7
  <2> HIDE DEF r
  <2>2. (c \o a) \o r = c \o (a \o r) /\ c \o a \in Seq(Text)
    BY <2>1, ConcatAssociative, ConcatProperties, SMTT(30)
  <2> QED
    BY <2>2 DEF r
<1>9. stream' = (c \o a) \o ring' /\ got' = c \o a
  BY <1>1, <1>3, <1>6, <1>8 DEF InOrder
<1>10. InOrder(c \o a)'
  BY <1>1, <1>9 DEF InOrder
<1> QED
  BY <1>8, <1>10

(* A turn of ReadLine takes bytes in order, and lines as Lines does. *)
LEMMA TextLineStep ==
    ASSUME TextInv, LineStep PROVE TextInv'
<1>1. pc = "line" /\ UNCHANGED <<how, stream, lost, full, dropped>>
  BY DEF LineStep
<1>2. how = "ReadLine" /\ got \in Seq(Seq(Text)) /\ line \in Seq(Text)
  BY <1>1 DEF TextInv, Typed
<1>3. Typed'
  BY TurnTyped DEF TextInv
<1>4. Losses'
  BY <1>1 DEF TextInv, Losses, LossBounded
<1>5. SUFFICES ASSUME ~upset', lost' = 0 PROVE \E c \in Seq(Text) : InOrder(c)'
  BY <1>3, <1>4 DEF TextInv, Reading
<1>6. PICK b \in Seq(Text) \ {<< >>}, rest \in Seq(Text) :
        ring = b \o rest /\ (LineGoesOn(b, rest) \/ \E i \in 1..Len(b) : LineEnds(b, rest, i))
  BY TurnTyped DEF TextInv
<1>7. ~upset /\ lost = 0
  <2>1. ~upset
    BY <1>5, <1>6, Zenon DEF LineGoesOn, LineEnds
  <2>2. lost = 0
    BY <1>1, <1>5
  <2> QED
    BY <2>1, <2>2
<1>8. PICK c \in Seq(Text) : InOrder(c)
  BY <1>7 DEF TextInv, Reading
<1>9. /\ stream = c \o (b \o rest)
      /\ got = Lines(c).done /\ line = Lines(c).open
      /\ readLineCR <=> EndsInCR(line)
  BY <1>1, <1>2, <1>6, <1>8 DEF InOrder
<1>10. CASE LineGoesOn(b, rest)
  <2>0. /\ \A k \in 1..Len(b) : b[k] # "LF"
        /\ line' = line \o b /\ ring' = rest
        /\ readLineCR' = (b[Len(b)] = "CR")
        /\ UNCHANGED <<pc, got, upset>>
    BY <1>10 DEF LineGoesOn
  <2>1. (c \o b) \o rest = c \o (b \o rest) /\ c \o b \in Seq(Text)
    BY ConcatAssociative, ConcatProperties, SMTT(30)
  <2>2. Lines(c \o b).done = Lines(c).done /\ Lines(c \o b).open = Lines(c).open \o b
    BY <2>0, LinesOpen
  <2>3. readLineCR' <=> EndsInCR(line')
    <3> DEFINE l == line \o b
    <3>1. Len(b) \in Nat \ {0} /\ Len(line) \in Nat
      BY <1>2
    <3>2. l \in Seq(Text) /\ Len(l) = Len(line) + Len(b) /\ l[Len(l)] = b[Len(b)]
      BY <1>2, <3>1, ConcatProperties
    <3> HIDE DEF l
    <3>3. l # << >>
      <4> SUFFICES ASSUME l = << >> PROVE FALSE
        OBVIOUS
      <4>1. Len(l) = 0
        OBVIOUS
      <4> QED
        BY <3>1, <3>2, <4>1
    <3>4. line' = l
      BY <2>0 DEF l
    <3> QED
      BY <2>0, <3>2, <3>3, <3>4 DEF EndsInCR
  <2>4. /\ stream' = (c \o b) \o ring'
        /\ got' = Lines(c \o b).done /\ line' = Lines(c \o b).open
        /\ pc' = "line" /\ how' = "ReadLine"
    BY <1>1, <1>2, <1>9, <2>0, <2>1, <2>2
  <2>5. InOrder(c \o b)'
    BY <2>3, <2>4 DEF InOrder
  <2> QED
    BY <2>1, <2>5
<1>11. ASSUME NEW i \in 1..Len(b), LineEnds(b, rest, i)
       PROVE  \E d \in Seq(Text) : InOrder(d)'
  <2>0. /\ b[i] = "LF" /\ \A k \in 1..(i - 1) : b[k] # "LF"
        /\ got' = Append(got, EndOfLine(b, i))
        /\ upset' = (upset \/ (i < Len(b) /\ rest # << >>))
        /\ i = Len(b) \/ rest = << >> => ring' = SubSeq(b, i + 1, Len(b)) \o rest
        /\ readLineCR' = FALSE /\ pc' = "idle" /\ line' = << >>
    BY <1>11 DEF LineEnds
  <2> DEFINE h == SubSeq(b, 1, i)
             t == SubSeq(b, i + 1, Len(b))
             v == SubSeq(b, 1, i - 1)
  <2>1. i \in Nat /\ i - 1 \in Nat /\ i \in 0..Len(b) /\ i - 1 \in 0..Len(b) /\ Len(b) \in Nat
    OBVIOUS
  <2>2. h \in Seq(Text) /\ Len(h) = i /\ t \in Seq(Text) /\ b = h \o t
    BY <2>1, CutAt
  <2>3. /\ v \in Seq(Text) /\ Len(v) = i - 1 /\ \A k \in 1..(i - 1) : v[k] = b[k]
    <3>1. v \in Seq(Text) /\ Len(v) = i - 1
      BY <2>1, CutAt
    <3>2. \A k \in 1..(i - 1) : v[k] = b[k]
      BY <2>1, SubSeqProperties
    <3> QED
      BY <3>1, <3>2
  <2>4. h = Append(v, "LF")
    <3>1. \A k \in 1..i : h[k] = b[k]
      BY <2>1, SubSeqProperties
    <3> HIDE DEF h, v
    <3> DEFINE w == Append(v, "LF")
    <3>2. w \in Seq(Text) /\ Len(w) = i /\ (\A k \in 1..(i - 1) : w[k] = v[k]) /\ w[i] = "LF"
      <4>1. "LF" \in Text
        BY DEF Text
      <4> QED
        BY <2>1, <2>3, <4>1, AppendProperties
    <3> HIDE DEF w
    <3>3. \A k \in 1..i : h[k] = w[k]
      BY <2>0, <2>1, <2>3, <3>1, <3>2
    <3>4. h = w
      BY <2>2, <3>2, <3>3, SeqEqual
    <3> QED
      BY <3>4 DEF w
  <2>5. EndOfLine(b, i) = NoCR(line \o v)
    BY <1>2, <1>9, EndOfLineIs
  <2> HIDE DEF h, t, v
  <2>6. Lines(c \o v).done = got /\ Lines(c \o v).open = line \o v
    <3>1. \A k \in 1..Len(v) : v[k] # "LF"
      BY <2>0, <2>3
    <3>2. Lines(c \o v).done = Lines(c).done /\ Lines(c \o v).open = Lines(c).open \o v
      BY <2>3, <3>1, LinesOpen
    <3> QED
      BY <1>9, <3>2
  <2>7. Lines(c \o h) = AfterByte(Lines(c \o v), "LF")
    <3>1. "LF" \in Text
      BY DEF Text
    <3> QED
      BY <2>3, <2>4, <3>1, LinesAppend
  <2>8. Lines(c \o h).done = got' /\ Lines(c \o h).open = << >>
    BY <2>0, <2>5, <2>6, <2>7 DEF AfterByte
  <2>9. i = Len(b) \/ rest = << >>
    <3>1. ~(i < Len(b)) \/ rest = << >>
      BY <1>5, <2>0, Zenon
    <3> QED
      BY <2>1, <3>1
  <2>10. ring' = t \o rest
    BY <2>0, <2>9 DEF t
  <2>11. c \o h \in Seq(Text)
    BY <2>2, ConcatProperties
  <2>12. stream' = (c \o h) \o ring'
    <3> DEFINE s == stream'
               u == ring'
    <3>1. c \in Seq(Text) /\ h \in Seq(Text) /\ t \in Seq(Text) /\ rest \in Seq(Text)
      BY <2>2
    <3>2. Splits(b, h, t) /\ Splits(ring, b, rest) /\ Splits(s, c, ring)
          /\ Splits(c \o h, c, h) /\ Splits(u, t, rest)
      BY <1>1, <1>6, <1>9, <2>2, <2>10 DEF Splits
    <3> HIDE DEF s, u
    <3>3. Splits(s, c \o h, u)
      BY ONLY <3>1, <3>2, FourParts
    <3> QED
      BY <3>3 DEF s, u, Splits
  <2>13. ~EndsInCR(<< >>)
    BY DEF EndsInCR
  <2>14. InOrder(c \o h)'
    <3>1. how' = "ReadLine" /\ pc' = "idle" /\ line' = << >> /\ ~readLineCR'
      BY <1>1, <1>2, <2>0
    <3> QED
      BY <2>8, <2>12, <2>13, <3>1 DEF InOrder
  <2> QED
    BY <2>11, <2>14
<1> QED
  BY <1>6, <1>10, <1>11

(* The invariant of the text holds. *)
LEMMA TextHolds == Spec => []TextInv
<1>1. Init => TextInv
  <2> SUFFICES ASSUME Init PROVE TextInv
    OBVIOUS
  <2>1. Typed
    BY ReadAssumption DEF Init, Typed
  <2>2. Losses
    BY DEF Init, Losses, LossBounded
  <2>3. InOrder(<< >>)
    <3>1. Lines(<< >>).done = << >> /\ Lines(<< >>).open = << >>
      BY LinesEmpty DEF Blank
    <3>2. << >> \o << >> = << >>
      OBVIOUS
    <3>3. ~EndsInCR(<< >>)
      BY DEF EndsInCR
    <3> QED
      BY <3>1, <3>2, <3>3 DEF Init, InOrder
  <2>4. << >> \in Seq(Text)
    OBVIOUS
  <2> QED
    BY <2>1, <2>2, <2>3, <2>4 DEF TextInv, Reading
<1>2. TextInv /\ [Next]_vars => TextInv'
  <2> SUFFICES ASSUME TextInv, [Next]_vars PROVE TextInv'
    OBVIOUS
  <2>1. ASSUME NEW chunk \in Chunks, Receive(chunk) PROVE TextInv'
    BY <2>1, TextReceive
  <2>2. CASE handleSubnegotiation
    BY <2>2, TextKept
    DEF handleSubnegotiation, HandleTType, HandleShort, StoreWidth, StoreHeight, lineVars, histVars
  <2>3. ASSUME NEW n \in 1..RingCap, Read(n) PROVE TextInv'
    BY <2>3, TextRead
  <2>4. CASE ReadLine
    <3>1. /\ how = "ReadLine" /\ pc = "idle" /\ pc' = "line" /\ line' = << >>
          /\ UNCHANGED <<how, ring, readLineCR, stream, got, lost, full, dropped, upset>>
      BY <2>4 DEF ReadLine, histVars
    <3>2. Typed'
      BY <3>1 DEF TextInv, Typed
    <3>3. Losses'
      BY <3>1 DEF TextInv, Losses, LossBounded
    <3>4. ASSUME NEW c, InOrder(c) PROVE InOrder(c)'
      BY <3>1, <3>4 DEF InOrder
    <3>5. Reading'
      BY <3>1, <3>4 DEF TextInv, Reading
    <3> QED
      BY <3>2, <3>3, <3>5 DEF TextInv
  <2>5. CASE LineStep
    BY <2>5, TextLineStep
  <2>6. CASE LineError
    <3>1. /\ pc = "line" /\ ring = << >> /\ pc' = "eof" /\ line' = << >> /\ got' = Append(got, line)
          /\ UNCHANGED <<how, ring, stream, lost, full, dropped, upset>>
      BY <2>6 DEF LineError, histVars
    <3>2. how = "ReadLine" /\ got \in Seq(Seq(Text)) /\ line \in Seq(Text)
      BY <3>1 DEF TextInv, Typed
    <3>3. got' \in Seq(Seq(Text))
      BY <3>1, <3>2, AppendProperties
    <3>4. Typed'
      BY <3>1, <3>2, <3>3 DEF TextInv, Typed
    <3>5. Losses'
      BY <3>1 DEF TextInv, Losses, LossBounded
    <3>6. ASSUME NEW c, InOrder(c) PROVE InOrder(c)'
      BY <3>1, <3>2, <3>6 DEF InOrder
    <3>7. Reading'
      BY <3>1, <3>6 DEF TextInv, Reading
    <3> QED
      BY <3>4, <3>5, <3>7 DEF TextInv
  <2>7. CASE TerminalSize
    BY <2>7, TextKept DEF TerminalSize, LoadWidth, LoadHeight, lineVars, histVars
  <2>8. CASE UNCHANGED vars
    BY <2>8, TextKept DEF vars, lineVars, histVars
  <2> QED
    BY <2>1, <2>2, <2>3, <2>4, <2>5, <2>6, <2>7, <2>8 DEF Next
<1> QED
  BY <1>1, <1>2, PTL DEF Spec

(* Nothing lost and nothing put back behind other bytes: Read returns the  *)
(* text received, and ReadLine its lines, however the socket, the ring and *)
(* ReadLine's buffer cut it.                                               *)
THEOREM TextReadIntact == Spec => []TextIntact
<1>1. TextInv => TextIntact
  <2> SUFFICES ASSUME TextInv, ~upset, lost = 0
               PROVE  IF how = "Read" THEN got \o ring = stream
                      ELSE /\ pc = "eof" => got = Append(Lines(stream).done, Lines(stream).open)
                           /\ pc # "eof" => IsPrefix(got, Lines(stream).done)
    BY DEF TextIntact
  <2>1. PICK c \in Seq(Text) : InOrder(c)
    BY DEF TextInv, Reading
  <2>2. how \in {"Read", "ReadLine"} /\ ring \in Seq(Text)
    BY DEF TextInv, Typed
  <2>3. CASE how = "Read"
    BY <2>1, <2>3 DEF InOrder
  <2>4. CASE how = "ReadLine"
    <3>1. CASE pc = "eof"
      <4>1. stream = c
        BY <2>1, <2>4, <3>1, ConcatEmptySeq DEF InOrder
      <4> QED
        BY <2>1, <2>4, <3>1, <4>1 DEF InOrder
    <3>2. CASE pc # "eof"
      <4>1. IsPrefix(Lines(c).done, Lines(c \o ring).done)
        BY <2>2, LinesPrefix
      <4> QED
        BY <2>1, <2>4, <3>2, <4>1 DEF InOrder
    <3> QED
      BY <2>4, <3>1, <3>2
  <2> QED
    BY <2>2, <2>3, <2>4
<1> QED
  BY <1>1, TextHolds, PTL
============================================================================

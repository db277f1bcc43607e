-------------------------- MODULE FlattenTheorems --------------------------
(***************************************************************************)
(* What FlattenSeq computes, for sequences of any length.  Induction is    *)
(* stated for sets of naturals, from the least element every non-empty one *)
(* has: the provers cannot instantiate an induction theorem whose          *)
(* parameter is an operator.                                               *)
(***************************************************************************)
EXTENDS Integers, SequencesExt, SequenceTheorems, WellFoundedInduction, TLAPS

(* A non-empty set of naturals has a least element. *)
LEMMA LeastNat ==
    ASSUME NEW T \in SUBSET Nat, T # {}
    PROVE  \E n \in T : \A m \in T : n <= m
<1> DEFINE R == {x \in Nat \X Nat : x[1] < x[2]}
<1>1. IsWellFoundedOn(R, Nat)
  BY NatLessThanWellFounded DEF OpToRel
<1>2. PICK n \in T : \A m \in T : <<m, n>> \notin R
  <2> HIDE DEF R
  <2> QED
    BY <1>1, WFMin
<1>3. ASSUME NEW m \in T PROVE n <= m
  <2>1. <<m, n>> \notin R /\ m \in Nat /\ n \in Nat
    BY <1>2
  <2> QED
    BY <2>1
<1> QED
  BY <1>3

(* Induction: a set with 0 and every successor has all naturals. *)
LEMMA NatSetInduction ==
    ASSUME NEW T, 0 \in T, \A n \in Nat : n \in T => n + 1 \in T
    PROVE  \A n \in Nat : n \in T
<1> SUFFICES ASSUME NEW n \in Nat, n \notin T PROVE FALSE
  OBVIOUS
<1>1. Nat \ T \in SUBSET Nat /\ Nat \ T # {}
  OBVIOUS
<1>2. PICK m \in Nat \ T : \A k \in Nat \ T : m <= k
  BY <1>1, LeastNat
<1>3. m # 0 /\ m - 1 \in Nat
  BY <1>2
<1>4. m - 1 \in T
  BY <1>2, <1>3
<1> QED
  BY <1>2, <1>3, <1>4
----------------------------------------------------------------------------
(* The recursion FlattenSeq runs over the first n elements of ss. *)
Flattens(g, ss, n) == g = [i \in 1..n |-> IF i = 1 THEN ss[i] ELSE g[i - 1] \o ss[i]]

(* It has a solution ... *)
LEMMA FlattensExists ==
    ASSUME NEW S, NEW ss, NEW N \in Nat, \A i \in 1..N : ss[i] \in Seq(S)
    PROVE  \A n \in 0..N : \E g \in [1..n -> Seq(S)] : Flattens(g, ss, n)
<1> DEFINE T == {n \in Nat : n <= N => \E g \in [1..n -> Seq(S)] : Flattens(g, ss, n)}
<1>1. 0 \in T
  <2> DEFINE g == [i \in 1..0 |-> IF i = 1 THEN ss[i] ELSE ss[i]]
  <2>1. g \in [1..0 -> Seq(S)] /\ Flattens(g, ss, 0)
    BY DEF Flattens
  <2> QED
    BY <2>1
<1>2. ASSUME NEW n \in Nat, n \in T PROVE n + 1 \in T
  <2> SUFFICES ASSUME n + 1 <= N
               PROVE  \E h \in [1..(n + 1) -> Seq(S)] : Flattens(h, ss, n + 1)
    OBVIOUS
  <2>1. PICK g \in [1..n -> Seq(S)] : Flattens(g, ss, n)
    BY <1>2
  <2> DEFINE last == IF n = 0 THEN ss[1] ELSE g[n] \o ss[n + 1]
             h == [i \in 1..(n + 1) |-> IF i = n + 1 THEN last ELSE g[i]]
  <2>2. last \in Seq(S)
    <3>1. ss[n + 1] \in Seq(S) /\ (n # 0 => g[n] \in Seq(S))
      OBVIOUS
    <3> QED
      BY <3>1, ConcatProperties
  <2> HIDE DEF last
  <2>3. h \in [1..(n + 1) -> Seq(S)]
    BY <2>2
  <2>4. ASSUME NEW i \in 1..(n + 1)
        PROVE  h[i] = IF i = 1 THEN ss[i] ELSE h[i - 1] \o ss[i]
    <3>1. CASE i = n + 1
      BY <3>1 DEF last
    <3>2. CASE i # n + 1
      <4>1. i \in 1..n /\ h[i] = g[i] /\ (i # 1 => i - 1 \in 1..n /\ h[i - 1] = g[i - 1])
        BY <3>2
      <4>2. g[i] = IF i = 1 THEN ss[i] ELSE g[i - 1] \o ss[i]
        BY <2>1, <4>1 DEF Flattens
      <4> QED
        BY <4>1, <4>2
    <3> QED
      BY <3>1, <3>2
  <2>5. Flattens(h, ss, n + 1)
    <3> HIDE DEF h
    <3> QED
      BY <2>3, <2>4 DEF Flattens
  <2> QED
    BY <2>3, <2>5
<1>3. \A n \in Nat : n \in T
  <2> HIDE DEF T
  <2> QED
    BY <1>1, <1>2, NatSetInduction
<1> QED
  BY <1>3

(* ... and only one. *)
LEMMA FlattensUnique ==
    ASSUME NEW ss, NEW n \in Nat, NEW m \in Nat, NEW g, NEW h,
           Flattens(g, ss, n), Flattens(h, ss, m)
    PROVE  \A i \in 1..n : i <= m => g[i] = h[i]
<1> DEFINE T == {i \in Nat : i \in 1..n /\ i <= m => g[i] = h[i]}
<1>1. 0 \in T
  OBVIOUS
<1>2. ASSUME NEW i \in Nat, i \in T PROVE i + 1 \in T
  <2> SUFFICES ASSUME i + 1 \in 1..n, i + 1 <= m PROVE g[i + 1] = h[i + 1]
    OBVIOUS
  <2>1. /\ g[i + 1] = IF i + 1 = 1 THEN ss[i + 1] ELSE g[i] \o ss[i + 1]
        /\ h[i + 1] = IF i + 1 = 1 THEN ss[i + 1] ELSE h[i] \o ss[i + 1]
    <3>1. i + 1 \in 1..n /\ i + 1 \in 1..m /\ (i + 1) - 1 = i
      OBVIOUS
    <3> QED
      BY <3>1 DEF Flattens
  <2>2. CASE i = 0
    BY <2>1, <2>2
  <2>3. CASE i # 0
    <3>1. i \in 1..n /\ i <= m
      BY <2>3
    <3>2. g[i] = h[i]
      BY <1>2, <3>1
    <3> QED
      BY <2>1, <2>3, <3>2
  <2> QED
    BY <2>2, <2>3
<1>3. \A i \in Nat : i \in T
  <2> HIDE DEF T
  <2> QED
    BY <1>1, <1>2, NatSetInduction
<1> QED
  BY <1>3

(* One element more leaves the values before it. *)
LEMMA FlattensLonger ==
    ASSUME NEW ss, NEW n \in Nat, n # 0, NEW g, NEW h,
           Flattens(g, ss, n), Flattens(h, ss, n + 1)
    PROVE  g[n] = h[n]
<1>1. n + 1 \in Nat /\ n \in 1..n /\ n <= n + 1
  OBVIOUS
<1> QED
  BY <1>1, FlattensUnique

(* FlattenSeq is the last value of that recursion. *)
LEMMA FlattenIs ==
    ASSUME NEW S, NEW n \in Nat \ {0}, NEW ss \in [1..n -> Seq(S)], NEW g, Flattens(g, ss, n)
    PROVE  FlattenSeq(ss) = g[n]
<1>1. Len(ss) = n
  OBVIOUS
<1> DEFINE f == CHOOSE k : k = [i \in 1..Len(ss) |-> IF i = 1 THEN ss[i] ELSE k[i - 1] \o ss[i]]
<1>2. FlattenSeq(ss) = f[Len(ss)]
  BY <1>1 DEF FlattenSeq
<1>3. Flattens(f, ss, n)
  <2>1. g = [i \in 1..Len(ss) |-> IF i = 1 THEN ss[i] ELSE g[i - 1] \o ss[i]]
    BY <1>1 DEF Flattens
  <2>2. f = [i \in 1..Len(ss) |-> IF i = 1 THEN ss[i] ELSE f[i - 1] \o ss[i]]
    BY <2>1
  <2> HIDE DEF f
  <2> QED
    BY <1>1, <2>2 DEF Flattens
<1> HIDE DEF f
<1> QED
  BY <1>1, <1>2, <1>3, FlattensUnique
----------------------------------------------------------------------------
(* Nothing flattens to nothing. *)
THEOREM FlattenEmpty == ASSUME NEW ss, ss = << >> PROVE FlattenSeq(ss) = << >>
BY DEF FlattenSeq

(* The result is a sequence, and the last element of ss is its last part. *)
THEOREM FlattenLast ==
    ASSUME NEW S, NEW n \in Nat, NEW ss \in [1..(n + 1) -> Seq(S)]
    PROVE  /\ FlattenSeq([k \in 1..n |-> ss[k]]) \in Seq(S)
           /\ FlattenSeq(ss) = FlattenSeq([k \in 1..n |-> ss[k]]) \o ss[n + 1]
           /\ FlattenSeq(ss) \in Seq(S)
<1> DEFINE front == [k \in 1..n |-> ss[k]]
<1>0. front \in [1..n -> Seq(S)] /\ n + 1 \in Nat \ {0} /\ ss[n + 1] \in Seq(S)
  OBVIOUS
<1>1. PICK h \in [1..(n + 1) -> Seq(S)] : Flattens(h, ss, n + 1)
  <2>1. n + 1 \in Nat /\ n + 1 \in 0..(n + 1) /\ \A i \in 1..(n + 1) : ss[i] \in Seq(S)
    OBVIOUS
  <2> QED
    BY <2>1, FlattensExists
<1>2. FlattenSeq(ss) = h[n + 1] /\ h[n + 1] \in Seq(S)
  BY <1>0, <1>1, FlattenIs, SMTT(30)
<1>3. h[n + 1] = IF n = 0 THEN ss[n + 1] ELSE h[n] \o ss[n + 1]
  <2>1. n + 1 \in 1..(n + 1) /\ (n + 1) - 1 = n /\ (n + 1 = 1 <=> n = 0)
    OBVIOUS
  <2> QED
    BY <1>1, <2>1 DEF Flattens
<1>4. CASE n = 0
  <2>1. front = << >>
    BY <1>4
  <2>2. FlattenSeq(front) = << >>
    BY <2>1, FlattenEmpty
  <2> HIDE DEF front
  <2>3. << >> \o ss[n + 1] = ss[n + 1] /\ << >> \in Seq(S)
    BY <1>0, ConcatEmptySeq, EmptySeq
  <2> QED
    BY <1>2, <1>3, <1>4, <2>2, <2>3 DEF front
<1>5. CASE n # 0
  <2>1. PICK g \in [1..n -> Seq(S)] : Flattens(g, front, n)
    <3>1. n \in 0..n /\ \A i \in 1..n : front[i] \in Seq(S)
      OBVIOUS
    <3> HIDE DEF front
    <3> QED
      BY <3>1, FlattensExists
  <2>2. FlattenSeq(front) = g[n] /\ g[n] \in Seq(S)
    <3>1. n \in Nat \ {0} /\ n \in 1..n
      BY <1>5
    <3> HIDE DEF front
    <3> QED
      BY <1>0, <2>1, <3>1, FlattenIs
  <2>3. Flattens(g, ss, n)
    BY <2>1 DEF Flattens
  <2>4. g[n] = h[n]
    BY <1>1, <1>5, <2>3, FlattensLonger
  <2> QED
    BY <1>2, <1>3, <1>5, <2>2, <2>4
<1> QED
  BY <1>4, <1>5
----------------------------------------------------------------------------
(* The first part of a concatenation is a prefix of it. *)
LEMMA PrefixOfConcat ==
    ASSUME NEW S, NEW s \in Seq(S), NEW u \in Seq(S)
    PROVE  IsPrefix(s, s \o u)
<1> DEFINE t == s \o u
           n == Len(s)
<1>1. n \in Nat /\ t \in Seq(S) /\ Len(t) = n + Len(u) /\ Len(u) \in Nat
      /\ \A k \in 1..n : t[k] = s[k] /\ s[k] \in S
  BY ConcatProperties
<1> HIDE DEF t
<1>2. SubSeq(s, 1, n) = SubSeq(t, 1, n)
  <2>1. \A k \in 1..n : t[k] \in S
    BY <1>1
  <2>2. /\ SubSeq(s, 1, n) \in Seq(S) /\ Len(SubSeq(s, 1, n)) = n
        /\ \A k \in 1..n : SubSeq(s, 1, n)[k] = s[k]
    BY <1>1, SubSeqFull
  <2>3. /\ SubSeq(t, 1, n) \in Seq(S) /\ Len(SubSeq(t, 1, n)) = n
        /\ \A k \in 1..n : SubSeq(t, 1, n)[k] = t[k]
    BY <1>1, <2>1, SubSeqProperties
  <2> QED
    BY <1>1, <2>2, <2>3, SeqEqual
<1> QED
  BY <1>1, <1>2 DEF IsPrefix, t

(* Every sequence is its own prefix. *)
LEMMA PrefixSelf == ASSUME NEW S, NEW s \in Seq(S) PROVE IsPrefix(s, s)
  BY DEF IsPrefix

(* A prefix stays one when the longer sequence grows. *)
LEMMA PrefixLonger ==
    ASSUME NEW S, NEW s \in Seq(S), NEW t \in Seq(S), NEW u \in Seq(S), IsPrefix(s, t)
    PROVE  IsPrefix(s, t \o u)
<1> DEFINE n == Len(s)
           v == t \o u
<1>1. n \in Nat /\ n <= Len(t) /\ Len(t) \in Nat /\ SubSeq(s, 1, n) = SubSeq(t, 1, n)
  BY DEF IsPrefix
<1>2. /\ v \in Seq(S) /\ Len(v) = Len(t) + Len(u) /\ Len(u) \in Nat
      /\ \A k \in 1..n : v[k] = t[k] /\ t[k] \in S
  BY <1>1, ConcatProperties
<1> HIDE DEF v
<1>3. SubSeq(v, 1, n) = SubSeq(t, 1, n)
  <2>1. (\A k \in 1..n : v[k] \in S) /\ (\A k \in 1..n : t[k] \in S)
    BY <1>2
  <2>2. /\ SubSeq(v, 1, n) \in Seq(S) /\ Len(SubSeq(v, 1, n)) = n
        /\ \A k \in 1..n : SubSeq(v, 1, n)[k] = v[k]
    BY <1>1, <2>1, SubSeqProperties
  <2>3. /\ SubSeq(t, 1, n) \in Seq(S) /\ Len(SubSeq(t, 1, n)) = n
        /\ \A k \in 1..n : SubSeq(t, 1, n)[k] = t[k]
    BY <1>1, <2>1, SubSeqProperties
  <2> QED
    BY <1>1, <1>2, <2>2, <2>3, SeqEqual
<1> QED
  BY <1>1, <1>2, <1>3 DEF IsPrefix, v
============================================================================

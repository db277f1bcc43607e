-------------------------- MODULE NegotiatorProofs -------------------------
(***************************************************************************)
(* Option negotiation, for every set of options.  Two Negotiators that     *)
(* make requests and answer them (NegotiatorPair) never disagree at rest,  *)
(* by the sixteen points an exchange can be at.  Two Conns, which offer    *)
(* and demand past their Negotiators (ConnNegotiation), do not either, by  *)
(* the commands in flight wherever they differ.                            *)
(***************************************************************************)
EXTENDS NegotiatorPair, ConnNegotiation, SequenceTheorems, FiniteSetTheorems, TLAPS

(* The queues of the sixteen points, one command shorter or longer. *)
LEMMA Queues ==
    ASSUME NEW a, NEW b
    PROVE  /\ Head(<<a>>) = a /\ Tail(<<a>>) = << >> /\ <<a>> # << >>
           /\ Head(<<a, b>>) = a /\ Tail(<<a, b>>) = <<b>> /\ <<a, b>> # << >>
           /\ Append(<< >>, a) = <<a>> /\ Append(<<a>>, b) = <<a, b>>
<1> DEFINE S == {a, b}
<1>1. /\ <<a>> \in Seq(S) /\ <<a, b>> \in Seq(S) /\ <<b>> \in Seq(S) /\ << >> \in Seq(S)
      /\ Len(<<a>>) = 1 /\ Len(<<a, b>>) = 2 /\ Len(<<b>>) = 1
      /\ <<a>>[1] = a /\ <<a, b>>[1] = a /\ <<a, b>>[2] = b /\ <<b>>[1] = b
  OBVIOUS
<1>2. <<a>> # << >> /\ <<a, b>> # << >>
  BY <1>1
<1>3. Head(<<a>>) = a /\ Head(<<a, b>>) = a
  OBVIOUS
<1>4. Tail(<<a>>) = << >>
  <2>1. Tail(<<a>>) \in Seq(S) /\ Len(Tail(<<a>>)) = 0
    BY <1>1, <1>2, HeadTailProperties
  <2> QED
    BY <2>1, EmptySeq
<1>5. Tail(<<a, b>>) = <<b>>
  <2>1. /\ Tail(<<a, b>>) \in Seq(S) /\ Len(Tail(<<a, b>>)) = 1
        /\ Tail(<<a, b>>)[1] = b
    BY <1>1, <1>2, HeadTailProperties
  <2> QED
    BY <1>1, <2>1, SeqEqual
<1>6. Append(<< >>, a) = <<a>>
  OBVIOUS
<1>7. Append(<<a>>, b) = <<a, b>>
  <2>1. /\ Append(<<a>>, b) \in Seq(S) /\ Len(Append(<<a>>, b)) = 2
        /\ Append(<<a>>, b)[1] = a /\ Append(<<a>>, b)[2] = b
    BY <1>1, AppendProperties
  <2>2. \A k \in 1..2 : Append(<<a>>, b)[k] = <<a, b>>[k]
    <3>1. \A k \in 1..2 : k = 1 \/ k = 2
      OBVIOUS
    <3> QED
      BY <1>1, <2>1, <3>1
  <2> HIDE DEF S
  <2> QED
    BY <1>1, <2>1, <2>2, SeqEqual
<1> QED
  BY <1>2, <1>3, <1>4, <1>5, <1>6, <1>7

(* An action that leaves the fields of every other half alone. *)
LEMMA OneHalf ==
    ASSUME IndInv, NEW h \in Half, TypeOK', Point(h)',
           \A k \in Half \ {h} : /\ us'[k] = us[k] /\ him'[k] = him[k]
                                 /\ offers'[k] = offers[k] /\ demands'[k] = demands[k]
    PROVE  IndInv'
<1>1. ASSUME NEW k \in Half, k # h PROVE Point(k)'
  BY <1>1
     DEF IndInv, Point, Settled, Enabling, Disabling, Reversing, At
<1> QED
  BY <1>1 DEF IndInv

(* A request is made only where it leads to another of the points. *)
LEMMA OfferStep ==
    ASSUME IndInv, NEW h \in Half,
           \/ Offer(h, RequestEnable(us[h]))
           \/ Offer(h, RequestDisable(us[h]))
    PROVE  IndInv'
<1>0. TypeOK /\ Point(h)
  BY DEF IndInv
<1>p. PICK c \in {CmdWill, CmdWont}, u \in OptionState :
           /\ \/ us[h] = "No" /\ c = CmdWill /\ u = "WantYes"
              \/ us[h] = "Yes" /\ c = CmdWont /\ u = "WantNo"
           /\ us' = [us EXCEPT ![h] = u]
           /\ offers' = [offers EXCEPT ![h] = Append(@, c)]
           /\ UNCHANGED <<him, demands>>
  BY DEF Offer, RequestEnable, RequestDisable, Outcome, Send,
         Nothing, CmdWill, CmdWont, OptionState
<1>1. TypeOK'
  BY <1>0, <1>p DEF TypeOK
<1>2. /\ us'[h] = u /\ offers'[h] = Append(offers[h], c) /\ him'[h] = him[h]
      /\ demands'[h] = demands[h]
  BY <1>0, <1>p DEF TypeOK
<1>3. Append(<< >>, c) = <<c>> /\ \A a : Append(<<a>>, c) = <<a, c>>
  BY Queues
<1>4. Point(h)'
  BY <1>0, <1>p, <1>2, <1>3
     DEF Point, Settled, Enabling, Disabling, Reversing, At
<1>5. \A k \in Half \ {h} : /\ us'[k] = us[k] /\ him'[k] = him[k]
                            /\ offers'[k] = offers[k] /\ demands'[k] = demands[k]
  BY <1>0, <1>p DEF TypeOK
<1> QED
  BY <1>1, <1>4, <1>5, OneHalf

(* A request about the peer keeps the invariant. *)
LEMMA DemandStep ==
    ASSUME IndInv, NEW h \in Half,
           \/ Demand(h, RequestPeerEnable(him[h]))
           \/ Demand(h, RequestPeerDisable(him[h]))
    PROVE  IndInv'
<1>0. TypeOK /\ Point(h)
  BY DEF IndInv
<1>p. PICK c \in {CmdDo, CmdDont}, x \in OptionState :
           /\ \/ him[h] = "No" /\ c = CmdDo /\ x = "WantYes"
              \/ him[h] = "Yes" /\ c = CmdDont /\ x = "WantNo"
           /\ him' = [him EXCEPT ![h] = x]
           /\ demands' = [demands EXCEPT ![h] = Append(@, c)]
           /\ UNCHANGED <<us, offers>>
  BY DEF Demand, RequestPeerEnable, RequestPeerDisable, Outcome,
         Send, Nothing, CmdDo, CmdDont, OptionState
<1>1. TypeOK'
  BY <1>0, <1>p DEF TypeOK
<1>2. /\ him'[h] = x /\ demands'[h] = Append(demands[h], c) /\ us'[h] = us[h]
      /\ offers'[h] = offers[h]
  BY <1>0, <1>p DEF TypeOK
<1>3. Append(<< >>, c) = <<c>> /\ \A a : Append(<<a>>, c) = <<a, c>>
  BY Queues
<1>4. Point(h)'
  BY <1>0, <1>p, <1>2, <1>3
     DEF Point, Settled, Enabling, Disabling, Reversing, At
<1>5. \A k \in Half \ {h} : /\ us'[k] = us[k] /\ him'[k] = him[k]
                            /\ offers'[k] = offers[k] /\ demands'[k] = demands[k]
  BY <1>0, <1>p DEF TypeOK
<1> QED
  BY <1>1, <1>4, <1>5, OneHalf

(* Handling a WILL or WONT keeps the invariant. *)
LEMMA ReceiveOfferStep ==
    ASSUME IndInv, NEW h \in Half, ReceiveOffer(h) PROVE IndInv'
<1> DEFINE out == Handle(Head(offers[h]), him[h])
<1>0. TypeOK /\ Point(h)
  BY DEF IndInv
<1>q. \A a, b : /\ Head(<<a>>) = a /\ Tail(<<a>>) = << >>
                /\ Head(<<a, b>>) = a /\ Tail(<<a, b>>) = <<b>>
                /\ Append(<< >>, a) = <<a>> /\ Append(<<a>>, b) = <<a, b>>
  BY Queues
<1>1. /\ him'[h] = out.state /\ demands'[h] = Send(demands[h], out.response)
      /\ offers'[h] = Tail(offers[h]) /\ us'[h] = us[h] /\ offers[h] # << >>
  BY <1>0 DEF ReceiveOffer, TypeOK
<1>2. Head(offers[h]) \in {CmdWill, CmdWont}
  BY <1>0, <1>1 DEF TypeOK
<1>3. /\ Head(offers[h]) = CmdWill =>
            out = IF him[h] = "No" THEN Outcome("Yes", CmdDo)
                  ELSE IF him[h] = "WantNo" THEN Outcome("No", CmdDont)
                  ELSE Outcome("Yes", Nothing)
      /\ Head(offers[h]) = CmdWont =>
            out = IF him[h] = "Yes" THEN Outcome("No", CmdDont)
                                     ELSE Outcome("No", Nothing)
  <2>1. him[h] \in OptionState
    BY <1>0 DEF TypeOK
  <2> QED
    BY <2>1
       DEF Handle, handleWill, handleWont, OptionState, CmdWill,
           CmdWont, CmdDo, CmdDont
<1>4. /\ out.state \in OptionState
      /\ Send(demands[h], out.response) \in Seq({CmdDo, CmdDont})
  BY <1>0, <1>2, <1>3
     DEF TypeOK, Send, Outcome, OptionState
<1>5. TypeOK'
  BY <1>0, <1>1, <1>4 DEF ReceiveOffer, TypeOK
<1>6. Point(h)'
  <2> HIDE DEF out
  <2>1. /\ Head(offers[h]) = CmdWill /\ him[h] = "No" =>
              him'[h] = "Yes" /\ demands'[h] = Append(demands[h], CmdDo)
        /\ Head(offers[h]) = CmdWill /\ him[h] \in {"Yes", "WantYes"} =>
              him'[h] = "Yes" /\ demands'[h] = demands[h]
        /\ Head(offers[h]) = CmdWont /\ him[h] = "Yes" =>
              him'[h] = "No" /\ demands'[h] = Append(demands[h], CmdDont)
        /\ Head(offers[h]) = CmdWont /\ him[h] \in {"No", "WantNo", "WantYes"} =>
              him'[h] = "No" /\ demands'[h] = demands[h]
    BY <1>1, <1>3 DEF Outcome, Send, Nothing, CmdDo, CmdDont
  <2>2. CmdWill # CmdWont
    BY DEF CmdWill, CmdWont
  <2>3. CASE Settled(h)
    BY <1>1, <2>3 DEF Settled, At
  <2>4. CASE Enabling(h)
    BY <1>1, <1>q, <2>1, <2>2, <2>4 DEF Point, Settled, Enabling, At
  <2>5. CASE Disabling(h)
    BY <1>1, <1>q, <2>1, <2>2, <2>5 DEF Point, Settled, Disabling, At
  <2>6. CASE Reversing(h)
    <3>1. CASE At(h, "WantNo",  "WantYes", <<CmdWill, CmdWont>>, << >>)
      BY <1>1, <1>q, <2>1, <2>2, <3>1 DEF Point, Disabling, At
    <3>2. CASE At(h, "WantYes", "WantNo",  <<CmdWont, CmdWill>>, << >>)
      BY <1>1, <1>q, <2>1, <2>2, <3>2 DEF Point, Enabling, At
    <3> QED
      BY <1>1, <2>6, <3>1, <3>2 DEF Reversing, At
  <2> QED
    BY <1>0, <2>3, <2>4, <2>5, <2>6 DEF Point
<1>7. \A k \in Half \ {h} : /\ us'[k] = us[k] /\ him'[k] = him[k]
                            /\ offers'[k] = offers[k] /\ demands'[k] = demands[k]
  BY <1>0 DEF ReceiveOffer, TypeOK
<1> QED
  BY <1>5, <1>6, <1>7, OneHalf

(* Handling a DO or DONT keeps the invariant. *)
LEMMA ReceiveDemandStep ==
    ASSUME IndInv, NEW h \in Half, ReceiveDemand(h) PROVE IndInv'
<1> DEFINE out == Handle(Head(demands[h]), us[h])
<1>0. TypeOK /\ Point(h)
  BY DEF IndInv
<1>q. \A a, b : /\ Head(<<a>>) = a /\ Tail(<<a>>) = << >>
                /\ Head(<<a, b>>) = a /\ Tail(<<a, b>>) = <<b>>
                /\ Append(<< >>, a) = <<a>> /\ Append(<<a>>, b) = <<a, b>>
  BY Queues
<1>1. /\ us'[h] = out.state /\ offers'[h] = Send(offers[h], out.response)
      /\ demands'[h] = Tail(demands[h]) /\ him'[h] = him[h] /\ demands[h] # << >>
  BY <1>0 DEF ReceiveDemand, TypeOK
<1>2. Head(demands[h]) \in {CmdDo, CmdDont}
  BY <1>0, <1>1 DEF TypeOK
<1>3. /\ Head(demands[h]) = CmdDo =>
            out = IF us[h] = "No" THEN Outcome("Yes", CmdWill)
                  ELSE IF us[h] = "WantNo" THEN Outcome("No", CmdWont)
                  ELSE Outcome("Yes", Nothing)
      /\ Head(demands[h]) = CmdDont =>
            out = IF us[h] = "Yes" THEN Outcome("No", CmdWont)
                                   ELSE Outcome("No", Nothing)
  <2>1. us[h] \in OptionState
    BY <1>0 DEF TypeOK
  <2> QED
    BY <2>1
       DEF Handle, handleDo, handleDont, OptionState, CmdDo,
           CmdDont, CmdWill, CmdWont
<1>4. /\ out.state \in OptionState
      /\ Send(offers[h], out.response) \in Seq({CmdWill, CmdWont})
  BY <1>0, <1>2, <1>3
     DEF TypeOK, Send, Outcome, OptionState
<1>5. TypeOK'
  BY <1>0, <1>1, <1>4 DEF ReceiveDemand, TypeOK
<1>6. Point(h)'
  <2> HIDE DEF out
  <2>1. /\ Head(demands[h]) = CmdDo /\ us[h] = "No" =>
              us'[h] = "Yes" /\ offers'[h] = Append(offers[h], CmdWill)
        /\ Head(demands[h]) = CmdDo /\ us[h] \in {"Yes", "WantYes"} =>
              us'[h] = "Yes" /\ offers'[h] = offers[h]
        /\ Head(demands[h]) = CmdDont /\ us[h] = "Yes" =>
              us'[h] = "No" /\ offers'[h] = Append(offers[h], CmdWont)
        /\ Head(demands[h]) = CmdDont /\ us[h] \in {"No", "WantNo", "WantYes"} =>
              us'[h] = "No" /\ offers'[h] = offers[h]
    BY <1>1, <1>3 DEF Outcome, Send, Nothing, CmdWill, CmdWont
  <2>2. CmdDo # CmdDont
    BY DEF CmdDo, CmdDont
  <2>3. CASE Settled(h)
    BY <1>1, <2>3 DEF Settled, At
  <2>4. CASE Enabling(h)
    BY <1>1, <1>q, <2>1, <2>2, <2>4 DEF Point, Settled, Enabling, At
  <2>5. CASE Disabling(h)
    BY <1>1, <1>q, <2>1, <2>2, <2>5 DEF Point, Settled, Disabling, At
  <2>6. CASE Reversing(h)
    <3>1. CASE At(h, "WantYes", "WantNo",  << >>, <<CmdDo, CmdDont>>)
      BY <1>1, <1>q, <2>1, <2>2, <3>1 DEF Point, Disabling, At
    <3>2. CASE At(h, "WantNo",  "WantYes", << >>, <<CmdDont, CmdDo>>)
      BY <1>1, <1>q, <2>1, <2>2, <3>2 DEF Point, Enabling, At
    <3> QED
      BY <1>1, <2>6, <3>1, <3>2 DEF Reversing, At
  <2> QED
    BY <1>0, <2>3, <2>4, <2>5, <2>6 DEF Point
<1>7. \A k \in Half \ {h} : /\ him'[k] = him[k] /\ us'[k] = us[k]
                            /\ demands'[k] = demands[k] /\ offers'[k] = offers[k]
  BY <1>0 DEF ReceiveDemand, TypeOK
<1> QED
  BY <1>5, <1>6, <1>7, OneHalf

(* Two new Negotiators satisfy the invariant. *)
LEMMA InitIndInv == PairInit => IndInv
  BY DEF PairInit, IndInv, TypeOK, OptionState, Point, Settled, At

(* A new session starts from a settled point. *)
LEMMA ResetStep == ASSUME Reset PROVE IndInv'
  BY DEF Reset, IndInv, TypeOK, OptionState, Point, Settled, At

(* IndInv is an invariant of the pair. *)
LEMMA Invariance == PairSpec => []IndInv
<1>1. IndInv /\ [PairNext]_pairVars => IndInv'
  <2> SUFFICES ASSUME IndInv, [PairNext]_pairVars PROVE IndInv'
    OBVIOUS
  <2>1. CASE PairNext
    BY <2>1, OfferStep, DemandStep, ReceiveOfferStep, ReceiveDemandStep, ResetStep
       DEF PairNext
  <2>2. CASE UNCHANGED pairVars
    BY <2>2
       DEF pairVars, IndInv, TypeOK, Point, Settled, Enabling,
           Disabling, Reversing, At
  <2> QED
    BY <2>1, <2>2
<1> QED
  BY <1>1, InitIndInv, PTL DEF PairSpec

(* The fields of a Negotiator and the commands on the wire keep their      *)
(* types: no handler or request stores anything but an OptionState, for    *)
(* any number of options.                                                  *)
THEOREM NegotiatorsTypeCorrect == PairSpec => []TypeOK
<1>1. IndInv => TypeOK
  BY DEF IndInv
<1> QED
  BY <1>1, Invariance, PTL

(* For any number of options, and requests from both ends at any time: an  *)
(* option about which nothing is in flight is settled, and both endpoints  *)
(* hold it on or both hold it off.                                         *)
THEOREM NegotiatorsAgree == PairSpec => []Agreement
<1>1. IndInv => Agreement
  <2> SUFFICES ASSUME IndInv, NEW h \in Half, Quiet(h)
               PROVE  us[h] = him[h] /\ us[h] \in {"No", "Yes"}
    BY DEF Agreement
  <2>1. Point(h) /\ offers[h] = << >> /\ demands[h] = << >>
    BY DEF IndInv, Quiet
  <2>2. \A a, b : <<a>> # << >> /\ <<a, b>> # << >>
    BY Queues
  <2> QED
    BY <2>1, <2>2
       DEF Point, Settled, Enabling, Disabling, Reversing, At
<1> QED
  BY <1>1, Invariance, PTL

(* The branches of the handlers marked as conflicts are dead code between  *)
(* two Negotiators.                                                        *)
THEOREM ConflictsUnreachable == PairSpec => []NoConflict
<1>1. IndInv => NoConflict
  <2> SUFFICES ASSUME IndInv, NEW h \in Half
               PROVE /\ offers[h] # << >> /\ Head(offers[h]) = CmdWill => him[h] # "WantNo"
                     /\ demands[h] # << >> /\ Head(demands[h]) = CmdDo => us[h] # "WantNo"
    BY DEF NoConflict
  <2>1. \A a, b : Head(<<a>>) = a /\ Head(<<a, b>>) = a
    BY Queues
  <2>2. CmdWill # CmdWont /\ CmdDo # CmdDont
    BY DEF CmdWill, CmdWont, CmdDo, CmdDont
  <2> QED
    BY <2>1, <2>2
       DEF IndInv, Point, Settled, Enabling, Disabling,
           Reversing, At
<1> QED
  BY <1>1, Invariance, PTL
----------------------------------------------------------------------------
(* There are two endpoints, each the other's peer. *)
LEMMA Peers ==
    ASSUME NEW e \in End
    PROVE  /\ Peer(e) \in End /\ Peer(e) # e /\ Peer(Peer(e)) = e
           /\ \A d \in End : d = e \/ d = Peer(e)
<1>1. PICK a \in End, b \in End : a # b /\ End = {a, b}
  BY EndAssumption
<1>2. \A d \in End : Peer(d) \in End /\ Peer(d) # d
  BY <1>1 DEF Peer
<1> QED
  BY <1>1, <1>2

(* The elements of a sequence, by its positions. *)
LEMMA InToSet ==
    ASSUME NEW S, NEW s \in Seq(S), NEW x
    PROVE  x \in ToSet(s) <=> \E k \in 1..Len(s) : s[k] = x
<1>1. DOMAIN s = 1..Len(s)
  OBVIOUS
<1> QED
  BY <1>1 DEF ToSet

(* The empty sequence has none ... *)
LEMMA ToSetEmpty == ASSUME NEW s, s = << >> PROVE ToSet(s) = {}
  BY DEF ToSet

(* ... one put at the end is one more, ... *)
LEMMA ToSetAppend ==
    ASSUME NEW S, NEW s \in Seq(S), NEW x \in S
    PROVE  ToSet(Append(s, x)) = ToSet(s) \cup {x}
<1> DEFINE t == Append(s, x)
           n == Len(s)
<1>1. n \in Nat /\ t \in Seq(S) /\ Len(t) = n + 1 /\ t[n + 1] = x
      /\ \A k \in 1..n : t[k] = s[k]
  BY AppendProperties
<1>2. ASSUME NEW y PROVE y \in ToSet(t) <=> y \in ToSet(s) \cup {x}
  <2> HIDE DEF t
  <2>1. y \in ToSet(t) <=> \E k \in 1..(n + 1) : t[k] = y
    BY <1>1, InToSet
  <2>2. y \in ToSet(s) <=> \E k \in 1..n : s[k] = y
    BY InToSet
  <2> HIDE DEF n
  <2>3. \A k : k \in 1..(n + 1) <=> k \in 1..n \/ k = n + 1
    BY <1>1
  <2> QED
    BY <1>1, <2>1, <2>2, <2>3
<1> QED
  BY <1>2

(* ... and a concatenation has those of both parts. *)
LEMMA ToSetConcat ==
    ASSUME NEW S, NEW s \in Seq(S), NEW t \in Seq(S)
    PROVE  ToSet(s \o t) = ToSet(s) \cup ToSet(t)
<1> DEFINE u == s \o t
           n == Len(s)
           m == Len(t)
<1>1. /\ n \in Nat /\ m \in Nat /\ u \in Seq(S) /\ Len(u) = n + m
      /\ \A k \in 1..(n + m) : u[k] = IF k <= n THEN s[k] ELSE t[k - n]
  BY ConcatProperties
<1>2. ASSUME NEW y PROVE y \in ToSet(u) <=> y \in ToSet(s) \cup ToSet(t)
  <2> HIDE DEF u
  <2>1. y \in ToSet(u) <=> \E k \in 1..(n + m) : u[k] = y
    BY <1>1, InToSet
  <2>2. y \in ToSet(s) <=> \E k \in 1..n : s[k] = y
    BY InToSet
  <2>3. y \in ToSet(t) <=> \E k \in 1..m : t[k] = y
    BY InToSet
  <2> HIDE DEF n, m
  <2>4. ASSUME y \in ToSet(u) PROVE y \in ToSet(s) \cup ToSet(t)
    <3>1. PICK k \in 1..(n + m) : u[k] = y
      BY <2>1, <2>4
    <3>2. (k <= n /\ k \in 1..n) \/ (~(k <= n) /\ k - n \in 1..m)
      BY <1>1
    <3> QED
      BY <1>1, <2>2, <2>3, <3>1, <3>2
  <2>5. ASSUME y \in ToSet(s) PROVE y \in ToSet(u)
    <3>1. PICK k \in 1..n : s[k] = y
      BY <2>2, <2>5
    <3>2. k \in 1..(n + m) /\ k <= n
      BY <1>1
    <3> QED
      BY <1>1, <2>1, <3>1, <3>2
  <2>6. ASSUME y \in ToSet(t) PROVE y \in ToSet(u)
    <3>1. PICK k \in 1..m : t[k] = y
      BY <2>3, <2>6
    <3>2. k + n \in 1..(n + m) /\ ~(k + n <= n) /\ (k + n) - n = k
      BY <1>1
    <3> QED
      BY <1>1, <2>1, <3>1, <3>2
  <2> QED
    BY <2>4, <2>5, <2>6
<1> QED
  BY <1>2

(* A read cuts a sequence in two and loses nothing. *)
LEMMA ToSetCut ==
    ASSUME NEW S, NEW s \in Seq(S), NEW k \in 0..Len(s)
    PROVE  /\ SubSeq(s, 1, k) \in Seq(S) /\ SubSeq(s, k + 1, Len(s)) \in Seq(S)
           /\ ToSet(s) = ToSet(SubSeq(s, 1, k)) \cup ToSet(SubSeq(s, k + 1, Len(s)))
<1> DEFINE n == Len(s)
           a == SubSeq(s, 1, k)
           b == SubSeq(s, k + 1, n)
<1>1. n \in Nat /\ k \in 0..n /\ k \in Nat /\ 1 \in 1..(n + 1) /\ 0 \in Nat
  OBVIOUS
<1>2. \A i \in 1..n : s[i] \in S
  OBVIOUS
<1>3. a \in Seq(S)
  BY <1>1, <1>2, SubSeqProperties
<1>4. b \in Seq(S)
  BY <1>1, <1>2, SubSeqProperties
<1>5. s = a \o b
  <2>1. 1 \in 1..(Len(s) + 1) /\ k \in (1 - 1)..Len(s) /\ Len(s) \in k..Len(s)
    BY <1>1
  <2>2. SubSeq(s, 1, k) \o SubSeq(s, k + 1, Len(s)) = SubSeq(s, 1, Len(s))
    BY <2>1, ConcatAdjacentSubSeq
  <2> QED
    BY <2>2, SubSeqFull
<1> HIDE DEF a, b
<1>6. ToSet(s) = ToSet(a) \cup ToSet(b)
  BY <1>3, <1>4, <1>5, ToSetConcat
<1> QED
  BY <1>3, <1>4, <1>6 DEF a, b

(* The first element, and the rest. *)
LEMMA ToSetFirst ==
    ASSUME NEW S, NEW s \in Seq(S), s # << >>
    PROVE  /\ Tail(s) \in Seq(S) /\ s[1] \in S
           /\ ToSet(s) = {s[1]} \cup ToSet(Tail(s))
<1> DEFINE n == Len(s)
           t == Tail(s)
<1>1. /\ n \in Nat /\ n # 0 /\ t \in Seq(S) /\ Len(t) = n - 1 /\ s[1] \in S
      /\ \A k \in 1..(n - 1) : t[k] = s[k + 1]
  BY HeadTailProperties
<1>2. ASSUME NEW y PROVE y \in ToSet(s) <=> y = s[1] \/ y \in ToSet(t)
  <2> HIDE DEF t
  <2>1. y \in ToSet(t) <=> \E k \in 1..(n - 1) : t[k] = y
    BY <1>1, InToSet
  <2>2. y \in ToSet(s) <=> \E k \in 1..n : s[k] = y
    BY InToSet
  <2> HIDE DEF n
  <2>3. ASSUME y \in ToSet(s) PROVE y = s[1] \/ y \in ToSet(t)
    <3>1. PICK k \in 1..n : s[k] = y
      BY <2>2, <2>3
    <3>2. k = 1 \/ (k - 1 \in 1..(n - 1) /\ (k - 1) + 1 = k)
      BY <1>1
    <3> QED
      BY <1>1, <2>1, <3>1, <3>2
  <2>4. ASSUME y \in ToSet(t) PROVE y \in ToSet(s)
    <3>1. PICK k \in 1..(n - 1) : t[k] = y
      BY <2>1, <2>4
    <3>2. k + 1 \in 1..n
      BY <1>1
    <3> QED
      BY <1>1, <2>2, <3>1, <3>2
  <2>5. s[1] \in ToSet(s)
    <3>1. 1 \in 1..n
      BY <1>1
    <3> QED
      BY <3>1, InToSet DEF n
  <2> QED
    BY <2>3, <2>4, <2>5
<1> QED
  BY <1>1, <1>2

(* A finite set as a sequence: each of its elements, in some order. *)
LEMMA SetAsSeq ==
    ASSUME NEW S, IsFiniteSet(S)
    PROVE  SetToSeq(S) \in Seq(S) /\ ToSet(SetToSeq(S)) = S
<1> DEFINE n == Cardinality(S)
           f == SetToSeq(S)
<1>1. n \in Nat /\ ExistsBijection(1..n, S)
  BY FS_CardinalityType
<1>2. f \in [1..n -> S] /\ IsInjective(f)
  <2>1. \E g \in [1..n -> S] : IsInjective(g)
    BY <1>1 DEF ExistsBijection, Bijection, Injection
  <2> QED
    BY <2>1 DEF SetToSeq
<1> HIDE DEF f
<1>3. f \in Injection(1..n, S)
  BY <1>2 DEF Injection
<1>4. Cardinality(1..n) = n
  BY <1>1, FS_Interval
<1>5. f \in Surjection(1..n, S)
  BY <1>3, <1>4, FS_Injection
<1>6. f \in Seq(S) /\ DOMAIN f = 1..n
  BY <1>1, <1>2
<1>7. ToSet(f) = S
  BY <1>2, <1>5, <1>6 DEF ToSet, Surjection
<1> QED
  BY <1>6, <1>7 DEF f
----------------------------------------------------------------------------
Verbs   == {CmdWill, CmdWont, CmdDo, CmdDont}
Command == Verbs \X Option

ConnTyped ==
    /\ up \in [End -> BOOLEAN]
    /\ us \in [End -> [Option -> {"No", "Yes"}]]
    /\ him \in [End -> [Option -> {"No", "Yes"}]]
    /\ pend \in [End -> Seq(Command)] /\ wbuf \in [End -> Seq(Command)]
    /\ wire \in [End -> Seq(Command)]
    /\ unsent \subseteq AppCommands

(* What e has sent and its peer has not read, and all that is on its way   *)
(* to e: not read, or read and not yet treated.                            *)
Queued(e)   == ToSet(wbuf[e]) \cup ToSet(wire[Peer(e)])
InFlight(e) == Queued(Peer(e)) \cup ToSet(pend[e])

(* What SendCommand leaves: the buffers are typed, and what was queued     *)
(* from e is still there, with the commands R.                             *)
Adds(e, R) ==
    /\ wbuf' \in [End -> Seq(Command)] /\ wire' \in [End -> Seq(Command)]
    /\ Queued(e)' = Queued(e) \cup R
    /\ Queued(Peer(e))' = Queued(Peer(e))

(* Appending to the buffer, ... *)
LEMMA AddsBuffered ==
    ASSUME ConnTyped, NEW e \in End, NEW c \in Command,
           wbuf' = [wbuf EXCEPT ![e] = Append(@, c)], UNCHANGED wire
    PROVE  Adds(e, {c})
<1>1. Peer(e) \in End /\ Peer(e) # e /\ Peer(Peer(e)) = e
  BY Peers
<1>2. /\ wbuf[e] \in Seq(Command)
      /\ wbuf \in [End -> Seq(Command)]
      /\ wire \in [End -> Seq(Command)]
  BY DEF ConnTyped
<1>3. /\ Append(wbuf[e], c) \in Seq(Command)
      /\ ToSet(Append(wbuf[e], c)) = ToSet(wbuf[e]) \cup {c}
  BY <1>2, AppendProperties, ToSetAppend
<1>4. wbuf'[e] = Append(wbuf[e], c) /\ wbuf'[Peer(e)] = wbuf[Peer(e)] /\ wire' = wire
      /\ wbuf' \in [End -> Seq(Command)]
  BY <1>1, <1>2, <1>3
<1> QED
  BY <1>1, <1>2, <1>3, <1>4 DEF Adds, Queued

(* ... flushing it first, ... *)
LEMMA AddsFlushed ==
    ASSUME ConnTyped, NEW e \in End, NEW s \in Seq(Command),
           wire' = [wire EXCEPT ![Peer(e)] = @ \o wbuf[e]],
           wbuf' = [wbuf EXCEPT ![e] = s]
    PROVE  Adds(e, ToSet(s))
<1>1. Peer(e) \in End /\ Peer(e) # e /\ Peer(Peer(e)) = e
  BY Peers
<1>2. /\ wbuf[e] \in Seq(Command) /\ wire[Peer(e)] \in Seq(Command)
      /\ wbuf \in [End -> Seq(Command)] /\ wire \in [End -> Seq(Command)]
  BY <1>1 DEF ConnTyped
<1>3. /\ wire[Peer(e)] \o wbuf[e] \in Seq(Command)
      /\ ToSet(wire[Peer(e)] \o wbuf[e]) = ToSet(wire[Peer(e)]) \cup ToSet(wbuf[e])
  BY <1>2, ConcatProperties, ToSetConcat
<1>4. /\ wbuf'[e] = s /\ wbuf'[Peer(e)] = wbuf[Peer(e)] /\ wbuf' \in [End -> Seq(Command)]
      /\ wire'[Peer(e)] = wire[Peer(e)] \o wbuf[e] /\ wire'[e] = wire[e]
      /\ wire' \in [End -> Seq(Command)]
  BY <1>1, <1>2, <1>3
<1> QED
  BY <1>1, <1>3, <1>4 DEF Adds, Queued

(* ... as SendCommand does. *)
LEMMA SendAdds ==
    ASSUME ConnTyped, NEW e \in End, NEW cmd \in Verbs, NEW o \in Option,
           SendCommand(e, cmd, o)
    PROVE  Adds(e, {<<cmd, o>>})
<1> DEFINE c == <<cmd, o>>
           s == <<c>>
<1>1. c \in Command
  BY DEF Command
<1>2. s \in Seq(Command) /\ ToSet(s) = {c}
  BY <1>1 DEF ToSet
<1>3. CASE Len(wbuf[e]) < WriteCap
  BY <1>1, <1>3, AddsBuffered DEF SendCommand
<1>4. CASE ~(Len(wbuf[e]) < WriteCap)
  <2>1. wire' = [wire EXCEPT ![Peer(e)] = @ \o wbuf[e]] /\ wbuf' = [wbuf EXCEPT ![e] = s]
    BY <1>4 DEF SendCommand
  <2> HIDE DEF s
  <2>2. Adds(e, ToSet(s))
    BY <1>2, <2>1, AddsFlushed
  <2> QED
    BY <1>2, <2>2
<1> QED
  BY <1>3, <1>4
----------------------------------------------------------------------------
(* Where the two ends disagree, a command that tells one of them is in     *)
(* flight.                                                                 *)
Balanced(e, o) ==
    /\ us[e][o] = "No" /\ him[Peer(e)][o] = "Yes"
          => <<CmdDo, o>> \in InFlight(e) \/ <<CmdWont, o>> \in InFlight(Peer(e))
    /\ us[e][o] = "Yes" /\ him[Peer(e)][o] = "No"
          => <<CmdDont, o>> \in InFlight(e) \/ <<CmdWill, o>> \in InFlight(Peer(e))

Balance == \A e \in End, o \in Option : Balanced(e, o)

(* An enabled option is offered and neither side speaks against it. *)
Offered(e, o) ==
    /\ <<CmdWont, o>> \notin InFlight(Peer(e))
    /\ <<CmdDont, o>> \notin InFlight(e)
    /\ up[e] => him[Peer(e)][o] = "Yes" \/ <<CmdWill, o>> \in InFlight(Peer(e))

Offers == \A e \in End : \A o \in Enabled[e] : Offered(e, o)

(* A step that leaves the fields alone and loses no command keeps the      *)
(* balance.                                                                *)
LEMMA BalanceKept ==
    ASSUME Balance, us' = us, him' = him, \A e \in End : InFlight(e) \subseteq InFlight(e)'
    PROVE  Balance'
<1> SUFFICES ASSUME NEW e \in End, NEW o \in Option PROVE Balanced(e, o)'
  BY Zenon DEF Balance
<1>1. Balanced(e, o) /\ Peer(e) \in End
  BY Peers DEF Balance
<1>2. InFlight(e) \subseteq InFlight(e)' /\ InFlight(Peer(e)) \subseteq InFlight(Peer(e))'
  BY <1>1
<1> QED
  BY <1>1, <1>2 DEF Balanced

(* What happens to a command: the end that treats it may answer.  A is     *)
(* what it stores, r its answer.                                           *)
Treated(e, cmd, o, r) ==
    /\ r \in Verbs \cup {Nothing}
    /\ \/ /\ cmd = CmdDo /\ o \in Enabled[e]
          /\ us' = [us EXCEPT ![e][o] = "Yes"] /\ him' = him
          /\ r = IF us[e][o] = "No" THEN CmdWill ELSE Nothing
       \/ cmd = CmdDo /\ o \notin Enabled[e] /\ us' = us /\ him' = him /\ r = CmdWont
       \/ /\ cmd = CmdDont
          /\ us' = [us EXCEPT ![e][o] = "No"] /\ him' = him
          /\ r = IF us[e][o] = "Yes" THEN CmdWont ELSE Nothing
       \/ /\ cmd = CmdWill /\ o \in Supported
          /\ him' = [him EXCEPT ![e][o] = "Yes"] /\ us' = us
          /\ r = IF him[e][o] = "No" THEN CmdDo ELSE Nothing
       \/ cmd = CmdWill /\ o \notin Supported /\ us' = us /\ him' = him /\ r = CmdDont
       \/ /\ cmd = CmdWont
          /\ him' = [him EXCEPT ![e][o] = "No"] /\ us' = us
          /\ r = IF him[e][o] = "Yes" THEN CmdDont ELSE Nothing

(* The answer, as a set. *)
Answer(o, r) == IF r = Nothing THEN {} ELSE {<<r, o>>}

(* What negotiate does, answer by answer. *)
LEMMA NegotiateTreats ==
    ASSUME ConnTyped, NEW e \in End, NEW cmd \in Verbs, NEW o \in Option,
           negotiate(e, cmd, o)
    PROVE  \E r : Treated(e, cmd, o, r) /\ Adds(e, Answer(o, r))
<1>1. us[e][o] \in {"No", "Yes"} /\ him[e][o] \in {"No", "Yes"}
  BY DEF ConnTyped
<1>2. UNCHANGED <<wbuf, wire>> => Adds(e, {})
  BY Peers DEF ConnTyped, Adds, Queued
<1>3. ASSUME NEW r \in Verbs \cup {Nothing}, Respond(e, o, r) PROVE Adds(e, Answer(o, r))
  <2>1. CASE r = Nothing
    BY <1>2, <1>3, <2>1 DEF Respond, Answer
  <2>2. CASE r # Nothing
    BY <1>3, <2>2, SendAdds DEF Respond, Answer
  <2> QED
    BY <2>1, <2>2
<1>4. CASE Refuse(e, cmd, o) /\ UNCHANGED <<us, him>>
  <2>1. CASE cmd = CmdDo /\ ~isOptionEnabledLocally(e, o) /\ SendCommand(e, CmdWont, o)
    <3>1. Treated(e, cmd, o, CmdWont)
      BY <1>4, <2>1 DEF Treated, isOptionEnabledLocally, Verbs
    <3>2. Adds(e, Answer(o, CmdWont))
      BY <2>1, SendAdds DEF Answer, Verbs, CmdWont, Nothing
    <3> QED
      BY <3>1, <3>2
  <2>2. CASE cmd = CmdWill /\ ~isOptionSupported(o) /\ SendCommand(e, CmdDont, o)
    <3>1. Treated(e, cmd, o, CmdDont)
      BY <1>4, <2>2 DEF Treated, isOptionSupported, Verbs
    <3>2. Adds(e, Answer(o, CmdDont))
      BY <2>2, SendAdds DEF Answer, Verbs, CmdDont, Nothing
    <3> QED
      BY <3>1, <3>2
  <2> QED
    BY <1>4, <2>1, <2>2 DEF Refuse
<1>5. CASE /\ cmd = CmdDo => isOptionEnabledLocally(e, o)
           /\ cmd \in {CmdDo, CmdDont}
           /\ LET r == Handle(cmd, us[e][o])
              IN us' = [us EXCEPT ![e][o] = r.state] /\ Respond(e, o, r.response)
           /\ UNCHANGED him
  <2> DEFINE h == Handle(cmd, us[e][o])
  <2>1. /\ cmd = CmdDo => /\ h.state = "Yes"
                          /\ h.response = IF us[e][o] = "No" THEN CmdWill ELSE Nothing
        /\ cmd = CmdDont => /\ h.state = "No"
                            /\ h.response = IF us[e][o] = "Yes" THEN CmdWont ELSE Nothing
        /\ h.response \in Verbs \cup {Nothing}
    BY <1>1, <1>5 DEF Handle, handleDo, handleDont, Outcome,
                          CmdDo, CmdDont, CmdWill, CmdWont, Verbs, Nothing
  <2>2. us' = [us EXCEPT ![e][o] = h.state] /\ Respond(e, o, h.response) /\ him' = him
    BY <1>5
  <2> HIDE DEF h
  <2>3. Treated(e, cmd, o, h.response)
    BY <1>5, <2>1, <2>2 DEF Treated, isOptionEnabledLocally
  <2> QED
    BY <1>3, <2>1, <2>2, <2>3
<1>6. CASE /\ cmd = CmdWill => isOptionSupported(o)
           /\ cmd \in {CmdWill, CmdWont}
           /\ LET r == Handle(cmd, him[e][o])
              IN him' = [him EXCEPT ![e][o] = r.state] /\ Respond(e, o, r.response)
           /\ UNCHANGED us
  <2> DEFINE h == Handle(cmd, him[e][o])
  <2>1. /\ cmd = CmdWill => /\ h.state = "Yes"
                            /\ h.response = IF him[e][o] = "No" THEN CmdDo ELSE Nothing
        /\ cmd = CmdWont => /\ h.state = "No"
                            /\ h.response = IF him[e][o] = "Yes" THEN CmdDont ELSE Nothing
        /\ h.response \in Verbs \cup {Nothing}
    BY <1>1, <1>6 DEF Handle, handleWill, handleWont, Outcome,
                          CmdDo, CmdDont, CmdWill, CmdWont, Verbs, Nothing
  <2>2. him' = [him EXCEPT ![e][o] = h.state] /\ Respond(e, o, h.response) /\ us' = us
    BY <1>6
  <2> HIDE DEF h
  <2>3. Treated(e, cmd, o, h.response)
    BY <1>6, <2>1, <2>2 DEF Treated, isOptionSupported
  <2> QED
    BY <1>3, <2>1, <2>2, <2>3
<1> QED
  BY <1>4, <1>5, <1>6 DEF negotiate
----------------------------------------------------------------------------
(* The end e takes <<cmd, o>> from its queue and answers r. *)
Moves(e, cmd, o, r) ==
    /\ Treated(e, cmd, o, r)
    /\ <<cmd, o>> \in InFlight(e)
    /\ InFlight(e) \subseteq InFlight(e)' \cup {<<cmd, o>>}
    /\ InFlight(e)' \subseteq InFlight(e)
    /\ InFlight(Peer(e))' = InFlight(Peer(e)) \cup Answer(o, r)

(* A field that is set stays a field. *)
LEMMA FieldSet ==
    ASSUME NEW F \in [End -> [Option -> {"No", "Yes"}]], NEW e \in End, NEW o \in Option,
           NEW v \in {"No", "Yes"}
    PROVE  [F EXCEPT ![e][o] = v] \in [End -> [Option -> {"No", "Yes"}]]
  OBVIOUS

(* Process does that with the first command of the read. *)
LEMMA ProcessMoves ==
    ASSUME ConnTyped, NEW e \in End, Process(e)
    PROVE  \E cmd \in Verbs, o \in Option : \E r :
              /\ Moves(e, cmd, o, r) /\ ConnTyped'
              /\ UNCHANGED up
<1> DEFINE f == Peer(e)
           c == pend[e][1]
<1>1. f \in End /\ f # e /\ Peer(f) = e
  BY Peers
<1>2. /\ pend \in [End -> Seq(Command)] /\ pend[e] \in Seq(Command) /\ pend[e] # << >>
      /\ pend' = [pend EXCEPT ![e] = Tail(@)] /\ up' = up /\ unsent' = unsent
      /\ negotiate(e, c[1], c[2])
  BY DEF Process, ConnTyped
<1>3. /\ Tail(pend[e]) \in Seq(Command) /\ c \in Command
      /\ ToSet(pend[e]) = {c} \cup ToSet(Tail(pend[e]))
  BY <1>2, ToSetFirst
<1>4. pend'[e] = Tail(pend[e]) /\ pend'[f] = pend[f] /\ pend' \in [End -> Seq(Command)]
  BY <1>1, <1>2, <1>3
<1>5. c[1] \in Verbs /\ c[2] \in Option /\ c = <<c[1], c[2]>>
  BY <1>3 DEF Command
<1> HIDE DEF c
<1>6. PICK r : Treated(e, c[1], c[2], r) /\ Adds(e, Answer(c[2], r))
  BY <1>2, <1>5, NegotiateTreats
<1>7. Moves(e, c[1], c[2], r)
  <2>1. /\ InFlight(e) = Queued(f) \cup ToSet(pend[e])
        /\ InFlight(f) = Queued(e) \cup ToSet(pend[f])
    BY <1>1 DEF InFlight
  <2>2. /\ InFlight(e)' = Queued(f)' \cup ToSet(pend'[e])
        /\ InFlight(f)' = Queued(e)' \cup ToSet(pend'[f])
    BY <1>1 DEF InFlight
  <2>3. Queued(f)' = Queued(f) /\ Queued(e)' = Queued(e) \cup Answer(c[2], r)
    BY <1>6 DEF Adds
  <2>4. InFlight(f)' = InFlight(f) \cup Answer(c[2], r)
    BY <1>4, <2>1, <2>2, <2>3
  <2>5. /\ c \in InFlight(e) /\ InFlight(e) \subseteq InFlight(e)' \cup {c}
        /\ InFlight(e)' \subseteq InFlight(e)
    BY <1>3, <1>4, <2>1, <2>2, <2>3
  <2> QED
    BY <1>5, <1>6, <2>4, <2>5 DEF Moves
<1>8. ConnTyped'
  <2>1. us' \in [End -> [Option -> {"No", "Yes"}]] /\ him' \in [End -> [Option -> {"No", "Yes"}]]
    <3>1. us \in [End -> [Option -> {"No", "Yes"}]] /\ him \in [End -> [Option -> {"No", "Yes"}]]
      BY DEF ConnTyped
    <3>2. /\ us' = us \/ \E v \in {"No", "Yes"} : us' = [us EXCEPT ![e][c[2]] = v]
          /\ him' = him \/ \E v \in {"No", "Yes"} : him' = [him EXCEPT ![e][c[2]] = v]
      BY <1>6 DEF Treated
    <3>3. us' \in [End -> [Option -> {"No", "Yes"}]]
      <4>1. CASE us' = us
        BY <3>1, <4>1
      <4>2. CASE us' # us
        <5>1. PICK v \in {"No", "Yes"} : us' = [us EXCEPT ![e][c[2]] = v]
          BY <3>2, <4>2
        <5> QED
          BY <1>5, <3>1, <5>1, FieldSet
      <4> QED
        BY <4>1, <4>2
    <3>4. him' \in [End -> [Option -> {"No", "Yes"}]]
      <4>1. CASE him' = him
        BY <3>1, <4>1
      <4>2. CASE him' # him
        <5>1. PICK v \in {"No", "Yes"} : him' = [him EXCEPT ![e][c[2]] = v]
          BY <3>2, <4>2
        <5> QED
          BY <1>5, <3>1, <5>1, FieldSet
      <4> QED
        BY <4>1, <4>2
    <3> QED
      BY <3>3, <3>4
  <2>2. wbuf' \in [End -> Seq(Command)] /\ wire' \in [End -> Seq(Command)]
    BY <1>6 DEF Adds
  <2> QED
    BY <1>2, <1>4, <2>1, <2>2, Zenon DEF ConnTyped
<1> QED
  BY <1>2, <1>5, <1>7, <1>8

(* The balance holds for what the end that treats the command performs ... *)
LEMMA BalancePerformer ==
    ASSUME ConnTyped, Balance, NEW e \in End, NEW cmd \in Verbs, NEW o \in Option, NEW r,
           Moves(e, cmd, o, r), NEW q \in Option
    PROVE  Balanced(e, q)'
<1> DEFINE f == Peer(e)
<1>1. f \in End /\ f # e /\ Balanced(e, q)
  BY Peers DEF Balance
<1>2. /\ us[e][q] \in {"No", "Yes"} /\ us \in [End -> [Option -> {"No", "Yes"}]]
      /\ him \in [End -> [Option -> {"No", "Yes"}]]
  BY DEF ConnTyped
<1>3. him'[f][q] = him[f][q]
  BY <1>1, <1>2 DEF Moves, Treated
<1>4. \A v : <<v, q>> \in InFlight(f) => <<v, q>> \in InFlight(f)'
  BY DEF Moves
<1>5. \A v : <<v, q>> \in InFlight(e) /\ (q # o \/ v # cmd) => <<v, q>> \in InFlight(e)'
  BY DEF Moves
<1> HIDE DEF f
<1>6. CASE q # o
  <2>1. us'[e][q] = us[e][q]
    BY <1>2, <1>6 DEF Moves, Treated
  <2> QED
    BY <1>1, <1>3, <1>4, <1>5, <1>6, <2>1 DEF Balanced, f
<1>7. CASE q = o
  <2>1. r # Nothing => <<r, q>> \in InFlight(f)'
    BY <1>7 DEF Moves, Answer, f
  <2>2. CASE cmd = CmdDo /\ o \in Enabled[e]
    <3>1. us'[e][q] = "Yes" /\ r = IF us[e][q] = "No" THEN CmdWill ELSE Nothing
      BY <1>2, <1>7, <2>2 DEF Moves, Treated, CmdDo, CmdDont, CmdWill, CmdWont
    <3> QED
      BY <1>1, <1>2, <1>3, <1>4, <1>5, <2>1, <2>2, <3>1
         DEF Balanced, f, CmdDo, CmdDont, CmdWill, CmdWont, Nothing
  <2>3. CASE cmd = CmdDo /\ o \notin Enabled[e]
    <3>1. us'[e][q] = us[e][q] /\ r = CmdWont
      BY <1>2, <1>7, <2>3 DEF Moves, Treated, CmdDo, CmdDont, CmdWill, CmdWont
    <3> QED
      BY <1>1, <1>2, <1>3, <1>4, <1>5, <2>1, <2>3, <3>1
         DEF Balanced, f, CmdDo, CmdDont, CmdWill, CmdWont, Nothing
  <2>4. CASE cmd = CmdDont
    <3>1. us'[e][q] = "No" /\ r = IF us[e][q] = "Yes" THEN CmdWont ELSE Nothing
      BY <1>2, <1>7, <2>4 DEF Moves, Treated, CmdDo, CmdDont, CmdWill, CmdWont
    <3> QED
      BY <1>1, <1>2, <1>3, <1>4, <1>5, <2>1, <2>4, <3>1
         DEF Balanced, f, CmdDo, CmdDont, CmdWill, CmdWont, Nothing
  <2>5. CASE cmd \in {CmdWill, CmdWont}
    <3>1. us'[e][q] = us[e][q]
      BY <1>2, <1>7, <2>5 DEF Moves, Treated, CmdDo, CmdDont, CmdWill, CmdWont
    <3> QED
      BY <1>1, <1>2, <1>3, <1>4, <1>5, <2>1, <2>5, <3>1
         DEF Balanced, f, CmdDo, CmdDont, CmdWill, CmdWont, Nothing
  <2> QED
    BY <2>2, <2>3, <2>4, <2>5 DEF Verbs
<1> QED
  BY <1>6, <1>7

(* ... and for what it knows of its peer. *)
LEMMA BalanceObserver ==
    ASSUME ConnTyped, Balance, NEW e \in End, NEW cmd \in Verbs, NEW o \in Option, NEW r,
           Moves(e, cmd, o, r), NEW q \in Option
    PROVE  Balanced(Peer(e), q)'
<1> DEFINE f == Peer(e)
<1>1. f \in End /\ f # e /\ Peer(f) = e /\ Balanced(f, q)
  BY Peers DEF Balance
<1>2. /\ him[e][q] \in {"No", "Yes"} /\ us \in [End -> [Option -> {"No", "Yes"}]]
      /\ him \in [End -> [Option -> {"No", "Yes"}]]
  BY DEF ConnTyped
<1>3. us'[f][q] = us[f][q]
  BY <1>1, <1>2 DEF Moves, Treated
<1>4. \A v : <<v, q>> \in InFlight(f) => <<v, q>> \in InFlight(f)'
  BY DEF Moves
<1>5. \A v : <<v, q>> \in InFlight(e) /\ (q # o \/ v # cmd) => <<v, q>> \in InFlight(e)'
  BY DEF Moves
<1>6. r # Nothing /\ q = o => <<r, q>> \in InFlight(f)'
  BY DEF Moves, Answer
<1> HIDE DEF f
<1>7. CASE q # o
  <2>1. him'[e][q] = him[e][q]
    BY <1>2, <1>7 DEF Moves, Treated
  <2> QED
    BY <1>1, <1>3, <1>4, <1>5, <1>7, <2>1 DEF Balanced, f
<1>8. CASE q = o
  <2>1. CASE cmd = CmdWill /\ o \in Supported
    <3>1. him'[e][q] = "Yes" /\ r = IF him[e][q] = "No" THEN CmdDo ELSE Nothing
      BY <1>2, <1>8, <2>1 DEF Moves, Treated, CmdDo, CmdDont, CmdWill, CmdWont
    <3> QED
      BY <1>1, <1>2, <1>3, <1>4, <1>5, <1>6, <1>8, <2>1, <3>1
         DEF Balanced, f, CmdDo, CmdDont, CmdWill, CmdWont, Nothing
  <2>2. CASE cmd = CmdWill /\ o \notin Supported
    <3>1. him'[e][q] = him[e][q] /\ r = CmdDont
      BY <1>2, <1>8, <2>2 DEF Moves, Treated, CmdDo, CmdDont, CmdWill, CmdWont
    <3> QED
      BY <1>1, <1>2, <1>3, <1>4, <1>5, <1>6, <1>8, <2>2, <3>1
         DEF Balanced, f, CmdDo, CmdDont, CmdWill, CmdWont, Nothing
  <2>3. CASE cmd = CmdWont
    <3>1. him'[e][q] = "No" /\ r = IF him[e][q] = "Yes" THEN CmdDont ELSE Nothing
      BY <1>2, <1>8, <2>3 DEF Moves, Treated, CmdDo, CmdDont, CmdWill, CmdWont
    <3> QED
      BY <1>1, <1>2, <1>3, <1>4, <1>5, <1>6, <1>8, <2>3, <3>1
         DEF Balanced, f, CmdDo, CmdDont, CmdWill, CmdWont, Nothing
  <2>4. CASE cmd \in {CmdDo, CmdDont}
    <3>1. him'[e][q] = him[e][q]
      BY <1>2, <1>8, <2>4 DEF Moves, Treated, CmdDo, CmdDont, CmdWill, CmdWont
    <3> QED
      BY <1>1, <1>2, <1>3, <1>4, <1>5, <1>6, <1>8, <2>4, <3>1
         DEF Balanced, f, CmdDo, CmdDont, CmdWill, CmdWont, Nothing
  <2> QED
    BY <2>1, <2>2, <2>3, <2>4 DEF Verbs
<1> QED
  BY <1>7, <1>8
----------------------------------------------------------------------------
(* What the other steps have in common: the fields stay, no command in     *)
(* flight is lost and none is added but those sent.                        *)
Carries(e, R) ==
    /\ us' = us /\ him' = him
    /\ InFlight(e)' = InFlight(e)
    /\ InFlight(Peer(e))' = InFlight(Peer(e)) \cup R

(* A step that only sends is one of these. *)
LEMMA SendCarries ==
    ASSUME ConnTyped, NEW e \in End, NEW R, Adds(e, R), UNCHANGED <<us, him, pend>>
    PROVE  Carries(e, R)
<1>1. Peer(Peer(e)) = e
  BY Peers
<1>2. /\ InFlight(e) = Queued(Peer(e)) \cup ToSet(pend[e])
      /\ InFlight(Peer(e)) = Queued(e) \cup ToSet(pend[Peer(e)])
      /\ InFlight(e)' = Queued(Peer(e))' \cup ToSet(pend'[e])
      /\ InFlight(Peer(e))' = Queued(e)' \cup ToSet(pend'[Peer(e)])
  BY <1>1 DEF InFlight
<1> QED
  BY <1>2 DEF Adds, Carries

(* NewConn offers what is enabled. *)
LEMMA NewConnCarries ==
    ASSUME ConnTyped, NEW e \in End, NewConn(e)
    PROVE  Carries(e, {CmdWill} \X Enabled[e]) /\ ConnTyped'
<1> DEFINE f == Peer(e)
           order == SetToSeq(Enabled[e])
           offer == [k \in 1..Len(order) |-> <<CmdWill, order[k]>>]
<1>1. f \in End /\ f # e /\ Peer(f) = e
  BY Peers
<1>2. Enabled[e] \subseteq Option /\ IsFiniteSet(Enabled[e])
  BY OptionAssumption, FS_Subset
<1>3. order \in Seq(Enabled[e]) /\ ToSet(order) = Enabled[e]
  BY <1>2, SetAsSeq
<1>4. /\ wire' = [wire EXCEPT ![f] = @ \o offer] /\ wbuf' = wbuf
      /\ up' = [up EXCEPT ![e] = TRUE] /\ us' = us /\ him' = him
      /\ pend' = pend /\ unsent' = unsent
  BY DEF NewConn
<1> HIDE DEF order
<1>5. offer \in Seq(Command) /\ Len(offer) = Len(order) /\ Len(order) \in Nat
      /\ \A k \in 1..Len(order) : offer[k] = <<CmdWill, order[k]>>
  <2>1. Len(order) \in Nat /\ \A k \in 1..Len(order) : order[k] \in Option
    BY <1>2, <1>3
  <2>2. offer \in [1..Len(order) -> Command]
    BY <2>1 DEF Command, Verbs
  <2>3. \A k \in 1..Len(order) : offer[k] = <<CmdWill, order[k]>>
    OBVIOUS
  <2> HIDE DEF offer
  <2>4. offer \in Seq(Command) /\ Len(offer) = Len(order)
    BY ONLY <2>1, <2>2
  <2> QED
    BY <2>1, <2>3, <2>4
<1> HIDE DEF offer
<1>6. ASSUME NEW x PROVE x \in ToSet(offer) <=> x \in {CmdWill} \X Enabled[e]
  <2>1. x \in ToSet(offer) <=> \E k \in 1..Len(order) : offer[k] = x
    BY <1>5, InToSet
  <2>2. \A y : y \in Enabled[e] <=> \E k \in 1..Len(order) : order[k] = y
    BY <1>3, InToSet
  <2>3. ASSUME NEW k \in 1..Len(order), offer[k] = x PROVE x \in {CmdWill} \X Enabled[e]
    <3>1. order[k] \in Enabled[e] /\ x = <<CmdWill, order[k]>>
      BY <1>5, <2>2, <2>3
    <3> QED
      BY <3>1
  <2>4. ASSUME x \in {CmdWill} \X Enabled[e] PROVE \E k \in 1..Len(order) : offer[k] = x
    <3>1. PICK y \in Enabled[e] : x = <<CmdWill, y>>
      BY <2>4
    <3>2. PICK k \in 1..Len(order) : order[k] = y
      BY <2>2
    <3> QED
      BY <1>5, <3>1, <3>2
  <2> QED
    BY <2>1, <2>3, <2>4
<1>7. /\ wbuf \in [End -> Seq(Command)] /\ wire \in [End -> Seq(Command)]
      /\ wire[f] \in Seq(Command)
  BY <1>1 DEF ConnTyped
<1>8. /\ wire[f] \o offer \in Seq(Command)
      /\ ToSet(wire[f] \o offer) = ToSet(wire[f]) \cup ToSet(offer)
  BY <1>5, <1>7, ConcatProperties, ToSetConcat
<1>9. /\ wire'[f] = wire[f] \o offer /\ wire'[e] = wire[e]
      /\ wire' \in [End -> Seq(Command)]
  BY <1>1, <1>4, <1>7, <1>8
<1>10. Adds(e, {CmdWill} \X Enabled[e])
  <2>1. ToSet(offer) = {CmdWill} \X Enabled[e]
    BY <1>6
  <2> QED
    BY <1>1, <1>4, <1>7, <1>8, <1>9, <2>1 DEF Adds, Queued
<1>11. Carries(e, {CmdWill} \X Enabled[e])
  BY <1>4, <1>10, SendCarries
<1>12. up' \in [End -> BOOLEAN]
  BY <1>4, Zenon DEF ConnTyped
<1>13. ConnTyped'
  BY <1>4, <1>9, <1>12, Zenon DEF ConnTyped
<1> QED
  BY <1>11, <1>13

(* A read keeps the types, whatever it drops ... *)
LEMMA ReadTyped ==
    ASSUME ConnTyped, NEW e \in End, NEW k \in 1..Len(wire[e]), Read(e, k)
    PROVE  ConnTyped' /\ UNCHANGED <<up, us, him>>
<1> DEFINE s == wire[e]
           n == IF k < MaxCmdEvents THEN k ELSE MaxCmdEvents
<1>1. /\ s \in Seq(Command) /\ Len(s) \in Nat /\ k \in 0..Len(s)
      /\ wire \in [End -> Seq(Command)] /\ pend \in [End -> Seq(Command)]
  BY DEF ConnTyped
<1>2. /\ pend' = [pend EXCEPT ![e] = SubSeq(s, 1, n)]
      /\ wire' = [wire EXCEPT ![e] = SubSeq(s, k + 1, Len(s))]
      /\ up' = up /\ us' = us /\ him' = him /\ wbuf' = wbuf /\ unsent' = unsent
  BY DEF Read
<1>3. n \in 0..Len(s)
  BY <1>1, BoundAssumption
<1> HIDE DEF n
<1>4. SubSeq(s, 1, n) \in Seq(Command) /\ SubSeq(s, k + 1, Len(s)) \in Seq(Command)
  BY <1>1, <1>3, ToSetCut
<1>5. pend' \in [End -> Seq(Command)] /\ wire' \in [End -> Seq(Command)]
  BY <1>1, <1>2, <1>4
<1>6. ConnTyped'
  BY <1>2, <1>5, Zenon DEF ConnTyped
<1> QED
  BY <1>2, <1>6

(* ... and one that fits the event table drops nothing. *)
LEMMA ReadCarries ==
    ASSUME ConnTyped, NEW e \in End, NEW k \in 1..Len(wire[e]), Read(e, k),
           Len(wire[e]) - Len(wire'[e]) <= MaxCmdEvents
    PROVE  Carries(e, {})
<1> DEFINE f == Peer(e)
           s == wire[e]
           n == IF k < MaxCmdEvents THEN k ELSE MaxCmdEvents
<1>1. f \in End /\ f # e /\ Peer(f) = e
  BY Peers
<1>2. /\ s \in Seq(Command) /\ Len(s) \in Nat /\ k \in 0..Len(s) /\ k \in Nat
      /\ wire \in [End -> Seq(Command)] /\ pend \in [End -> Seq(Command)]
  BY DEF ConnTyped
<1>3. /\ pend[e] = << >> /\ pend' = [pend EXCEPT ![e] = SubSeq(s, 1, n)]
      /\ wire' = [wire EXCEPT ![e] = SubSeq(s, k + 1, Len(s))]
      /\ us' = us /\ him' = him /\ wbuf' = wbuf
  BY DEF Read
<1>4. /\ SubSeq(s, k + 1, Len(s)) \in Seq(Command)
      /\ ToSet(s) = ToSet(SubSeq(s, 1, k)) \cup ToSet(SubSeq(s, k + 1, Len(s)))
  BY <1>2, ToSetCut
<1>5. wire'[e] = SubSeq(s, k + 1, Len(s)) /\ wire'[f] = wire[f]
  BY <1>1, <1>2, <1>3
<1>6. Len(wire'[e]) = Len(s) - k
  <2>1. \A i \in (k + 1)..Len(s) : s[i] \in Command
    BY <1>2
  <2>2. Len(SubSeq(s, k + 1, Len(s))) = Len(s) - k
    BY <1>2, <2>1, SubSeqProperties
  <2> QED
    BY <1>5, <2>2
<1>7. n = k
  <2>1. k <= MaxCmdEvents /\ MaxCmdEvents \in Nat
    BY <1>2, <1>6, BoundAssumption
  <2> QED
    BY <1>2, <2>1
<1>8. pend'[e] = SubSeq(s, 1, k) /\ pend'[f] = pend[f]
  <2>1. pend' = [pend EXCEPT ![e] = SubSeq(s, 1, k)]
    BY <1>3, <1>7, Zenon
  <2> QED
    BY <1>1, <1>2, <2>1
<1>9. ToSet(pend[e]) = {}
  BY <1>3, ToSetEmpty
<1>10. /\ InFlight(e) = ToSet(wbuf[f]) \cup ToSet(wire[e]) \cup ToSet(pend[e])
       /\ InFlight(f) = ToSet(wbuf[e]) \cup ToSet(wire[f]) \cup ToSet(pend[f])
       /\ InFlight(e)' = ToSet(wbuf'[f]) \cup ToSet(wire'[e]) \cup ToSet(pend'[e])
       /\ InFlight(f)' = ToSet(wbuf'[e]) \cup ToSet(wire'[f]) \cup ToSet(pend'[f])
  BY <1>1 DEF InFlight, Queued
<1> HIDE DEF s, n
<1>11. InFlight(e)' = InFlight(e)
  BY <1>3, <1>4, <1>5, <1>8, <1>9, <1>10 DEF s
<1>12. InFlight(f)' = InFlight(f)
  BY <1>3, <1>5, <1>8, <1>10
<1> QED
  BY <1>3, <1>11, <1>12 DEF Carries

(* The application's own commands. *)
LEMMA AppSendCarries ==
    ASSUME ConnTyped, NEW c \in AppCommands, AppSend(c[1], c[2], c[3])
    PROVE  /\ c[1] \in End /\ Carries(c[1], {<<c[2], c[3]>>}) /\ ConnTyped'
           /\ UNCHANGED up
           /\ c \in AppCommands \ unsent'
<1>1. c[1] \in End /\ c[2] \in Verbs /\ c[3] \in Option
  BY OptionAssumption DEF Verbs
<1>2. /\ unsent' \subseteq unsent /\ up' = up /\ us' = us /\ him' = him /\ pend' = pend
      /\ SendCommand(c[1], c[2], c[3])
  BY DEF AppSend
<1>3. Adds(c[1], {<<c[2], c[3]>>})
  BY <1>1, <1>2, SendAdds
<1>4. Carries(c[1], {<<c[2], c[3]>>})
  BY <1>1, <1>2, <1>3, SendCarries
<1>5. wbuf' \in [End -> Seq(Command)] /\ wire' \in [End -> Seq(Command)]
  BY <1>3 DEF Adds
<1>6. unsent' \subseteq AppCommands
  BY <1>2 DEF ConnTyped
<1>7. ConnTyped'
  BY <1>2, <1>5, <1>6, Zenon DEF ConnTyped
<1>8. c \notin unsent'
  <2>1. c = <<c[1], c[2], c[3]>>
    BY OptionAssumption
  <2>2. unsent' = unsent \ {<<c[1], c[2], c[3]>>}
    BY DEF AppSend
  <2> QED
    BY <2>1, <2>2
<1> QED
  BY <1>1, <1>2, <1>4, <1>7, <1>8

(* A flush moves what is buffered. *)
LEMMA FlushCarries ==
    ASSUME ConnTyped, NEW e \in End, Flush(e)
    PROVE  Carries(e, {}) /\ ConnTyped' /\ UNCHANGED up
<1>1. << >> \in Seq(Command) /\ ToSet(<< >>) = {}
  BY ToSetEmpty
<1>2. /\ wire' = [wire EXCEPT ![Peer(e)] = @ \o wbuf[e]] /\ wbuf' = [wbuf EXCEPT ![e] = << >>]
      /\ up' = up /\ us' = us /\ him' = him /\ pend' = pend /\ unsent' = unsent
  BY DEF Flush
<1>3. Adds(e, ToSet(<< >>))
  BY <1>1, <1>2, AddsFlushed
<1>4. Carries(e, {})
  BY <1>1, <1>2, <1>3, SendCarries
<1>5. wbuf' \in [End -> Seq(Command)] /\ wire' \in [End -> Seq(Command)]
  BY <1>3 DEF Adds
<1>6. ConnTyped'
  BY <1>2, <1>5, Zenon DEF ConnTyped
<1> QED
  BY <1>2, <1>4, <1>6
----------------------------------------------------------------------------
(* No step but a read takes commands from the wire: none takes more than   *)
(* the event table keeps.                                                  *)
Fits == \A e \in End : Len(wire[e]) - Len(wire'[e]) <= MaxCmdEvents

(* What the applications have sent stays sent. *)
LEMMA StaysSent == ASSUME [Next]_vars PROVE unsent' \subseteq unsent
  BY DEF Next, vars, NewConn, ReadSome, Read, Process, AppSend, Flush

(* Every step keeps the types, and the fields unless it treats a command. *)
LEMMA StepsTyped ==
    ASSUME ConnTyped, Next
    PROVE  /\ ConnTyped'
           /\ \/ us' = us /\ him' = him
              \/ \E e \in End, cmd \in Verbs, o \in Option : \E r : Moves(e, cmd, o, r)
<1> PICK e \in End : \/ NewConn(e)
                     \/ ReadSome(e)
                     \/ Process(e)
                     \/ \E c \in AppCommands : c[1] = e /\ AppSend(e, c[2], c[3])
                     \/ Flush(e)
  BY DEF Next
<1>1. CASE NewConn(e)
  BY <1>1, NewConnCarries DEF Carries
<1>2. CASE ReadSome(e)
  BY <1>2, ReadTyped DEF ReadSome
<1>3. CASE Process(e)
  BY <1>3, ProcessMoves, Zenon
<1>4. CASE \E c \in AppCommands : c[1] = e /\ AppSend(e, c[2], c[3])
  BY <1>4, AppSendCarries, Zenon DEF Carries
<1>5. CASE Flush(e)
  BY <1>5, FlushCarries, Zenon DEF Carries
<1> QED
  BY <1>1, <1>2, <1>3, <1>4, <1>5

(* A step that drops nothing carries commands on or treats one. *)
LEMMA Steps ==
    ASSUME ConnTyped, Next, Fits
    PROVE  \E e \in End :
              \/ NewConn(e) /\ Carries(e, {CmdWill} \X Enabled[e])
              \/ up' = up /\ Carries(e, {})
              \/ up' = up /\ \E c \in AppCommands \ unsent' : Carries(e, {<<c[2], c[3]>>})
              \/ up' = up /\ \E cmd \in Verbs, o \in Option : \E r : Moves(e, cmd, o, r)
<1> PICK e \in End : \/ NewConn(e)
                     \/ ReadSome(e)
                     \/ Process(e)
                     \/ \E c \in AppCommands : c[1] = e /\ AppSend(e, c[2], c[3])
                     \/ Flush(e)
  BY DEF Next
<1>1. CASE NewConn(e)
  BY <1>1, NewConnCarries
<1>2. CASE ReadSome(e)
  <2>1. PICK k \in 1..Len(wire[e]) : Read(e, k)
    BY <1>2 DEF ReadSome
  <2>2. Len(wire[e]) - Len(wire'[e]) <= MaxCmdEvents
    BY DEF Fits
  <2>3. Carries(e, {}) /\ up' = up
    BY <2>1, <2>2, ReadCarries, ReadTyped
  <2> QED
    BY <2>3
<1>3. CASE Process(e)
  BY <1>3, ProcessMoves, Zenon
<1>4. CASE \E c \in AppCommands : c[1] = e /\ AppSend(e, c[2], c[3])
  BY <1>4, AppSendCarries, Zenon
<1>5. CASE Flush(e)
  BY <1>5, FlushCarries, Zenon
<1> QED
  BY <1>1, <1>2, <1>3, <1>4, <1>5

(* The balance is kept by every step that loses nothing. *)
LEMMA BalanceStep ==
    ASSUME ConnTyped, Balance, Next, Fits
    PROVE  Balance'
<1>1. ASSUME NEW e \in End, NEW R, Carries(e, R) PROVE Balance'
  <2>1. us' = us /\ him' = him
    BY <1>1 DEF Carries
  <2>2. ASSUME NEW d \in End PROVE InFlight(d) \subseteq InFlight(d)'
    <3>1. d = e \/ d = Peer(e)
      BY Peers
    <3> QED
      BY <1>1, <3>1 DEF Carries
  <2> QED
    BY <2>1, <2>2, BalanceKept
<1>2. ASSUME NEW e \in End, NEW cmd \in Verbs, NEW o \in Option, NEW r, Moves(e, cmd, o, r)
      PROVE  Balance'
  <2> SUFFICES ASSUME NEW d \in End, NEW q \in Option PROVE Balanced(d, q)'
    BY Zenon DEF Balance
  <2>1. d = e \/ d = Peer(e)
    BY Peers
  <2>2. Balanced(e, q)'
    BY <1>2, BalancePerformer
  <2>3. Balanced(Peer(e), q)'
    BY <1>2, BalanceObserver
  <2> QED
    BY <2>1, <2>2, <2>3
<1> QED
  BY <1>1, <1>2, Steps, Zenon
----------------------------------------------------------------------------
(* Only an enabled option is ever performed, only a known one accepted, ... *)
LEMMA EnabledStep ==
    ASSUME ConnTyped, OnlyEnabled, Next
    PROVE  OnlyEnabled'
<1>1. CASE us' = us /\ him' = him
  BY <1>1 DEF OnlyEnabled
<1>2. ASSUME NEW e \in End, NEW cmd \in Verbs, NEW o \in Option, NEW r, Moves(e, cmd, o, r)
      PROVE  OnlyEnabled'
  <2>1. us \in [End -> [Option -> {"No", "Yes"}]] /\ him \in [End -> [Option -> {"No", "Yes"}]]
    BY DEF ConnTyped
  <2>2. /\ \/ us' = us
           \/ us' = [us EXCEPT ![e][o] = "No"]
           \/ us' = [us EXCEPT ![e][o] = "Yes"] /\ o \in Enabled[e]
        /\ \/ him' = him
           \/ him' = [him EXCEPT ![e][o] = "No"]
           \/ him' = [him EXCEPT ![e][o] = "Yes"] /\ o \in Supported
    BY <1>2 DEF Moves, Treated
  <2>3. ASSUME NEW d \in End, NEW q \in Option, us'[d][q] # "No" PROVE q \in Enabled[d]
    <3>1. us[d][q] # "No" \/ (d = e /\ q = o /\ o \in Enabled[e])
      BY <2>1, <2>2, <2>3
    <3> QED
      BY <3>1 DEF OnlyEnabled
  <2>4. ASSUME NEW d \in End, NEW q \in Option, him'[d][q] # "No" PROVE q \in Supported
    <3>1. him[d][q] # "No" \/ (q = o /\ o \in Supported)
      BY <2>1, <2>2, <2>4
    <3> QED
      BY <3>1 DEF OnlyEnabled
  <2> QED
    BY <2>3, <2>4, Zenon DEF OnlyEnabled
<1> QED
  BY <1>1, <1>2, StepsTyped

(* ... and an enabled option stays offered: by a step that carries on, *)
LEMMA OffersCarried ==
    ASSUME ConnTyped, Offers, NEW e \in End, NEW R, Carries(e, R),
           \A x \in R : x[1] \in {CmdWill, CmdDo},
           \A d \in End, o \in Option :
              up'[d] /\ o \in Enabled[d] => up[d] \/ <<CmdWill, o>> \in InFlight(Peer(d))'
    PROVE  Offers'
<1> SUFFICES ASSUME NEW d \in End, NEW o \in Enabled[d] PROVE Offered(d, o)'
  BY Zenon DEF Offers
<1>1. Offered(d, o) /\ o \in Option /\ Peer(d) \in End
  BY Peers, OptionAssumption DEF Offers
<1>2. ASSUME NEW x \in End
      PROVE  /\ InFlight(x) \subseteq InFlight(x)'
             /\ \A y \in InFlight(x)' : y \in InFlight(x) \/ y \in R
  <2>1. x = e \/ x = Peer(e)
    BY Peers
  <2> QED
    BY <2>1 DEF Carries
<1>3. <<CmdWont, o>> \notin R /\ <<CmdDont, o>> \notin R
  BY DEF CmdWill, CmdDo, CmdWont, CmdDont
<1>4. <<CmdWont, o>> \notin InFlight(Peer(d))' /\ <<CmdDont, o>> \notin InFlight(d)'
  BY <1>1, <1>2, <1>3 DEF Offered
<1>5. up'[d] => him'[Peer(d)][o] = "Yes" \/ <<CmdWill, o>> \in InFlight(Peer(d))'
  <2> SUFFICES ASSUME up'[d]
               PROVE  him'[Peer(d)][o] = "Yes" \/ <<CmdWill, o>> \in InFlight(Peer(d))'
    OBVIOUS
  <2>1. up[d] \/ <<CmdWill, o>> \in InFlight(Peer(d))'
    BY <1>1, Zenon
  <2>2. him' = him
    BY DEF Carries
  <2>3. up[d] => him[Peer(d)][o] = "Yes" \/ <<CmdWill, o>> \in InFlight(Peer(d))
    BY <1>1, Zenon DEF Offered
  <2>4. InFlight(Peer(d)) \subseteq InFlight(Peer(d))'
    BY <1>1, <1>2
  <2> QED
    BY <2>1, <2>2, <2>3, <2>4, Zenon
<1> QED
  BY <1>4, <1>5, Zenon DEF Offered

(* by the end that performs it, ... *)
LEMMA OfferedPerformer ==
    ASSUME ConnTyped, Offers, NEW e \in End, NEW cmd \in Verbs, NEW o \in Option, NEW r,
           Moves(e, cmd, o, r), up' = up, NEW q \in Enabled[e]
    PROVE  Offered(e, q)'
<1> DEFINE f == Peer(e)
<1>1. f \in End /\ f # e /\ Offered(e, q) /\ q \in Option
  BY Peers, OptionAssumption DEF Offers
<1>2. him \in [End -> [Option -> {"No", "Yes"}]]
  BY DEF ConnTyped
<1>3. him'[f][q] = him[f][q]
  BY <1>1, <1>2 DEF Moves, Treated
<1>4. InFlight(f)' = InFlight(f) \cup Answer(o, r) /\ InFlight(e)' \subseteq InFlight(e)
  BY DEF Moves
<1>5. r = CmdWont => \/ cmd = CmdDo /\ o \notin Enabled[e]
                     \/ cmd = CmdDont /\ <<cmd, o>> \in InFlight(e)
  BY DEF Moves, Treated, CmdWill, CmdDo, CmdWont, CmdDont, Nothing
<1> HIDE DEF f
<1>6. ~(o = q /\ r = CmdWont)
  BY <1>1, <1>5 DEF Offered
<1>7. <<CmdWont, q>> \notin InFlight(f)'
  <2>1. <<CmdWont, q>> \notin Answer(o, r)
    BY <1>6 DEF Answer
  <2> QED
    BY <1>1, <1>4, <2>1 DEF Offered, f
<1>8. <<CmdDont, q>> \notin InFlight(e)'
  BY <1>1, <1>4 DEF Offered
<1>9. up'[e] => him'[f][q] = "Yes" \/ <<CmdWill, q>> \in InFlight(f)'
  <2>1. up[e] => him[f][q] = "Yes" \/ <<CmdWill, q>> \in InFlight(f)
    BY <1>1, Zenon DEF Offered, f
  <2>2. InFlight(f) \subseteq InFlight(f)'
    BY <1>4
  <2> QED
    BY <1>3, <2>1, <2>2, Zenon
<1> QED
  BY <1>7, <1>8, <1>9, Zenon DEF Offered, f

(* and by the end that has been offered it. *)
LEMMA OfferedObserver ==
    ASSUME ConnTyped, Offers, NEW e \in End, NEW cmd \in Verbs, NEW o \in Option, NEW r,
           Moves(e, cmd, o, r), up' = up, NEW q \in Enabled[Peer(e)]
    PROVE  Offered(Peer(e), q)'
<1> DEFINE f == Peer(e)
<1>1. f \in End /\ f # e /\ Peer(f) = e /\ q \in Option /\ q \in Supported
  BY Peers, OptionAssumption
<1>2. Offered(f, q)
  BY <1>1 DEF Offers
<1>3. him \in [End -> [Option -> {"No", "Yes"}]]
  BY DEF ConnTyped
<1>4. /\ InFlight(f)' = InFlight(f) \cup Answer(o, r) /\ InFlight(e)' \subseteq InFlight(e)
      /\ InFlight(e) \subseteq InFlight(e)' \cup {<<cmd, o>>} /\ <<cmd, o>> \in InFlight(e)
  BY DEF Moves
<1>5. r = CmdDont => (cmd = CmdWill /\ o \notin Supported) \/ cmd = CmdWont
  BY DEF Moves, Treated, CmdWill, CmdDo, CmdWont, CmdDont, Nothing
<1>6. o = q => cmd # CmdWont
  BY <1>1, <1>2, <1>4 DEF Offered
<1>7. /\ o = q /\ cmd = CmdWill => him'[e][q] = "Yes"
      /\ him[e][q] = "Yes" => him'[e][q] = "Yes"
  BY <1>1, <1>3, <1>6 DEF Moves, Treated, CmdWill, CmdDo, CmdWont, CmdDont
<1>8. /\ <<CmdWont, q>> \notin InFlight(e) /\ <<CmdDont, q>> \notin InFlight(f)
      /\ up[f] => him[e][q] = "Yes" \/ <<CmdWill, q>> \in InFlight(e)
  BY <1>1, <1>2, Zenon DEF Offered
<1> HIDE DEF f
<1>9. <<CmdDont, q>> \notin InFlight(f)'
  <2>1. <<CmdDont, q>> \notin Answer(o, r)
    BY <1>1, <1>5, <1>6 DEF Answer
  <2> QED
    BY <1>4, <1>8, <2>1
<1>10. <<CmdWont, q>> \notin InFlight(e)'
  BY <1>4, <1>8
<1>11. him[e][q] = "Yes" \/ <<CmdWill, q>> \in InFlight(e)
          => him'[e][q] = "Yes" \/ <<CmdWill, q>> \in InFlight(e)'
  BY <1>4, <1>7
<1>12. up'[f] => him'[e][q] = "Yes" \/ <<CmdWill, q>> \in InFlight(e)'
  BY <1>8, <1>11, Zenon
<1> QED
  BY <1>1, <1>9, <1>10, <1>12, Zenon DEF Offered, f

(* Without withdrawals every step keeps the offers. *)
LEMMA OffersStep ==
    ASSUME ~Withdrawn', ConnTyped, Offers, Next, Fits
    PROVE  Offers'
<1>1. PICK e \in End :
              \/ NewConn(e) /\ Carries(e, {CmdWill} \X Enabled[e])
              \/ up' = up /\ Carries(e, {})
              \/ up' = up /\ \E c \in AppCommands \ unsent' : Carries(e, {<<c[2], c[3]>>})
              \/ up' = up /\ \E cmd \in Verbs, o \in Option : \E r : Moves(e, cmd, o, r)
  BY Steps
<1>2. CASE NewConn(e) /\ Carries(e, {CmdWill} \X Enabled[e])
  <2> DEFINE R == {CmdWill} \X Enabled[e]
  <2>1. \A x \in R : x[1] \in {CmdWill, CmdDo}
    OBVIOUS
  <2>2. up' = [up EXCEPT ![e] = TRUE] /\ up \in [End -> BOOLEAN]
    BY <1>2 DEF NewConn, ConnTyped
  <2>3. \A d \in End : d # e => up'[d] = up[d]
    BY <2>2, Zenon
  <2>4. \A o \in Enabled[e] : <<CmdWill, o>> \in InFlight(Peer(e))'
    BY <1>2 DEF Carries
  <2>5. \A d \in End, o \in Option :
           up'[d] /\ o \in Enabled[d] => up[d] \/ <<CmdWill, o>> \in InFlight(Peer(d))'
    BY <2>3, <2>4, Zenon
  <2> HIDE DEF R
  <2> QED
    BY <1>2, <2>1, <2>5, OffersCarried, Zenon DEF R
<1>3. ASSUME NEW R, up' = up, Carries(e, R), \A x \in R : x[1] \in {CmdWill, CmdDo}
      PROVE  Offers'
  <2>1. \A d \in End, o \in Option :
           up'[d] /\ o \in Enabled[d] => up[d] \/ <<CmdWill, o>> \in InFlight(Peer(d))'
    BY <1>3, Zenon
  <2> QED
    BY <1>3, <2>1, OffersCarried, Zenon
<1>4. CASE up' = up /\ Carries(e, {})
  BY <1>3, <1>4
<1>5. CASE up' = up /\ \E c \in AppCommands \ unsent' : Carries(e, {<<c[2], c[3]>>})
  <2>1. PICK c \in AppCommands \ unsent' : Carries(e, {<<c[2], c[3]>>})
    BY <1>5
  <2>2. c[2] \in {CmdWill, CmdWont, CmdDo, CmdDont} /\ c[2] \notin {CmdWont, CmdDont}
    BY OptionAssumption DEF Withdrawn
  <2>3. \A x \in {<<c[2], c[3]>>} : x[1] \in {CmdWill, CmdDo}
    BY <2>2
  <2> QED
    BY <1>3, <1>5, <2>1, <2>3
<1>6. CASE up' = up /\ \E cmd \in Verbs, o \in Option : \E r : Moves(e, cmd, o, r)
  <2> SUFFICES ASSUME NEW d \in End, NEW q \in Enabled[d] PROVE Offered(d, q)'
    BY Zenon DEF Offers
  <2>1. d = e \/ d = Peer(e)
    BY Peers
  <2> QED
    BY <1>6, <2>1, OfferedPerformer, OfferedObserver, Zenon
<1> QED
  BY <1>1, <1>2, <1>4, <1>5, <1>6

(* Nothing is in flight and every option is off when the Conns are made. *)
LEMMA ConnInit == Init => ConnTyped /\ Balance /\ OnlyEnabled /\ Offers
<1> SUFFICES ASSUME Init PROVE ConnTyped /\ Balance /\ OnlyEnabled /\ Offers
  OBVIOUS
<1>1. up = [e \in End |-> FALSE] /\ us = [e \in End |-> None] /\ him = [e \in End |-> None]
      /\ pend = [e \in End |-> << >>] /\ wbuf = [e \in End |-> << >>]
      /\ wire = [e \in End |-> << >>] /\ unsent = AppCommands
  BY DEF Init
<1>2. None \in [Option -> {"No", "Yes"}] /\ \A o \in Option : None[o] = "No"
  BY DEF None
<1> HIDE DEF None
<1>3. us \in [End -> [Option -> {"No", "Yes"}]] /\ him \in [End -> [Option -> {"No", "Yes"}]]
  BY <1>1, <1>2
<1>4. << >> \in Seq(Command)
  OBVIOUS
<1>5. /\ pend \in [End -> Seq(Command)] /\ wbuf \in [End -> Seq(Command)]
      /\ wire \in [End -> Seq(Command)]
  BY <1>1, <1>4
<1>6. up \in [End -> BOOLEAN] /\ \A e \in End : ~up[e]
  BY <1>1, Zenon
<1>7. ConnTyped
  BY <1>1, <1>3, <1>5, <1>6, Zenon DEF ConnTyped
<1>8. \A e \in End, o \in Option : us[e][o] = "No" /\ him[e][o] = "No"
  BY <1>1, <1>2
<1>9. Balance
  BY <1>8, Peers DEF Balance, Balanced
<1>10. OnlyEnabled
  BY <1>8 DEF OnlyEnabled
<1>11. ASSUME NEW e \in End PROVE InFlight(e) = {}
  <2>1. Peer(e) \in End /\ Peer(Peer(e)) = e
    BY Peers
  <2>2. wbuf[Peer(e)] = << >> /\ wire[e] = << >> /\ pend[e] = << >>
    BY <1>1, <2>1
  <2> QED
    BY <2>1, <2>2, ToSetEmpty DEF InFlight, Queued
<1>12. Offers
  <2> SUFFICES ASSUME NEW e \in End, NEW o \in Enabled[e] PROVE Offered(e, o)
    BY DEF Offers
  <2>1. InFlight(e) = {} /\ InFlight(Peer(e)) = {} /\ ~up[e]
    BY <1>6, <1>11, Peers
  <2> QED
    BY <2>1, Zenon DEF Offered
<1> QED
  BY <1>7, <1>9, <1>10, <1>12

(* A step in which nothing happens. *)
LEMMA ConnStutter ==
    ASSUME UNCHANGED vars
    PROVE  /\ ConnTyped => ConnTyped'
           /\ Balance => Balance'
           /\ OnlyEnabled => OnlyEnabled'
           /\ Offers => Offers'
<1>1. /\ up' = up /\ us' = us /\ him' = him /\ pend' = pend /\ wbuf' = wbuf /\ wire' = wire
      /\ unsent' = unsent
  BY DEF vars
<1>2. ConnTyped => ConnTyped'
  BY <1>1, Zenon DEF ConnTyped
<1>3. \A e : InFlight(e)' = InFlight(e)
  BY <1>1 DEF InFlight, Queued
<1>4. Balance => Balance'
  BY <1>1, <1>3, Zenon DEF Balance, Balanced
<1>5. OnlyEnabled => OnlyEnabled'
  BY <1>1, Zenon DEF OnlyEnabled
<1>6. Offers => Offers'
  BY <1>1, <1>3, Zenon DEF Offers, Offered
<1> QED
  BY <1>2, <1>4, <1>5, <1>6

(* At rest the sets of commands in flight are empty. *)
LEMMA RestEmpty == ASSUME AtRest, NEW e \in End PROVE InFlight(e) = {}
<1>1. Peer(e) \in End /\ Peer(Peer(e)) = e
  BY Peers
<1>2. wbuf[Peer(e)] = << >> /\ wire[e] = << >> /\ pend[e] = << >>
  BY <1>1 DEF AtRest
<1> QED
  BY <1>1, <1>2, ToSetEmpty DEF InFlight, Queued

(* No read takes more commands from the wire than processReadLocked keeps. *)
ReadsFit == [][Fits]_vars

(* The types hold, and only what the Config enables is performed, whatever *)
(* the applications send and however many commands a read drops.           *)
THEOREM NothingElsePerformed == Spec => []OnlyEnabled
<1>1. ConnTyped /\ OnlyEnabled /\ [Next]_vars => ConnTyped' /\ OnlyEnabled'
  BY StepsTyped, EnabledStep, ConnStutter
<1> QED
  BY <1>1, ConnInit, PTL DEF Spec

(* The balance is invariant as long as no read drops a command. *)
LEMMA BalanceInvariant == Spec /\ ReadsFit => [](ConnTyped /\ Balance)
<1>1. ConnTyped /\ Balance /\ [Next]_vars /\ [Fits]_vars => ConnTyped' /\ Balance'
  <2> SUFFICES ASSUME ConnTyped, Balance, [Next]_vars, [Fits]_vars
               PROVE  ConnTyped' /\ Balance'
    OBVIOUS
  <2>1. CASE UNCHANGED vars
    BY <2>1, ConnStutter
  <2>2. CASE Next /\ Fits
    BY <2>2, StepsTyped, BalanceStep
  <2> QED
    BY <2>1, <2>2
<1> QED
  BY <1>1, ConnInit, PTL DEF Spec, ReadsFit

(* Two Conns agree at rest, whatever options their Configs enable and      *)
(* whatever commands, withdrawals included, their applications send at any *)
(* time, as long as no read brings more commands than are kept.            *)
THEOREM ConnsAgree == Spec /\ ReadsFit => []AgreeAtRest
<1>1. ConnTyped /\ Balance => AgreeAtRest
  <2> SUFFICES ASSUME ConnTyped, Balance, AtRest, NEW e \in End, NEW o \in Option
               PROVE  us[e][o] = him[Peer(e)][o]
    BY DEF AgreeAtRest
  <2>1. Peer(e) \in End /\ InFlight(e) = {} /\ InFlight(Peer(e)) = {} /\ Balanced(e, o)
    BY Peers, RestEmpty DEF Balance
  <2>2. us[e][o] \in {"No", "Yes"} /\ him[Peer(e)][o] \in {"No", "Yes"}
    BY <2>1 DEF ConnTyped
  <2> QED
    BY <2>1, <2>2 DEF Balanced
<1> QED
  BY <1>1, BalanceInvariant, PTL

(* Every option a Config enables is on at rest, although NewConn does not  *)
(* record its offers, until an application takes something back.           *)
THEOREM EnabledIsOn == Spec /\ ReadsFit => []OffersTakeEffect
<1>1. ConnTyped /\ (Withdrawn \/ Offers) /\ [Next]_vars /\ [Fits]_vars
         => ConnTyped' /\ (Withdrawn' \/ Offers')
  <2> SUFFICES ASSUME ConnTyped, Withdrawn \/ Offers, [Next]_vars, [Fits]_vars, ~Withdrawn'
               PROVE  ConnTyped' /\ Offers'
    BY StepsTyped, ConnStutter
  <2>1. Offers
    BY StaysSent DEF Withdrawn
  <2>2. CASE UNCHANGED vars
    BY <2>1, <2>2, ConnStutter
  <2>3. CASE Next /\ Fits
    BY <2>1, <2>3, StepsTyped, OffersStep
  <2> QED
    BY <2>2, <2>3
<1>2. ConnTyped /\ Balance /\ (Withdrawn \/ Offers) /\ OnlyEnabled => OffersTakeEffect
  <2> SUFFICES ASSUME ConnTyped, Balance, Offers, AtRest, NEW e \in End, NEW o \in Enabled[e]
               PROVE  us[e][o] = "Yes"
    BY DEF OffersTakeEffect
  <2>1. /\ Peer(e) \in End /\ InFlight(e) = {} /\ InFlight(Peer(e)) = {}
        /\ o \in Option /\ Balanced(e, o) /\ Offered(e, o)
    BY Peers, RestEmpty, OptionAssumption DEF Balance, Offers
  <2>2. him[Peer(e)][o] = "Yes"
    BY <2>1, Zenon DEF Offered, AtRest
  <2>3. us[e][o] \in {"No", "Yes"}
    BY <2>1 DEF ConnTyped
  <2> QED
    BY <2>1, <2>2, <2>3 DEF Balanced
<1> QED
  BY <1>1, <1>2, ConnInit, BalanceInvariant, NothingElsePerformed, PTL DEF Spec, ReadsFit
============================================================================

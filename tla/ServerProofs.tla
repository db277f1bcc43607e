---------------------------- MODULE ServerProofs ----------------------------
(***************************************************************************)
(* Proofs about Server: its type invariant, TokensMatch, OpenBounded and   *)
(* NothingLeft, for every finite set of clients and every MaxConns > 0.    *)
(***************************************************************************)
EXTENDS Server, FiniteSetTheorems, TLAPS

(* TypeOK without the flags. *)
Typed ==
    /\ spc \in {"idle", "top", "acquire", "accept", "returned"}
    /\ listener \in {"unset", "open", "closed"}
    /\ tokens \in 0..MaxConns
    /\ cpc \in {"idle", "signal", "listener", "snapshot", "conns", "flush", "socket",
               "returned"}
    /\ call \in {"Close", "Shutdown"}
    /\ todo \subseteq Client /\ target \subseteq Client
    /\ hpc \in [Client -> {"none", "spawned", "running", "leaving", "closing", "flushing",
                           "closed", "released", "counted", "done"}]
    /\ conns \subseteq Client /\ connClosed \subseteq Client
    /\ blocked \subseteq Client /\ open \subseteq Client
    /\ accepted \in Nat /\ active \in Nat /\ finished \in Nat

Flags ==
    closed \in BOOLEAN /\ closing \in BOOLEAN /\ closeDone \in BOOLEAN /\ ctxDone \in BOOLEAN

Started  == {c \in Client : hpc[c] # "none"}
Counted  == {c \in Client : hpc[c] \in {"spawned", "running", "leaving", "closing", "flushing",
                                         "closed", "released"}}
Finished == {c \in Client : hpc[c] = "done"}

(* The counters of Stats count connections by where their handler stands.  *)
CountersMatch ==
    /\ TokensMatch
    /\ accepted = Cardinality(Started)
    /\ active = Cardinality(Counted)
    /\ finished = Cardinality(Finished)

(* What the closer has passed shows in the flags, and once it has passed   *)
(* the listener no Accept can succeed: the listener is closed, or Serve    *)
(* stored it too late and is yet to look at closing.                       *)
CloserOrder ==
    /\ closed <=> cpc # "idle"
    /\ closing <=> cpc \notin {"idle", "signal"}
    /\ spc = "idle" <=> listener = "unset"
    /\ cpc \in {"snapshot", "conns", "flush", "socket", "returned"} /\ listener = "open"
          => spc \in {"top", "returned"}

(* Whose sockets are open: of a handler that has not closed its connection *)
(* yet, or of the one the closer has won and is about to close.            *)
SocketOwner ==
    /\ cpc \in {"flush", "socket"} => \E c \in Client : target = {c}
    /\ cpc \notin {"flush", "socket"} => target = {}
    /\ conns \subseteq {c \in Client : hpc[c] \in {"running", "leaving"}}
    /\ todo \subseteq Started /\ connClosed \subseteq Started
    /\ \A c \in open :
          /\ hpc[c] \in {"spawned", "running", "leaving", "closing", "flushing"} \/ c \in target
          /\ c \in connClosed => c \in target \/ hpc[c] = "flushing"

IndInv == Typed /\ Flags /\ CountersMatch /\ CloserOrder /\ SocketOwner /\ OpenBounded
----------------------------------------------------------------------------
(* Sets of clients are finite, and one client more or less changes their   *)
(* size by one.                                                            *)
LEMMA ClientSets ==
    ASSUME NEW S \in SUBSET Client
    PROVE  /\ Cardinality(S) \in Nat
           /\ \A c \in Client : c \notin S => Cardinality(S \cup {c}) = Cardinality(S) + 1
           /\ \A c \in S : Cardinality(S \ {c}) = Cardinality(S) - 1
           /\ \A T \in SUBSET S : Cardinality(T) <= Cardinality(S)
           /\ \A c : Cardinality(S \ {c}) <= Cardinality(S)
<1>1. IsFiniteSet(S)
  BY ServerAssumption, FS_Subset
<1>2. Cardinality(S) \in Nat
  BY <1>1, FS_CardinalityType
<1>3. \A c \in Client : c \notin S => Cardinality(S \cup {c}) = Cardinality(S) + 1
  BY <1>1, FS_AddElement
<1>4. \A c \in S : Cardinality(S \ {c}) = Cardinality(S) - 1
  BY <1>1, FS_RemoveElement
<1>5. \A T \in SUBSET S : Cardinality(T) <= Cardinality(S)
  BY <1>1, FS_Subset
<1>6. \A c : Cardinality(S \ {c}) <= Cardinality(S)
  BY <1>5
<1> QED
  BY <1>2, <1>3, <1>4, <1>5, <1>6

(* The sets the counters count, when the handler of c moves to b. *)
LEMMA MovedSets ==
    ASSUME Typed, NEW c \in Client, NEW b, hpc' = [hpc EXCEPT ![c] = b]
    PROVE  /\ Holding' = IF b \in {"spawned", "running", "leaving", "closing", "flushing", "closed"}
                         THEN Holding \cup {c} ELSE Holding \ {c}
           /\ Started' = IF b # "none" THEN Started \cup {c} ELSE Started \ {c}
           /\ Counted' = IF b \in {"spawned", "running", "leaving", "closing", "flushing",
                                   "closed", "released"}
                         THEN Counted \cup {c} ELSE Counted \ {c}
           /\ Finished' = IF b = "done" THEN Finished \cup {c} ELSE Finished \ {c}
<1>1. \A d \in Client : hpc'[d] = IF d = c THEN b ELSE hpc[d]
  BY DEF Typed
<1> QED
  BY <1>1 DEF Holding, Started, Counted, Finished

(* They stay when no handler moves. *)
LEMMA SameSets ==
    ASSUME UNCHANGED hpc
    PROVE  /\ UNCHANGED Holding /\ UNCHANGED Started
           /\ UNCHANGED Counted /\ UNCHANGED Finished
BY DEF Holding, Started, Counted, Finished

(* They are sets of clients. *)
LEMMA CountedSets ==
    /\ Holding \in SUBSET Client /\ Started \in SUBSET Client
    /\ Counted \in SUBSET Client /\ Finished \in SUBSET Client
BY DEF Holding, Started, Counted, Finished

(* The two parts of TypeOK. *)
LEMMA TypeParts == TypeOK <=> Typed /\ Flags
BY Zenon DEF TypeOK, Typed, Flags

(* The initial state satisfies the inductive invariant. *)
LEMMA InitInd == Init => IndInv
<1> SUFFICES ASSUME Init PROVE IndInv
  OBVIOUS
<1>1. Holding = {} /\ Started = {} /\ Counted = {} /\ Finished = {}
  BY DEF Init, Holding, Started, Counted, Finished
<1>2. Cardinality({}) = 0
  BY FS_EmptySet
<1>3. Typed
  BY ServerAssumption DEF Init, Typed
<1>7. Flags
  BY Zenon DEF Init, Flags
<1>4. CountersMatch
  BY <1>1, <1>2 DEF Init, CountersMatch, TokensMatch
<1>5. CloserOrder /\ SocketOwner
  BY DEF Init, CloserOrder, SocketOwner
<1>6. OpenBounded
  BY <1>2, ServerAssumption DEF Init, OpenBounded
<1> QED
  BY <1>3, <1>4, <1>5, <1>6, <1>7 DEF IndInv

(* StoreListener preserves the inductive invariant. *)
LEMMA StoreListenerStep ==
    ASSUME IndInv, StoreListener
    PROVE  IndInv'
<1> USE DEF IndInv
<1>3. CountersMatch'
  <2>1. UNCHANGED hpc
    BY DEF StoreListener, serveVars, closeVars, connVars, statVars
  <2> QED
    BY <2>1, SameSets, CountedSets, ClientSets DEF Typed, CountersMatch, TokensMatch,
         StoreListener, serveVars, closeVars, connVars, statVars
<1>4. Typed'
  BY ServerAssumption DEF Typed, CountersMatch, StoreListener, serveVars, closeVars, connVars,
       statVars
<1>5. Flags'
  BY Zenon DEF Flags, StoreListener, serveVars, closeVars, connVars, statVars
<1>6. CloserOrder'
  BY <1>4 DEF Typed, CloserOrder, StoreListener, serveVars, closeVars, connVars, statVars
<1>7. SocketOwner'
  BY <1>4 DEF Typed, SocketOwner, Started, StoreListener, serveVars, closeVars, connVars,
       statVars
<1>8. OpenBounded'
  BY <1>4, ClientSets DEF Typed, OpenBounded, StoreListener, serveVars, closeVars, connVars,
       statVars
<1> QED
  BY <1>3, <1>4, <1>5, <1>6, <1>7, <1>8

(* CheckClosing preserves the inductive invariant. *)
LEMMA CheckClosingStep ==
    ASSUME IndInv, CheckClosing
    PROVE  IndInv'
<1> USE DEF IndInv
<1>3. CountersMatch'
  <2>1. UNCHANGED hpc
    BY DEF CheckClosing, serveVars, closeVars, connVars, statVars, Stop
  <2> QED
    BY <2>1, SameSets, CountedSets, ClientSets DEF Typed, CountersMatch, TokensMatch,
         CheckClosing, serveVars, closeVars, connVars, statVars, Stop
<1>4. Typed'
  BY ServerAssumption DEF Typed, CountersMatch, CheckClosing, serveVars, closeVars, connVars,
       statVars, Stop
<1>5. Flags'
  BY Zenon DEF Flags, CheckClosing, serveVars, closeVars, connVars, statVars, Stop
<1>6. CloserOrder'
  BY <1>4 DEF Typed, CloserOrder, CheckClosing, serveVars, closeVars, connVars, statVars, Stop
<1>7. SocketOwner'
  BY <1>4 DEF Typed, SocketOwner, Started, CheckClosing, serveVars, closeVars, connVars,
       statVars, Stop
<1>8. OpenBounded'
  BY <1>4, ClientSets DEF Typed, OpenBounded, CheckClosing, serveVars, closeVars, connVars,
       statVars, Stop
<1> QED
  BY <1>3, <1>4, <1>5, <1>6, <1>7, <1>8

(* AcquireToken preserves the inductive invariant. *)
LEMMA AcquireTokenStep ==
    ASSUME IndInv, AcquireToken
    PROVE  IndInv'
<1> USE DEF IndInv
<1>3. CountersMatch'
  <2>1. UNCHANGED hpc
    BY DEF AcquireToken, serveVars, closeVars, connVars, statVars, Stop
  <2> QED
    BY <2>1, SameSets, CountedSets, ClientSets DEF Typed, CountersMatch, TokensMatch,
         AcquireToken, serveVars, closeVars, connVars, statVars, Stop
<1>4. Typed'
  BY ServerAssumption DEF Typed, CountersMatch, AcquireToken, serveVars, closeVars, connVars,
       statVars, Stop
<1>5. Flags'
  BY Zenon DEF Flags, AcquireToken, serveVars, closeVars, connVars, statVars, Stop
<1>6. CloserOrder'
  BY <1>4 DEF Typed, CloserOrder, AcquireToken, serveVars, closeVars, connVars, statVars, Stop
<1>7. SocketOwner'
  BY <1>4 DEF Typed, SocketOwner, Started, AcquireToken, serveVars, closeVars, connVars,
       statVars, Stop
<1>8. OpenBounded'
  BY <1>4, ClientSets DEF Typed, OpenBounded, AcquireToken, serveVars, closeVars, connVars,
       statVars, Stop
<1> QED
  BY <1>3, <1>4, <1>5, <1>6, <1>7, <1>8

(* Accept preserves the inductive invariant. *)
LEMMA AcceptStep ==
    ASSUME IndInv, NEW c \in Client, Accept(c)
    PROVE  IndInv'
<1> USE DEF IndInv
<1>1. hpc[c] = "none" /\ hpc' = [hpc EXCEPT ![c] = "spawned"]
  BY DEF Accept
<1>2. hpc'[c] = "spawned" /\ \A d \in Client : d # c => hpc'[d] = hpc[d]
  BY <1>1 DEF Typed
<1>3. CountersMatch'
  <2>1. c \in Client /\ Typed
    OBVIOUS
  <2>2. /\ Holding' = Holding \cup {c} /\ c \notin Holding
         /\ Started' = Started \cup {c} /\ c \notin Started
         /\ Counted' = Counted \cup {c} /\ c \notin Counted
         /\ Finished' = Finished
    BY <1>1, <2>1, MovedSets DEF Holding, Started, Counted, Finished
  <2> QED
    BY <2>2, <1>1, ClientSets, CountedSets DEF Typed, CountersMatch, TokensMatch, Accept,
         serveVars, closeVars, connVars, statVars
<1>4. Typed'
  BY <1>1, <1>2, ServerAssumption DEF Typed, CountersMatch, Accept, serveVars, closeVars,
       connVars, statVars
<1>5. Flags'
  BY Zenon DEF Flags, Accept, serveVars, closeVars, connVars, statVars
<1>6. CloserOrder'
  BY <1>4 DEF Typed, CloserOrder, Accept, serveVars, closeVars, connVars, statVars
<1>7. SocketOwner'
  BY <1>1, <1>2, <1>4 DEF Typed, SocketOwner, Started, Accept, serveVars, closeVars, connVars,
       statVars
<1>8. OpenBounded'
  <2>1. target = {}
    BY DEF Accept, Typed, CloserOrder, SocketOwner
  <2>2. open \in SUBSET Holding /\ Holding \in SUBSET Client
    BY <2>1 DEF Typed, SocketOwner, Holding
  <2>3. Cardinality(open) <= Cardinality(Holding) /\ c \notin open
    BY <1>1, <2>2, ClientSets DEF Holding
  <2>4. Cardinality(Holding) + 1 <= MaxConns
    BY <2>2, ClientSets, ServerAssumption DEF Accept, Typed, CountersMatch, TokensMatch
  <2>5. Cardinality(open \cup {c}) = Cardinality(open) + 1 /\ Cardinality(open) \in Nat
        /\ Cardinality(Holding) \in Nat
    BY <2>2, <2>3, ClientSets
  <2> QED
    BY <2>3, <2>4, <2>5, ServerAssumption DEF OpenBounded, Accept
<1> QED
  BY <1>3, <1>4, <1>5, <1>6, <1>7, <1>8

(* AcceptError preserves the inductive invariant. *)
LEMMA AcceptErrorStep ==
    ASSUME IndInv, AcceptError
    PROVE  IndInv'
<1> USE DEF IndInv
<1>3. CountersMatch'
  <2>1. UNCHANGED hpc
    BY DEF AcceptError, serveVars, closeVars, connVars, statVars, Stop
  <2> QED
    BY <2>1, SameSets, CountedSets, ClientSets DEF Typed, CountersMatch, TokensMatch,
         AcceptError, serveVars, closeVars, connVars, statVars, Stop
<1>4. Typed'
  <2>1. Holding \in SUBSET Client /\ spc = "accept"
    BY CountedSets DEF AcceptError
  <2>2. Cardinality(Holding) \in Nat
    BY <2>1, ClientSets
  <2>3. tokens - 1 \in 0..MaxConns
    BY <2>1, <2>2, ServerAssumption DEF Typed, CountersMatch, TokensMatch
  <2> QED
    BY <2>3 DEF Typed, AcceptError, serveVars, closeVars, connVars, statVars, Stop
<1>5. Flags'
  BY Zenon DEF Flags, AcceptError, serveVars, closeVars, connVars, statVars, Stop
<1>6. CloserOrder'
  BY <1>4 DEF Typed, CloserOrder, AcceptError, serveVars, closeVars, connVars, statVars, Stop
<1>7. SocketOwner'
  BY <1>4 DEF Typed, SocketOwner, Started, AcceptError, serveVars, closeVars, connVars,
       statVars, Stop
<1>8. OpenBounded'
  BY <1>4, ClientSets DEF Typed, OpenBounded, AcceptError, serveVars, closeVars, connVars,
       statVars, Stop
<1> QED
  BY <1>3, <1>4, <1>5, <1>6, <1>7, <1>8

(* Register preserves the inductive invariant. *)
LEMMA RegisterStep ==
    ASSUME IndInv, NEW c \in Client, Register(c)
    PROVE  IndInv'
<1> USE DEF IndInv
<1>1. hpc[c] = "spawned" /\ hpc' = [hpc EXCEPT ![c] = "running"]
  BY DEF Register, At
<1>2. hpc'[c] = "running" /\ \A d \in Client : d # c => hpc'[d] = hpc[d]
  BY <1>1 DEF Typed
<1>3. CountersMatch'
  <2>1. c \in Client /\ Typed
    OBVIOUS
  <2>2. /\ Holding' = Holding
         /\ Started' = Started
         /\ Counted' = Counted
         /\ Finished' = Finished
    BY <1>1, <2>1, MovedSets DEF Holding, Started, Counted, Finished
  <2> QED
    BY <2>2, <1>1, ClientSets, CountedSets DEF Typed, CountersMatch, TokensMatch, Register,
         At, serveVars, closeVars, connVars, statVars
<1>4. Typed'
  BY <1>1, <1>2, ServerAssumption DEF Typed, CountersMatch, Register, At, serveVars,
       closeVars, connVars, statVars
<1>5. Flags'
  BY Zenon DEF Flags, Register, At, serveVars, closeVars, connVars, statVars
<1>6. CloserOrder'
  BY <1>4 DEF Typed, CloserOrder, Register, At, serveVars, closeVars, connVars, statVars
<1>7. SocketOwner'
  BY <1>1, <1>2, <1>4 DEF Typed, SocketOwner, Started, Register, At, serveVars, closeVars,
       connVars, statVars
<1>8. OpenBounded'
  BY <1>4, ClientSets DEF Typed, OpenBounded, Register, At, serveVars, closeVars, connVars,
       statVars
<1> QED
  BY <1>3, <1>4, <1>5, <1>6, <1>7, <1>8

(* CallBlocks preserves the inductive invariant. *)
LEMMA CallBlocksStep ==
    ASSUME IndInv, NEW c \in Client, CallBlocks(c)
    PROVE  IndInv'
<1> USE DEF IndInv
<1>3. CountersMatch'
  <2>1. UNCHANGED hpc
    BY DEF CallBlocks, serveVars, closeVars, connVars, statVars
  <2> QED
    BY <2>1, SameSets, CountedSets, ClientSets DEF Typed, CountersMatch, TokensMatch,
         CallBlocks, serveVars, closeVars, connVars, statVars
<1>4. Typed'
  BY ServerAssumption DEF Typed, CountersMatch, CallBlocks, serveVars, closeVars, connVars,
       statVars
<1>5. Flags'
  BY Zenon DEF Flags, CallBlocks, serveVars, closeVars, connVars, statVars
<1>6. CloserOrder'
  BY <1>4 DEF Typed, CloserOrder, CallBlocks, serveVars, closeVars, connVars, statVars
<1>7. SocketOwner'
  BY <1>4 DEF Typed, SocketOwner, Started, CallBlocks, serveVars, closeVars, connVars, statVars
<1>8. OpenBounded'
  BY <1>4, ClientSets DEF Typed, OpenBounded, CallBlocks, serveVars, closeVars, connVars,
       statVars
<1> QED
  BY <1>3, <1>4, <1>5, <1>6, <1>7, <1>8

(* CallGoesOn preserves the inductive invariant. *)
LEMMA CallGoesOnStep ==
    ASSUME IndInv, NEW c \in Client, CallGoesOn(c)
    PROVE  IndInv'
<1> USE DEF IndInv
<1>3. CountersMatch'
  <2>1. UNCHANGED hpc
    BY DEF CallGoesOn, serveVars, closeVars, connVars, statVars
  <2> QED
    BY <2>1, SameSets, CountedSets, ClientSets DEF Typed, CountersMatch, TokensMatch,
         CallGoesOn, serveVars, closeVars, connVars, statVars
<1>4. Typed'
  BY ServerAssumption DEF Typed, CountersMatch, CallGoesOn, serveVars, closeVars, connVars,
       statVars
<1>5. Flags'
  BY Zenon DEF Flags, CallGoesOn, serveVars, closeVars, connVars, statVars
<1>6. CloserOrder'
  BY <1>4 DEF Typed, CloserOrder, CallGoesOn, serveVars, closeVars, connVars, statVars
<1>7. SocketOwner'
  BY <1>4 DEF Typed, SocketOwner, Started, CallGoesOn, serveVars, closeVars, connVars, statVars
<1>8. OpenBounded'
  BY <1>4, ClientSets DEF Typed, OpenBounded, CallGoesOn, serveVars, closeVars, connVars,
       statVars
<1> QED
  BY <1>3, <1>4, <1>5, <1>6, <1>7, <1>8

(* HandlerReturns preserves the inductive invariant. *)
LEMMA HandlerReturnsStep ==
    ASSUME IndInv, NEW c \in Client, HandlerReturns(c)
    PROVE  IndInv'
<1> USE DEF IndInv
<1>1. hpc[c] = "running" /\ hpc' = [hpc EXCEPT ![c] = "leaving"]
  BY DEF HandlerReturns, At
<1>2. hpc'[c] = "leaving" /\ \A d \in Client : d # c => hpc'[d] = hpc[d]
  BY <1>1 DEF Typed
<1>3. CountersMatch'
  <2>1. c \in Client /\ Typed
    OBVIOUS
  <2>2. /\ Holding' = Holding
         /\ Started' = Started
         /\ Counted' = Counted
         /\ Finished' = Finished
    BY <1>1, <2>1, MovedSets DEF Holding, Started, Counted, Finished
  <2> QED
    BY <2>2, <1>1, ClientSets, CountedSets DEF Typed, CountersMatch, TokensMatch,
         HandlerReturns, At, serveVars, closeVars, connVars, statVars
<1>4. Typed'
  BY <1>1, <1>2, ServerAssumption DEF Typed, CountersMatch, HandlerReturns, At, serveVars,
       closeVars, connVars, statVars
<1>5. Flags'
  BY Zenon DEF Flags, HandlerReturns, At, serveVars, closeVars, connVars, statVars
<1>6. CloserOrder'
  BY <1>4 DEF Typed, CloserOrder, HandlerReturns, At, serveVars, closeVars, connVars, statVars
<1>7. SocketOwner'
  BY <1>1, <1>2, <1>4 DEF Typed, SocketOwner, Started, HandlerReturns, At, serveVars,
       closeVars, connVars, statVars
<1>8. OpenBounded'
  BY <1>4, ClientSets DEF Typed, OpenBounded, HandlerReturns, At, serveVars, closeVars,
       connVars, statVars
<1> QED
  BY <1>3, <1>4, <1>5, <1>6, <1>7, <1>8

(* Unregister preserves the inductive invariant. *)
LEMMA UnregisterStep ==
    ASSUME IndInv, NEW c \in Client, Unregister(c)
    PROVE  IndInv'
<1> USE DEF IndInv
<1>1. hpc[c] = "leaving" /\ hpc' = [hpc EXCEPT ![c] = "closing"]
  BY DEF Unregister, At
<1>2. hpc'[c] = "closing" /\ \A d \in Client : d # c => hpc'[d] = hpc[d]
  BY <1>1 DEF Typed
<1>3. CountersMatch'
  <2>1. c \in Client /\ Typed
    OBVIOUS
  <2>2. /\ Holding' = Holding
         /\ Started' = Started
         /\ Counted' = Counted
         /\ Finished' = Finished
    BY <1>1, <2>1, MovedSets DEF Holding, Started, Counted, Finished
  <2> QED
    BY <2>2, <1>1, ClientSets, CountedSets DEF Typed, CountersMatch, TokensMatch, Unregister,
         At, serveVars, closeVars, connVars, statVars
<1>4. Typed'
  BY <1>1, <1>2, ServerAssumption DEF Typed, CountersMatch, Unregister, At, serveVars,
       closeVars, connVars, statVars
<1>5. Flags'
  BY Zenon DEF Flags, Unregister, At, serveVars, closeVars, connVars, statVars
<1>6. CloserOrder'
  BY <1>4 DEF Typed, CloserOrder, Unregister, At, serveVars, closeVars, connVars, statVars
<1>7. SocketOwner'
  BY <1>1, <1>2, <1>4 DEF Typed, SocketOwner, Started, Unregister, At, serveVars, closeVars,
       connVars, statVars
<1>8. OpenBounded'
  BY <1>4, ClientSets DEF Typed, OpenBounded, Unregister, At, serveVars, closeVars, connVars,
       statVars
<1> QED
  BY <1>3, <1>4, <1>5, <1>6, <1>7, <1>8

(* HandlerCloses preserves the inductive invariant. *)
LEMMA HandlerClosesStep ==
    ASSUME IndInv, NEW c \in Client, HandlerCloses(c)
    PROVE  IndInv'
<1> USE DEF IndInv
<1> DEFINE b == IF c \in connClosed THEN "closed" ELSE "flushing"
<1>1. hpc[c] = "closing" /\ hpc' = [hpc EXCEPT ![c] = b] /\ b \in {"closed", "flushing"}
  BY DEF HandlerCloses, At
<1>2. hpc'[c] = b /\ \A d \in Client : d # c => hpc'[d] = hpc[d]
  BY <1>1 DEF Typed
<1>3. CountersMatch'
  <2>1. c \in Client /\ Typed
    OBVIOUS
  <2>2. /\ Holding' = Holding
         /\ Started' = Started
         /\ Counted' = Counted
         /\ Finished' = Finished
    BY <1>1, <2>1, MovedSets DEF Holding, Started, Counted, Finished
  <2> QED
    BY <2>2, <1>1, ClientSets, CountedSets DEF Typed, CountersMatch, TokensMatch,
         HandlerCloses, At, serveVars, closeVars, connVars, statVars
<1>4. Typed'
  BY <1>1, <1>2, ServerAssumption DEF Typed, CountersMatch, HandlerCloses, At, serveVars,
       closeVars, connVars, statVars
<1>5. Flags'
  BY Zenon DEF Flags, HandlerCloses, At, serveVars, closeVars, connVars, statVars
<1>6. CloserOrder'
  BY <1>4 DEF Typed, CloserOrder, HandlerCloses, At, serveVars, closeVars, connVars, statVars
<1>7. SocketOwner'
  BY <1>1, <1>2, <1>4 DEF Typed, SocketOwner, Started, HandlerCloses, At, serveVars,
       closeVars, connVars, statVars
<1>8. OpenBounded'
  BY <1>4, ClientSets DEF Typed, OpenBounded, HandlerCloses, At, serveVars, closeVars,
       connVars, statVars
<1> QED
  BY <1>3, <1>4, <1>5, <1>6, <1>7, <1>8

(* HandlerSocket preserves the inductive invariant. *)
LEMMA HandlerSocketStep ==
    ASSUME IndInv, NEW c \in Client, HandlerSocket(c)
    PROVE  IndInv'
<1> USE DEF IndInv
<1>1. hpc[c] = "flushing" /\ hpc' = [hpc EXCEPT ![c] = "closed"]
  BY DEF HandlerSocket, At
<1>2. hpc'[c] = "closed" /\ \A d \in Client : d # c => hpc'[d] = hpc[d]
  BY <1>1 DEF Typed
<1>3. CountersMatch'
  <2>1. c \in Client /\ Typed
    OBVIOUS
  <2>2. /\ Holding' = Holding
         /\ Started' = Started
         /\ Counted' = Counted
         /\ Finished' = Finished
    BY <1>1, <2>1, MovedSets DEF Holding, Started, Counted, Finished
  <2> QED
    BY <2>2, <1>1, ClientSets, CountedSets DEF Typed, CountersMatch, TokensMatch,
         HandlerSocket, At, serveVars, closeVars, connVars, statVars
<1>4. Typed'
  BY <1>1, <1>2, ServerAssumption DEF Typed, CountersMatch, HandlerSocket, At, serveVars,
       closeVars, connVars, statVars
<1>5. Flags'
  BY Zenon DEF Flags, HandlerSocket, At, serveVars, closeVars, connVars, statVars
<1>6. CloserOrder'
  BY <1>4 DEF Typed, CloserOrder, HandlerSocket, At, serveVars, closeVars, connVars, statVars
<1>7. SocketOwner'
  BY <1>1, <1>2, <1>4 DEF Typed, SocketOwner, Started, HandlerSocket, At, serveVars,
       closeVars, connVars, statVars
<1>8. OpenBounded'
  <2>1. open \in SUBSET Client /\ open' \in SUBSET open
    BY DEF Typed, HandlerSocket
  <2>2. /\ Cardinality(open') \in Nat /\ Cardinality(open) \in Nat
        /\ Cardinality(open') <= Cardinality(open)
    BY <2>1, ClientSets
  <2> QED
    BY <2>2, ServerAssumption DEF OpenBounded
<1> QED
  BY <1>3, <1>4, <1>5, <1>6, <1>7, <1>8

(* ReleaseToken preserves the inductive invariant. *)
LEMMA ReleaseTokenStep ==
    ASSUME IndInv, NEW c \in Client, ReleaseToken(c)
    PROVE  IndInv'
<1> USE DEF IndInv
<1>1. hpc[c] = "closed" /\ hpc' = [hpc EXCEPT ![c] = "released"]
  BY DEF ReleaseToken, At
<1>2. hpc'[c] = "released" /\ \A d \in Client : d # c => hpc'[d] = hpc[d]
  BY <1>1 DEF Typed
<1>3. CountersMatch'
  <2>1. c \in Client /\ Typed
    OBVIOUS
  <2>2. /\ Holding' = Holding \ {c} /\ c \in Holding
         /\ Started' = Started
         /\ Counted' = Counted
         /\ Finished' = Finished
    BY <1>1, <2>1, MovedSets DEF Holding, Started, Counted, Finished
  <2> QED
    BY <2>2, <1>1, ClientSets, CountedSets DEF Typed, CountersMatch, TokensMatch,
         ReleaseToken, At, serveVars, closeVars, connVars, statVars
<1>4. Typed'
  <2>1. tokens - 1 \in 0..MaxConns
    <3>1. Holding \in SUBSET Client /\ c \in Holding
      BY <1>1, CountedSets DEF Holding
    <3>2. Cardinality(Holding) - 1 \in Nat
      BY <3>1, ClientSets
    <3> QED
      BY <3>1, <3>2, ClientSets, ServerAssumption DEF Typed, CountersMatch, TokensMatch, ReleaseToken, At
  <2> QED
    BY <2>1, <1>1, <1>2 DEF Typed, ReleaseToken, At, serveVars, closeVars, connVars, statVars
<1>5. Flags'
  BY Zenon DEF Flags, ReleaseToken, At, serveVars, closeVars, connVars, statVars
<1>6. CloserOrder'
  BY <1>4 DEF Typed, CloserOrder, ReleaseToken, At, serveVars, closeVars, connVars, statVars
<1>7. SocketOwner'
  BY <1>1, <1>2, <1>4 DEF Typed, SocketOwner, Started, ReleaseToken, At, serveVars, closeVars,
       connVars, statVars
<1>8. OpenBounded'
  BY <1>4, ClientSets DEF Typed, OpenBounded, ReleaseToken, At, serveVars, closeVars,
       connVars, statVars
<1> QED
  BY <1>3, <1>4, <1>5, <1>6, <1>7, <1>8

(* CountActive preserves the inductive invariant. *)
LEMMA CountActiveStep ==
    ASSUME IndInv, NEW c \in Client, CountActive(c)
    PROVE  IndInv'
<1> USE DEF IndInv
<1>1. hpc[c] = "released" /\ hpc' = [hpc EXCEPT ![c] = "counted"]
  BY DEF CountActive, At
<1>2. hpc'[c] = "counted" /\ \A d \in Client : d # c => hpc'[d] = hpc[d]
  BY <1>1 DEF Typed
<1>3. CountersMatch'
  <2>1. c \in Client /\ Typed
    OBVIOUS
  <2>2. /\ Holding' = Holding
         /\ Started' = Started
         /\ Counted' = Counted \ {c} /\ c \in Counted
         /\ Finished' = Finished
    <3>1. c \notin Holding /\ c \in Started /\ c \in Counted /\ c \notin Finished
      BY <1>1 DEF Holding, Started, Counted, Finished
    <3>2. /\ Holding' = Holding \ {c} /\ Started' = Started \cup {c}
          /\ Counted' = Counted \ {c} /\ Finished' = Finished \ {c}
      BY <1>1, <1>2, <2>1 DEF Holding, Started, Counted, Finished
    <3> QED
      BY <3>1, <3>2
  <2> QED
    BY <2>2, <1>1, ClientSets, CountedSets DEF Typed, CountersMatch, TokensMatch, CountActive,
         At, serveVars, closeVars, connVars, statVars
<1>4. Typed'
  <2>1. active - 1 \in Nat
    <3>1. Counted \in SUBSET Client /\ c \in Counted
      BY <1>1, CountedSets DEF Counted
    <3> QED
      BY <3>1, ClientSets DEF CountersMatch
  <2> QED
    BY <2>1, <1>1, <1>2 DEF Typed, CountActive, At, serveVars, closeVars, connVars, statVars
<1>5. Flags'
  BY Zenon DEF Flags, CountActive, At, serveVars, closeVars, connVars, statVars
<1>6. CloserOrder'
  BY <1>4 DEF Typed, CloserOrder, CountActive, At, serveVars, closeVars, connVars, statVars
<1>7. SocketOwner'
  BY <1>1, <1>2, <1>4 DEF Typed, SocketOwner, Started, CountActive, At, serveVars, closeVars,
       connVars, statVars
<1>8. OpenBounded'
  BY <1>4, ClientSets DEF Typed, OpenBounded, CountActive, At, serveVars, closeVars, connVars,
       statVars
<1> QED
  BY <1>3, <1>4, <1>5, <1>6, <1>7, <1>8

(* CountClosed preserves the inductive invariant. *)
LEMMA CountClosedStep ==
    ASSUME IndInv, NEW c \in Client, CountClosed(c)
    PROVE  IndInv'
<1> USE DEF IndInv
<1>1. hpc[c] = "counted" /\ hpc' = [hpc EXCEPT ![c] = "done"]
  BY DEF CountClosed, At
<1>2. hpc'[c] = "done" /\ \A d \in Client : d # c => hpc'[d] = hpc[d]
  BY <1>1 DEF Typed
<1>3. CountersMatch'
  <2>1. c \in Client /\ Typed
    OBVIOUS
  <2>2. /\ Holding' = Holding
         /\ Started' = Started
         /\ Counted' = Counted
         /\ Finished' = Finished \cup {c} /\ c \notin Finished
    BY <1>1, <2>1, MovedSets DEF Holding, Started, Counted, Finished
  <2> QED
    BY <2>2, <1>1, ClientSets, CountedSets DEF Typed, CountersMatch, TokensMatch, CountClosed,
         At, serveVars, closeVars, connVars, statVars
<1>4. Typed'
  BY <1>1, <1>2, ServerAssumption DEF Typed, CountersMatch, CountClosed, At, serveVars,
       closeVars, connVars, statVars
<1>5. Flags'
  BY Zenon DEF Flags, CountClosed, At, serveVars, closeVars, connVars, statVars
<1>6. CloserOrder'
  BY <1>4 DEF Typed, CloserOrder, CountClosed, At, serveVars, closeVars, connVars, statVars
<1>7. SocketOwner'
  BY <1>1, <1>2, <1>4 DEF Typed, SocketOwner, Started, CountClosed, At, serveVars, closeVars,
       connVars, statVars
<1>8. OpenBounded'
  BY <1>4, ClientSets DEF Typed, OpenBounded, CountClosed, At, serveVars, closeVars, connVars,
       statVars
<1> QED
  BY <1>3, <1>4, <1>5, <1>6, <1>7, <1>8

(* CloseBegins preserves the inductive invariant. *)
LEMMA CloseBeginsStep ==
    ASSUME IndInv, CloseBegins
    PROVE  IndInv'
<1> USE DEF IndInv
<1>3. CountersMatch'
  <2>1. UNCHANGED hpc
    BY DEF CloseBegins, closeRest, serveVars, statVars
  <2> QED
    BY <2>1, SameSets, CountedSets, ClientSets DEF Typed, CountersMatch, TokensMatch,
         CloseBegins, closeRest, serveVars, statVars
<1>4. Typed'
  BY ServerAssumption DEF Typed, CountersMatch, CloseBegins, closeRest, serveVars, statVars
<1>5. Flags'
  BY Zenon DEF Flags, CloseBegins, closeRest, serveVars, statVars
<1>6. CloserOrder'
  BY <1>4 DEF Typed, CloserOrder, CloseBegins, closeRest, serveVars, statVars
<1>7. SocketOwner'
  BY <1>4 DEF Typed, SocketOwner, Started, CloseBegins, closeRest, serveVars, statVars
<1>8. OpenBounded'
  BY <1>4, ClientSets DEF Typed, OpenBounded, CloseBegins, closeRest, serveVars, statVars
<1> QED
  BY <1>3, <1>4, <1>5, <1>6, <1>7, <1>8

(* CloseSignals preserves the inductive invariant. *)
LEMMA CloseSignalsStep ==
    ASSUME IndInv, CloseSignals
    PROVE  IndInv'
<1> USE DEF IndInv
<1>3. CountersMatch'
  <2>1. UNCHANGED hpc
    BY DEF CloseSignals, closeRest, serveVars, statVars
  <2> QED
    BY <2>1, SameSets, CountedSets, ClientSets DEF Typed, CountersMatch, TokensMatch,
         CloseSignals, closeRest, serveVars, statVars
<1>4. Typed'
  BY ServerAssumption DEF Typed, CountersMatch, CloseSignals, closeRest, serveVars, statVars
<1>5. Flags'
  BY Zenon DEF Flags, CloseSignals, closeRest, serveVars, statVars
<1>6. CloserOrder'
  BY <1>4 DEF Typed, CloserOrder, CloseSignals, closeRest, serveVars, statVars
<1>7. SocketOwner'
  BY <1>4 DEF Typed, SocketOwner, Started, CloseSignals, closeRest, serveVars, statVars
<1>8. OpenBounded'
  BY <1>4, ClientSets DEF Typed, OpenBounded, CloseSignals, closeRest, serveVars, statVars
<1> QED
  BY <1>3, <1>4, <1>5, <1>6, <1>7, <1>8

(* CloseListener preserves the inductive invariant. *)
LEMMA CloseListenerStep ==
    ASSUME IndInv, CloseListener
    PROVE  IndInv'
<1> USE DEF IndInv
<1>3. CountersMatch'
  <2>1. UNCHANGED hpc
    BY DEF CloseListener, closeRest, serveVars, statVars
  <2> QED
    BY <2>1, SameSets, CountedSets, ClientSets DEF Typed, CountersMatch, TokensMatch,
         CloseListener, closeRest, serveVars, statVars
<1>4. Typed'
  BY ServerAssumption DEF Typed, CountersMatch, CloseListener, closeRest, serveVars, statVars
<1>5. Flags'
  BY Zenon DEF Flags, CloseListener, closeRest, serveVars, statVars
<1>6. CloserOrder'
  BY <1>4 DEF Typed, CloserOrder, CloseListener, closeRest, serveVars, statVars
<1>7. SocketOwner'
  BY <1>4 DEF Typed, SocketOwner, Started, CloseListener, closeRest, serveVars, statVars
<1>8. OpenBounded'
  BY <1>4, ClientSets DEF Typed, OpenBounded, CloseListener, closeRest, serveVars, statVars
<1> QED
  BY <1>3, <1>4, <1>5, <1>6, <1>7, <1>8

(* Snapshot preserves the inductive invariant. *)
LEMMA SnapshotStep ==
    ASSUME IndInv, Snapshot
    PROVE  IndInv'
<1> USE DEF IndInv
<1>3. CountersMatch'
  <2>1. UNCHANGED hpc
    BY DEF Snapshot, closeRest, serveVars, statVars
  <2> QED
    BY <2>1, SameSets, CountedSets, ClientSets DEF Typed, CountersMatch, TokensMatch,
         Snapshot, closeRest, serveVars, statVars
<1>4. Typed'
  BY ServerAssumption DEF Typed, CountersMatch, Snapshot, closeRest, serveVars, statVars
<1>5. Flags'
  BY Zenon DEF Flags, Snapshot, closeRest, serveVars, statVars
<1>6. CloserOrder'
  BY <1>4 DEF Typed, CloserOrder, Snapshot, closeRest, serveVars, statVars
<1>7. SocketOwner'
  BY <1>4 DEF Typed, SocketOwner, Started, Snapshot, closeRest, serveVars, statVars
<1>8. OpenBounded'
  BY <1>4, ClientSets DEF Typed, OpenBounded, Snapshot, closeRest, serveVars, statVars
<1> QED
  BY <1>3, <1>4, <1>5, <1>6, <1>7, <1>8

(* CloseConn preserves the inductive invariant. *)
LEMMA CloseConnStep ==
    ASSUME IndInv, NEW c \in Client, CloseConn(c)
    PROVE  IndInv'
<1> USE DEF IndInv
<1>3. CountersMatch'
  <2>1. UNCHANGED hpc
    BY DEF CloseConn, closeRest, serveVars, statVars
  <2> QED
    BY <2>1, SameSets, CountedSets, ClientSets DEF Typed, CountersMatch, TokensMatch,
         CloseConn, closeRest, serveVars, statVars
<1>4. Typed'
  BY ServerAssumption DEF Typed, CountersMatch, CloseConn, closeRest, serveVars, statVars
<1>5. Flags'
  BY Zenon DEF Flags, CloseConn, closeRest, serveVars, statVars
<1>6. CloserOrder'
  BY <1>4 DEF Typed, CloserOrder, CloseConn, closeRest, serveVars, statVars
<1>7. SocketOwner'
  BY <1>4 DEF Typed, SocketOwner, Started, CloseConn, closeRest, serveVars, statVars
<1>8. OpenBounded'
  BY <1>4, ClientSets DEF Typed, OpenBounded, CloseConn, closeRest, serveVars, statVars
<1> QED
  BY <1>3, <1>4, <1>5, <1>6, <1>7, <1>8

(* CloseFlush preserves the inductive invariant. *)
LEMMA CloseFlushStep ==
    ASSUME IndInv, NEW c \in Client, CloseFlush(c)
    PROVE  IndInv'
<1> USE DEF IndInv
<1>3. CountersMatch'
  <2>1. UNCHANGED hpc
    BY DEF CloseFlush, closeRest, serveVars, statVars
  <2> QED
    BY <2>1, SameSets, CountedSets, ClientSets DEF Typed, CountersMatch, TokensMatch,
         CloseFlush, closeRest, serveVars, statVars
<1>4. Typed'
  BY ServerAssumption DEF Typed, CountersMatch, CloseFlush, closeRest, serveVars, statVars
<1>5. Flags'
  BY Zenon DEF Flags, CloseFlush, closeRest, serveVars, statVars
<1>6. CloserOrder'
  BY <1>4 DEF Typed, CloserOrder, CloseFlush, closeRest, serveVars, statVars
<1>7. SocketOwner'
  BY <1>4 DEF Typed, SocketOwner, Started, CloseFlush, closeRest, serveVars, statVars
<1>8. OpenBounded'
  BY <1>4, ClientSets DEF Typed, OpenBounded, CloseFlush, closeRest, serveVars, statVars
<1> QED
  BY <1>3, <1>4, <1>5, <1>6, <1>7, <1>8

(* CloseSocket preserves the inductive invariant. *)
LEMMA CloseSocketStep ==
    ASSUME IndInv, NEW c \in Client, CloseSocket(c)
    PROVE  IndInv'
<1> USE DEF IndInv
<1>3. CountersMatch'
  <2>1. UNCHANGED hpc
    BY DEF CloseSocket, closeRest, serveVars, statVars
  <2> QED
    BY <2>1, SameSets, CountedSets, ClientSets DEF Typed, CountersMatch, TokensMatch,
         CloseSocket, closeRest, serveVars, statVars
<1>4. Typed'
  BY ServerAssumption DEF Typed, CountersMatch, CloseSocket, closeRest, serveVars, statVars
<1>5. Flags'
  BY Zenon DEF Flags, CloseSocket, closeRest, serveVars, statVars
<1>6. CloserOrder'
  BY <1>4 DEF Typed, CloserOrder, CloseSocket, closeRest, serveVars, statVars
<1>7. SocketOwner'
  BY <1>4 DEF Typed, SocketOwner, Started, CloseSocket, closeRest, serveVars, statVars
<1>8. OpenBounded'
  <2>1. open \in SUBSET Client /\ open' \in SUBSET open
    BY DEF Typed, CloseSocket
  <2>2. /\ Cardinality(open') \in Nat /\ Cardinality(open) \in Nat
        /\ Cardinality(open') <= Cardinality(open)
    BY <2>1, ClientSets
  <2> QED
    BY <2>2, ServerAssumption DEF OpenBounded
<1> QED
  BY <1>3, <1>4, <1>5, <1>6, <1>7, <1>8

(* CloseReturns preserves the inductive invariant. *)
LEMMA CloseReturnsStep ==
    ASSUME IndInv, CloseReturns
    PROVE  IndInv'
<1> USE DEF IndInv
<1>3. CountersMatch'
  <2>1. UNCHANGED hpc
    BY DEF CloseReturns, closeRest, serveVars, statVars
  <2> QED
    BY <2>1, SameSets, CountedSets, ClientSets DEF Typed, CountersMatch, TokensMatch,
         CloseReturns, closeRest, serveVars, statVars
<1>4. Typed'
  BY ServerAssumption DEF Typed, CountersMatch, CloseReturns, closeRest, serveVars, statVars
<1>5. Flags'
  BY Zenon DEF Flags, CloseReturns, closeRest, serveVars, statVars
<1>6. CloserOrder'
  BY <1>4 DEF Typed, CloserOrder, CloseReturns, closeRest, serveVars, statVars
<1>7. SocketOwner'
  BY <1>4 DEF Typed, SocketOwner, Started, CloseReturns, closeRest, serveVars, statVars
<1>8. OpenBounded'
  BY <1>4, ClientSets DEF Typed, OpenBounded, CloseReturns, closeRest, serveVars, statVars
<1> QED
  BY <1>3, <1>4, <1>5, <1>6, <1>7, <1>8

(* ContextExpires preserves the inductive invariant. *)
LEMMA ContextExpiresStep ==
    ASSUME IndInv, ContextExpires
    PROVE  IndInv'
<1> USE DEF IndInv
<1>3. CountersMatch'
  <2>1. UNCHANGED hpc
    BY DEF ContextExpires, serveVars, closeVars, connVars, statVars
  <2> QED
    BY <2>1, SameSets, CountedSets, ClientSets DEF Typed, CountersMatch, TokensMatch,
         ContextExpires, serveVars, closeVars, connVars, statVars
<1>4. Typed'
  BY ServerAssumption DEF Typed, CountersMatch, ContextExpires, serveVars, closeVars,
       connVars, statVars
<1>5. Flags'
  BY Zenon DEF Flags, ContextExpires, serveVars, closeVars, connVars, statVars
<1>6. CloserOrder'
  BY <1>4 DEF Typed, CloserOrder, ContextExpires, serveVars, closeVars, connVars, statVars
<1>7. SocketOwner'
  BY <1>4 DEF Typed, SocketOwner, Started, ContextExpires, serveVars, closeVars, connVars,
       statVars
<1>8. OpenBounded'
  BY <1>4, ClientSets DEF Typed, OpenBounded, ContextExpires, serveVars, closeVars, connVars,
       statVars
<1> QED
  BY <1>3, <1>4, <1>5, <1>6, <1>7, <1>8
(* Every step of Next, and stuttering, preserves the inductive invariant. *)
LEMMA NextStep == IndInv /\ [Next]_vars => IndInv'
<1> SUFFICES ASSUME IndInv, [Next]_vars PROVE IndInv'
  OBVIOUS
<1>1. CASE Serve
  BY <1>1, StoreListenerStep, CheckClosingStep, AcquireTokenStep, AcceptStep, AcceptErrorStep
     DEF Serve
<1>2. ASSUME NEW c \in Client, handleConn(c) \/ CallGoesOn(c)
      PROVE  IndInv'
  BY <1>2, RegisterStep, CallBlocksStep, CallGoesOnStep, HandlerReturnsStep, UnregisterStep,
     HandlerClosesStep, HandlerSocketStep, ReleaseTokenStep, CountActiveStep, CountClosedStep
     DEF handleConn
<1>3. CASE Close
  BY <1>3, CloseBeginsStep, CloseSignalsStep, CloseListenerStep, SnapshotStep, CloseConnStep,
     CloseFlushStep, CloseSocketStep, CloseReturnsStep
     DEF Close
<1>4. CASE ContextExpires
  BY <1>4, ContextExpiresStep
<1>5. CASE UNCHANGED vars
  <2>1. UNCHANGED hpc
    BY <1>5 DEF vars, connVars
  <2>2. CountersMatch'
    BY <1>5, <2>1, SameSets
       DEF IndInv, CountersMatch, TokensMatch, vars, serveVars, statVars
  <2>3. Typed' /\ CloserOrder' /\ SocketOwner' /\ OpenBounded'
    BY <1>5 DEF IndInv, Typed, CloserOrder, SocketOwner, OpenBounded, Started, vars, serveVars,
       closeVars, connVars, statVars
  <2>4. Flags'
    BY <1>5, Zenon DEF IndInv, Flags, vars, closeVars
  <2> QED
    BY <2>2, <2>3, <2>4 DEF IndInv
<1> QED
  BY <1>1, <1>2, <1>3, <1>4, <1>5 DEF Next
----------------------------------------------------------------------------
(* The inductive invariant holds of every behaviour of the server. *)
LEMMA Invariant == Spec => []IndInv
BY InitInd, NextStep, PTL DEF Spec

(* The server's state keeps its types: in particular the token channel     *)
(* never holds more than MaxConns or fewer than no tokens.                 *)
THEOREM ServerTypeCorrect == Spec => []TypeOK
<1>1. IndInv => TypeOK
  BY TypeParts DEF IndInv
<1> QED
  BY <1>1, Invariant, PTL

(* No accept token is lost or given back twice, whatever the order of      *)
(* failing Accepts, returning handlers and Close.                          *)
THEOREM TokensAlwaysMatch == Spec => []TokensMatch
<1>1. IndInv => TokensMatch
  BY DEF IndInv, CountersMatch
<1> QED
  BY <1>1, Invariant, PTL

(* MaxConns bounds the open sockets, also when a handler that lost the     *)
(* race for its connection gives the token back before the closer closes   *)
(* the socket.                                                             *)
THEOREM OpenSocketsBounded == Spec => []OpenBounded
<1>1. IndInv => OpenBounded
  BY DEF IndInv
<1> QED
  BY <1>1, Invariant, PTL

(* Once Serve, Close and all handlers have returned no socket is open, no  *)
(* connection registered, and the counters of Stats add up.                *)
THEOREM NothingLeftBehind == Spec => []NothingLeft
<1>1. IndInv => NothingLeft
  <2> SUFFICES ASSUME IndInv, cpc = "returned",
                      \A c \in Client : hpc[c] \in {"none", "done"}
               PROVE  open = {} /\ conns = {} /\ active = 0 /\ accepted = finished
    BY DEF NothingLeft
  <2>1. Counted = {} /\ Started = Finished
    BY DEF Counted, Started, Finished
  <2>2. active = 0 /\ accepted = finished
    BY <2>1, FS_EmptySet DEF IndInv, CountersMatch
  <2>3. target = {} /\ open \in SUBSET Client
    BY DEF IndInv, SocketOwner, Typed
  <2>4. open = {} /\ conns = {}
    BY <2>3 DEF IndInv, SocketOwner
  <2> QED
    BY <2>2, <2>4
<1> QED
  BY <1>1, Invariant, PTL
============================================================================

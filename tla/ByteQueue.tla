----------------------------- MODULE ByteQueue -----------------------------
(***************************************************************************)
(* What a Ring promises its one producer and its one consumer, without     *)
(* indices, slots or copying: a bounded first-in first-out queue of bytes. *)
(* Every operation takes effect in one step.                               *)
(***************************************************************************)
EXTENDS Integers, Sequences

CONSTANTS Byte,      \* the values of a byte
          Capacity   \* bytes the queue can hold (Ring.Cap)

VARIABLES queue,     \* published and not yet consumed, oldest first
          ack,       \* the bytes the last producer operation took, its error
          got        \* what the last consumer operation returned

NoBytes == << >>

First(s, n) == SubSeq(s, 1, n)
Rest(s, n)  == SubSeq(s, n + 1, Len(s))

Init == /\ queue = << >>
        /\ ack = [p |-> NoBytes, err |-> "nil"]
        /\ got = NoBytes

(* A write appends bytes; the caller is told that these were taken.        *)
Put(s) == /\ queue' = queue \o s
          /\ \E err \in {"nil", "full"} : ack' = [p |-> s, err |-> err]
          /\ UNCHANGED got

(* "Full" with nothing taken is only ever said of a queue that is full.    *)
PutFull == /\ Len(queue) = Capacity
           /\ ack' = [p |-> NoBytes, err |-> "full"]
           /\ UNCHANGED <<queue, got>>

Get(n) == /\ got' = First(queue, n)
          /\ queue' = Rest(queue, n)
          /\ UNCHANGED ack

Drop(n) == /\ queue' = Rest(queue, n)
           /\ got' = NoBytes
           /\ UNCHANGED ack

Look(n) == /\ got' = First(queue, n)
           /\ UNCHANGED <<queue, ack>>

Empty == /\ queue = << >>
         /\ got' = NoBytes
         /\ UNCHANGED <<queue, ack>>

Clear == /\ queue' = << >>
         /\ UNCHANGED <<ack, got>>

Room == Capacity - Len(queue)

Next == \/ \E n \in 1..Room : \E s \in [1..n -> Byte] : Put(s)
        \/ PutFull
        \/ \E n \in 1..Len(queue) : Get(n) \/ Look(n)
        \/ \E n \in 0..Len(queue) : Drop(n)
        \/ Empty
        \/ Clear

vars == <<queue, ack, got>>

Spec == Init /\ [][Next]_vars
============================================================================

-------------------------- MODULE ConnNegotiation --------------------------
(***************************************************************************)
(* Option negotiation between two Conns: NewConn's offers, the policy in   *)
(* front of the Negotiator in processReadLocked, the write buffer between  *)
(* a response and the wire, and SendCommand as the application calls it.   *)
(* Commands are the only bytes: text and subnegotiations do not touch this *)
(* state.  The wire is TCP: lossless and in order, cut into reads anywhere.*)
(***************************************************************************)
EXTENDS Negotiator, OptionFields, Integers, Sequences, SequencesExt, FiniteSets

CONSTANTS End,             \* the two endpoints
          Option,
          Enabled,         \* Enabled[e]: what e's Config enables
          Supported,       \* the options isOptionSupported knows
          AppCommands,     \* <<e, cmd, o>>: what e's application sends, once each
          MaxCmdEvents,    \* commands kept of one read: 16 in the code
          WriteCap         \* commands that fit into writeBuf

ASSUME EndAssumption == \E a \in End, b \in End : a # b /\ End = {a, b}
ASSUME OptionAssumption ==
    /\ Supported \subseteq Option /\ IsFiniteSet(Supported)
    /\ Enabled \in [End -> SUBSET Supported]
    /\ AppCommands \subseteq End \X {CmdWill, CmdWont, CmdDo, CmdDont} \X Option
ASSUME BoundAssumption == MaxCmdEvents \in Nat \ {0} /\ WriteCap \in Nat \ {0}

VARIABLES up,         \* up[e]: NewConn has returned
          pend,       \* pend[e]: parsed commands processReadLocked has still to treat
          wbuf,       \* wbuf[e]: commands in writeBuf
          wire,       \* wire[e]: commands on their way to e
          unsent      \* application commands not yet sent

vars == <<up, us, him, pend, wbuf, wire, unsent>>

Peer(e) == CHOOSE p \in End : p # e
None    == [o \in Option |-> "No"]

Init == /\ up = [e \in End |-> FALSE]
        /\ us = [e \in End |-> None] /\ him = [e \in End |-> None]
        /\ pend = [e \in End |-> << >>]
        /\ wbuf = [e \in End |-> << >>] /\ wire = [e \in End |-> << >>]
        /\ unsent = AppCommands
----------------------------------------------------------------------------
isOptionSupported(o) == o \in Supported
isOptionEnabledLocally(e, o) == o \in Enabled[e]

(* SendCommand: the buffer is flushed first when the command does not fit. *)
SendCommand(e, cmd, o) ==
    IF Len(wbuf[e]) < WriteCap
    THEN /\ wbuf' = [wbuf EXCEPT ![e] = Append(@, <<cmd, o>>)]
         /\ UNCHANGED wire
    ELSE /\ wire' = [wire EXCEPT ![Peer(e)] = @ \o wbuf[e]]
         /\ wbuf' = [wbuf EXCEPT ![e] = <<<<cmd, o>>>>]

(* NewConn: negotiateInitial offers every enabled option, in a fixed order,*)
(* and flushes.  The Negotiator is not told: us stays "No".                *)
NewConn(e) ==
    /\ ~up[e]
    /\ up' = [up EXCEPT ![e] = TRUE]
    /\ LET order == SetToSeq(Enabled[e])
       IN wire' = [wire EXCEPT ![Peer(e)] =
                      @ \o [k \in 1..Len(order) |-> <<CmdWill, order[k]>>]]
    /\ UNCHANGED <<us, him, pend, wbuf, unsent>>

(* One netConn.Read and Parse: k commands come in, those past the size of  *)
(* the event table are dropped.                                            *)
Read(e, k) ==
    /\ up[e] /\ pend[e] = << >>
    /\ pend' = [pend EXCEPT ![e] =
                  SubSeq(wire[e], 1, IF k < MaxCmdEvents THEN k ELSE MaxCmdEvents)]
    /\ wire' = [wire EXCEPT ![e] = SubSeq(@, k + 1, Len(@))]
    /\ UNCHANGED <<up, us, him, wbuf, unsent>>

(* The refusals of processReadLocked go past the Negotiator. *)
Refuse(e, cmd, o) ==
    \/ cmd = CmdDo   /\ ~isOptionEnabledLocally(e, o) /\ SendCommand(e, CmdWont, o)
    \/ cmd = CmdWill /\ ~isOptionSupported(o)         /\ SendCommand(e, CmdDont, o)

Respond(e, o, response) ==
    IF response = Nothing THEN UNCHANGED <<wbuf, wire>> ELSE SendCommand(e, response, o)

(* Mutant: every command goes to the Negotiator, whatever the Config says. *)
negotiateUnchecked(e, cmd, o) ==
    IF cmd \in {CmdWill, CmdWont}
    THEN LET r == Handle(cmd, him[e][o])
         IN /\ him' = [him EXCEPT ![e][o] = r.state]
            /\ UNCHANGED us
            /\ Respond(e, o, r.response)
    ELSE LET r == Handle(cmd, us[e][o])
         IN /\ us' = [us EXCEPT ![e][o] = r.state]
            /\ UNCHANGED him
            /\ Respond(e, o, r.response)

(* Mutant: an offer is accepted without telling the peer. *)
negotiateMute(e, cmd, o) ==
    IF cmd \in {CmdWill, CmdWont}
    THEN LET r == Handle(cmd, him[e][o])
         IN /\ him' = [him EXCEPT ![e][o] = r.state]
            /\ UNCHANGED <<us, wbuf, wire>>
    ELSE LET r == Handle(cmd, us[e][o])
         IN /\ us' = [us EXCEPT ![e][o] = r.state]
            /\ UNCHANGED him
            /\ Respond(e, o, r.response)

(* Mutant: every demand is acknowledged, also for an option that is on. *)
negotiateAcknowledging(e, cmd, o) ==
    /\ us' = IF cmd = CmdDo THEN [us EXCEPT ![e][o] = "Yes"] ELSE us
    /\ him' = IF cmd = CmdWill THEN [him EXCEPT ![e][o] = "Yes"] ELSE him
    /\ Respond(e, o, CASE cmd = CmdDo   -> CmdWill
                       [] cmd = CmdWill -> CmdDo
                       [] OTHER         -> Nothing)

(* One command of processReadLocked's second loop. *)
negotiate(e, cmd, o) ==
    \/ Refuse(e, cmd, o) /\ UNCHANGED <<us, him>>
    \/ /\ cmd = CmdDo => isOptionEnabledLocally(e, o)
       /\ cmd \in {CmdDo, CmdDont}
       /\ LET r == Handle(cmd, us[e][o])
          IN us' = [us EXCEPT ![e][o] = r.state] /\ Respond(e, o, r.response)
       /\ UNCHANGED him
    \/ /\ cmd = CmdWill => isOptionSupported(o)
       /\ cmd \in {CmdWill, CmdWont}
       /\ LET r == Handle(cmd, him[e][o])
          IN him' = [him EXCEPT ![e][o] = r.state] /\ Respond(e, o, r.response)
       /\ UNCHANGED us

Process(e) ==
    /\ pend[e] # << >>
    /\ negotiate(e, pend[e][1][1], pend[e][1][2])
    /\ pend' = [pend EXCEPT ![e] = Tail(@)]
    /\ UNCHANGED <<up, unsent>>

(* The application sends a command of its own; it takes only writeMu, so   *)
(* it may come between two commands of a read.                             *)
AppSend(e, cmd, o) ==
    /\ up[e] /\ <<e, cmd, o>> \in unsent
    /\ unsent' = unsent \ {<<e, cmd, o>>}
    /\ SendCommand(e, cmd, o)
    /\ UNCHANGED <<up, us, him, pend>>

Flush(e) ==
    /\ wbuf[e] # << >>
    /\ wire' = [wire EXCEPT ![Peer(e)] = @ \o wbuf[e]]
    /\ wbuf' = [wbuf EXCEPT ![e] = << >>]
    /\ UNCHANGED <<up, us, him, pend, unsent>>

ReadSome(e) == \E k \in 1..Len(wire[e]) : Read(e, k)

Next == \E e \in End : \/ NewConn(e)
                       \/ ReadSome(e)
                       \/ Process(e)
                       \/ \E c \in AppCommands : c[1] = e /\ AppSend(e, c[2], c[3])
                       \/ Flush(e)

(* Each endpoint comes up and keeps reading; whether it flushes what it    *)
(* has buffered is up to the application.                                  *)
Fairness == \A e \in End : WF_vars(NewConn(e)) /\ WF_vars(ReadSome(e)) /\ WF_vars(Process(e))
Flushing == \A e \in End : WF_vars(Flush(e))

Spec == Init /\ [][Next]_vars /\ Fairness
----------------------------------------------------------------------------
AtRest == \A e \in End : /\ up[e] /\ pend[e] = << >>
                         /\ wbuf[e] = << >> /\ wire[e] = << >>

(* When nothing is in flight any more, both ends hold the same options on: *)
(* what one performs is what the other expects of it.                      *)
AgreeAtRest == AtRest => \A e \in End, o \in Option : us[e][o] = him[Peer(e)][o]

(* A connection never performs an option that its Config does not enable,  *)
(* whatever the peer demands, nor lets the peer perform one that it does   *)
(* not know, whatever the peer offers.                                     *)
OnlyEnabled == \A e \in End, o \in Option : /\ us[e][o] # "No" => o \in Enabled[e]
                                            /\ him[e][o] # "No" => o \in Supported

(* An application has sent a WONT or a DONT. *)
Withdrawn == \E c \in AppCommands \ unsent : c[2] \in {CmdWont, CmdDont}

(* NewConn's unrecorded offers still take effect: at rest every enabled    *)
(* option is on, if no application has withdrawn one, and at no time any   *)
(* other.                                                                  *)
OffersTakeEffect ==
    /\ AtRest /\ ~Withdrawn => \A e \in End : \A o \in Enabled[e] : us[e][o] = "Yes"
    /\ OnlyEnabled

(* The negotiation ends, if both applications flush and neither ever sends *)
(* a WONT or DONT: from some point on nothing is in flight.  Withdrawing   *)
(* an offer that is still on its way starts an exchange without end, since *)
(* the Negotiator does not know of the offer.                              *)
Converges == Flushing /\ []~Withdrawn => <>[]AtRest
============================================================================

--------------------------- MODULE NegotiatorPair --------------------------
(***************************************************************************)
(* Two Negotiators at the ends of a connection.  A half is one endpoint's  *)
(* performance of one option, for instance the server's ECHO.  The state   *)
(* of a half is the performer's field us, the field him that the OTHER     *)
(* endpoint keeps about it, and the commands in flight about it: offers    *)
(* (WILL, WONT) from the performer and demands (DO, DONT) to it.           *)
(*                                                                         *)
(* TCP delivers all the commands of a direction in order.  Here only those *)
(* about the same half are kept in order, which allows more behaviours     *)
(* than the code has: what holds here holds over TCP.  A call of the       *)
(* Negotiator is one step: Conn makes them all from its read path, under   *)
(* readMu.                                                                 *)
(***************************************************************************)
EXTENDS Negotiator, OptionFields, Integers, Sequences

CONSTANT Half

VARIABLES offers, demands

pairVars == <<us, him, offers, demands>>

PairInit == /\ us  = [h \in Half |-> "No"]
            /\ him = [h \in Half |-> "No"]
            /\ offers  = [h \in Half |-> << >>]
            /\ demands = [h \in Half |-> << >>]

Send(queue, command) == IF command = Nothing THEN queue ELSE Append(queue, command)
----------------------------------------------------------------------------
(* The performer calls RequestEnable or RequestDisable and sends what it   *)
(* returned.                                                               *)
Offer(h, outcome) ==
    /\ outcome.response # Nothing
    /\ us' = [us EXCEPT ![h] = outcome.state]
    /\ offers' = [offers EXCEPT ![h] = Send(@, outcome.response)]
    /\ UNCHANGED <<him, demands>>

(* The other endpoint calls RequestPeerEnable or RequestPeerDisable. *)
Demand(h, outcome) ==
    /\ outcome.response # Nothing
    /\ him' = [him EXCEPT ![h] = outcome.state]
    /\ demands' = [demands EXCEPT ![h] = Send(@, outcome.response)]
    /\ UNCHANGED <<us, offers>>

(* The other endpoint handles the oldest WILL or WONT about h. *)
ReceiveOffer(h) ==
    /\ offers[h] # << >>
    /\ LET outcome == Handle(Head(offers[h]), him[h])
       IN /\ him' = [him EXCEPT ![h] = outcome.state]
          /\ demands' = [demands EXCEPT ![h] = Send(@, outcome.response)]
    /\ offers' = [offers EXCEPT ![h] = Tail(@)]
    /\ UNCHANGED us

(* The performer handles the oldest DO or DONT about h. *)
ReceiveDemand(h) ==
    /\ demands[h] # << >>
    /\ LET outcome == Handle(Head(demands[h]), us[h])
       IN /\ us' = [us EXCEPT ![h] = outcome.state]
          /\ offers' = [offers EXCEPT ![h] = Send(@, outcome.response)]
    /\ demands' = [demands EXCEPT ![h] = Tail(@)]
    /\ UNCHANGED him

(* A new session over the same Negotiators: both are Reset, nothing is in  *)
(* flight.                                                                 *)
Reset == /\ us'  = [h \in Half |-> "No"]
         /\ him' = [h \in Half |-> "No"]
         /\ offers'  = [h \in Half |-> << >>]
         /\ demands' = [h \in Half |-> << >>]

Receive(h) == ReceiveOffer(h) \/ ReceiveDemand(h)

PairNext == \/ \E h \in Half : \/ Offer(h, RequestEnable(us[h]))
                               \/ Offer(h, RequestDisable(us[h]))
                               \/ Demand(h, RequestPeerEnable(him[h]))
                               \/ Demand(h, RequestPeerDisable(him[h]))
                               \/ ReceiveOffer(h)
                               \/ ReceiveDemand(h)
            \/ Reset

(* Both endpoints keep reading what arrives. *)
PairFairness == \A h \in Half : WF_pairVars(ReceiveOffer(h)) /\ WF_pairVars(ReceiveDemand(h))

PairSpec == PairInit /\ [][PairNext]_pairVars /\ PairFairness
----------------------------------------------------------------------------
TypeOK == /\ us \in [Half -> OptionState] /\ him \in [Half -> OptionState]
          /\ offers  \in [Half -> Seq({CmdWill, CmdWont})]
          /\ demands \in [Half -> Seq({CmdDo, CmdDont})]

Quiet(h) == offers[h] = << >> /\ demands[h] = << >>

(* Whenever no command about an option is in flight, both endpoints        *)
(* consider it settled and agree on whether it is on.                      *)
Agreement == \A h \in Half : Quiet(h) => us[h] = him[h] /\ us[h] \in {"No", "Yes"}

(* The branches of the handlers marked as conflicts (WILL or DO received   *)
(* in state WantNo) are never taken between two Negotiators, whoever asks  *)
(* for what and when.                                                      *)
NoConflict ==
    \A h \in Half :
       /\ offers[h] # << >> /\ Head(offers[h]) = CmdWill => him[h] # "WantNo"
       /\ demands[h] # << >> /\ Head(demands[h]) = CmdDo => us[h] # "WantNo"

(* A request is answered: an option does not stay in a pending state       *)
(* (IsNegotiating) for ever, whatever is requested meanwhile.              *)
Settles == \A h \in Half :
              /\ us[h]  \in {"WantNo", "WantYes"} ~> us[h]  \in {"No", "Yes"}
              /\ him[h] \in {"WantNo", "WantYes"} ~> him[h] \in {"No", "Yes"}

(* No negotiation loop: once nobody makes requests any more, the exchange  *)
(* of responses comes to an end.                                           *)
NoLoop == <>[][\E h \in Half : Receive(h)]_pairVars => <>[](\A h \in Half : Quiet(h))

(* The inductive invariant: the exchange about one half is always at one   *)
(* of sixteen points.  In the comments P is the performer, R the other.    *)
At(h, u, x, off, dem) == us[h] = u /\ him[h] = x /\ offers[h] = off /\ demands[h] = dem

Settled(h)  == \/ At(h, "No",  "No",  << >>, << >>)
               \/ At(h, "Yes", "Yes", << >>, << >>)
Enabling(h) == \/ At(h, "WantYes", "No",      <<CmdWill>>, << >>)        \* P asked
               \/ At(h, "No",      "WantYes", << >>,       <<CmdDo>>)    \* R asked
               \/ At(h, "WantYes", "WantYes", <<CmdWill>>, <<CmdDo>>)    \* both asked
               \/ At(h, "WantYes", "Yes",     << >>,       <<CmdDo>>)    \* R has agreed
               \/ At(h, "Yes",     "WantYes", <<CmdWill>>, << >>)        \* P has agreed
Disabling(h) == \/ At(h, "WantNo", "Yes",    <<CmdWont>>, << >>)
                \/ At(h, "Yes",    "WantNo", << >>,       <<CmdDont>>)
                \/ At(h, "WantNo", "WantNo", <<CmdWont>>, <<CmdDont>>)
                \/ At(h, "WantNo", "No",     << >>,       <<CmdDont>>)
                \/ At(h, "No",     "WantNo", <<CmdWont>>, << >>)
(* One endpoint has settled and already asks for the opposite. *)
Reversing(h) == \/ At(h, "WantNo",  "WantYes", <<CmdWill, CmdWont>>, << >>)
                \/ At(h, "WantYes", "WantNo",  << >>, <<CmdDo, CmdDont>>)
                \/ At(h, "WantYes", "WantNo",  <<CmdWont, CmdWill>>, << >>)
                \/ At(h, "WantNo",  "WantYes", << >>, <<CmdDont, CmdDo>>)

Point(h) == Settled(h) \/ Enabling(h) \/ Disabling(h) \/ Reversing(h)

IndInv == TypeOK /\ \A h \in Half : Point(h)
============================================================================

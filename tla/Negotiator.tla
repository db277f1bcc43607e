----------------------------- MODULE Negotiator ----------------------------
(***************************************************************************)
(* The Q-method state machine of options.go as a table: what each command  *)
(* received, and each request made, does to one side of one option.  A     *)
(* handler touches only one of the two fields of an Option: WILL and WONT  *)
(* the peer's (him), DO and DONT our own (us).  The states QOpposite and 5 *)
(* are stored nowhere, so they are left out, with the handlers' fallbacks. *)
(***************************************************************************)
CmdWill == "WILL"
CmdWont == "WONT"
CmdDo   == "DO"
CmdDont == "DONT"
Nothing == "none"        \* the response 0

OptionState == {"No", "Yes", "WantNo", "WantYes"}

(* A handler yields the state it stores and the response; "changed" is     *)
(* that the two states differ.                                             *)
Outcome(st, resp) == [state |-> st, response |-> resp]

(* Mutant: an offer is echoed instead of accepted. *)
handleWillEcho(him) == CASE him = "No" -> Outcome("Yes", CmdWill)
                         [] OTHER      -> Outcome("Yes", Nothing)

handleWill(him) == CASE him = "No"      -> Outcome("Yes", CmdDo)
                     [] him = "Yes"     -> Outcome("Yes", Nothing)
                     [] him = "WantNo"  -> Outcome("No", CmdDont)
                     [] him = "WantYes" -> Outcome("Yes", Nothing)

(* Mutant: agreeing to disable is not acknowledged. *)
handleWontSilent(him) == Outcome("No", Nothing)

handleWont(him) == CASE him = "No"      -> Outcome("No", Nothing)
                     [] him = "Yes"     -> Outcome("No", CmdDont)
                     [] him = "WantNo"  -> Outcome("No", Nothing)
                     [] him = "WantYes" -> Outcome("No", Nothing)

handleDo(us) == CASE us = "No"      -> Outcome("Yes", CmdWill)
                  [] us = "Yes"     -> Outcome("Yes", Nothing)
                  [] us = "WantNo"  -> Outcome("No", CmdWont)
                  [] us = "WantYes" -> Outcome("Yes", Nothing)

handleDont(us) == CASE us = "No"      -> Outcome("No", Nothing)
                    [] us = "Yes"     -> Outcome("No", CmdWont)
                    [] us = "WantNo"  -> Outcome("No", Nothing)
                    [] us = "WantYes" -> Outcome("No", Nothing)

(* Mutant: every command is acknowledged, the method RFC 1143 replaces. *)
HandleAcknowledging(command, st) ==
    CASE command = CmdWill -> Outcome("Yes", CmdDo)
      [] command = CmdWont -> Outcome("No", CmdDont)
      [] command = CmdDo   -> Outcome("Yes", CmdWill)
      [] command = CmdDont -> Outcome("No", CmdWont)

(* Handle, on the field the command concerns. *)
Handle(command, st) ==
    CASE command = CmdWill -> handleWill(st)
      [] command = CmdWont -> handleWont(st)
      [] command = CmdDo   -> handleDo(st)
      [] command = CmdDont -> handleDont(st)

(* The four requests: from which state, to which state, with what command. *)
RequestEnable(us) ==
    IF us = "No" THEN Outcome("WantYes", CmdWill) ELSE Outcome(us, Nothing)

RequestDisable(us) ==
    IF us = "Yes" THEN Outcome("WantNo", CmdWont) ELSE Outcome(us, Nothing)

RequestPeerEnable(him) ==
    IF him = "No" THEN Outcome("WantYes", CmdDo) ELSE Outcome(him, Nothing)

(* Mutant: disabling may be requested while an earlier request is open. *)
RequestPeerDisableAnytime(him) ==
    IF him # "No" THEN Outcome("WantNo", CmdDont) ELSE Outcome(him, Nothing)

RequestPeerDisable(him) ==
    IF him = "Yes" THEN Outcome("WantNo", CmdDont) ELSE Outcome(him, Nothing)
============================================================================

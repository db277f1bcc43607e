------------------------- MODULE MCConnNegotiation -------------------------
(* A server that offers echo, a client that offers echo and naws; odd is   *)
(* an option neither knows.  The applications send further offers and       *)
(* demands, and the client may withdraw its offer of naws.                  *)
EXTENDS ConnNegotiation

CONSTANTS server, client, echo, naws, odd

MCEnd       == {server, client}
MCOption    == {echo, naws, odd}
MCSupported == {echo, naws}
MCEnabled   == (server :> {echo}) @@ (client :> {echo, naws})
MCCommands  == {<<server, CmdDo, naws>>, <<client, CmdDo, naws>>, <<client, CmdWill, odd>>,
                <<client, CmdWont, naws>>}
============================================================================

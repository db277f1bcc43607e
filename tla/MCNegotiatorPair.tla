-------------------------- MODULE MCNegotiatorPair -------------------------
(* Two halves: say the server's ECHO and the client's NAWS. *)
EXTENDS NegotiatorPair
============================================================================

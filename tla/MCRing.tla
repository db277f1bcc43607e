------------------------------- MODULE MCRing ------------------------------
(* Instance of Ring for TLC: four slots, indices that wrap after eight, and *)
(* slices of up to three bytes, so that writes are cut, the buffer and the  *)
(* indices wrap, and both sides are in the middle of a call at once.        *)
EXTENDS Ring
============================================================================

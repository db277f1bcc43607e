---------------------------- MODULE OptionFields ---------------------------
(***************************************************************************)
(* The fields us and him of the Options of two Negotiators that face each  *)
(* other, indexed as the module that uses them says.                       *)
(***************************************************************************)
VARIABLES us, him
============================================================================

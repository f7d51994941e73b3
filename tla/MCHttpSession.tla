---------------------------- MODULE MCHttpSession ----------------------------
(* Instances of HttpSession for TLC. *)
EXTENDS HttpSession

EveryLine == {"start", "close", "length", "chunked", "blank", "size", "zero", "other"}
=============================================================================

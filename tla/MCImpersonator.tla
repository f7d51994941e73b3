---------------------------- MODULE MCImpersonator ----------------------------
(* Instances of Impersonator for TLC. *)
EXTENDS Impersonator

CONSTANTS c1, c2, login

\* Operations whose responses look the same.
MCKind == [c \in Calls |-> "info_response"]
=============================================================================

------------------------------ MODULE MCChannel ------------------------------
(***************************************************************************)
(* Instances of Channel.                                                   *)
(***************************************************************************)
EXTENDS Channel

EveryUse == {"control", "download", "upload"}

Sends == [use \in EveryUse |-> IF use = "upload" THEN 3 ELSE 2]
=============================================================================

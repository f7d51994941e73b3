------------------------------ MODULE MCAutobanner ------------------------------
(* Instances of Autobanner: the limit is lowered, raised, or set to 0, which    *)
(* switches the autobanner off.                                                 *)
EXTENDS Autobanner

Opt(max, window, ban) == [max |-> max, window |-> window, ban |-> ban]

Limits == {Opt(2, 1, 2), Opt(3, 1, 1), Opt(0, 1, 2)}
OneLimit  == {Opt(2, 1, 2)}
================================================================================

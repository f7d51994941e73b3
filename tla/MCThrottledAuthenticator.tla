--------------------------- MODULE MCThrottledAuthenticator ---------------------------
(* An instance of ThrottledAuthenticator: two sessions of different peers that  *)
(* try the same user.                                                           *)
EXTENDS ThrottledAuthenticator, TLC

CONSTANTS s1, s2, a1, a2

Peers == (s1 :> a1) @@ (s2 :> a2)
================================================================================

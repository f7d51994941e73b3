----------------------------- MODULE MCPortManager -----------------------------
(* Small instances of PortManager: two sessions, of two peers.                *)
EXTENDS PortManager, TLC

CONSTANTS s1, s2, a, b

TwoPeerOf == (s1 :> a) @@ (s2 :> b)

(* The sessions are interchangeable, each together with its peer.              *)
Mirrored ==
  {f \in Permutations(Sessions \cup Peers) :
     \A s \in Sessions : f[s] \in Sessions /\ f[PeerOf[s]] = PeerOf[f[s]]}
================================================================================

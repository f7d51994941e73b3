----------------------------- MODULE MCTcpServer -----------------------------
(* Instances of TcpServer for TLC. *)
EXTENDS TcpServer

CONSTANTS s1, s2, s3, a1, a2, n1

\* Two sockets of one address, the others of another address of its network.
MCPeer == [s \in Sockets |-> IF s \in {s1, s2} THEN a1 ELSE a2]
MCNetwork == [a \in Address |-> n1]

==============================================================================

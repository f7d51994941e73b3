------------------------------ MODULE MCPortScan ------------------------------
(* Small instances of PortScan: two sessions, of two peers.                   *)
EXTENDS PortScan, MCPortManager
===============================================================================

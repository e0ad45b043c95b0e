------------------------------ MODULE MCPeerLink ------------------------------
(* Bounds for checking PeerLink: a sends chat messages and a direct frame, *)
(* b answers with receipts.                                                *)
EXTENDS PeerLink
CONSTANTS a, b

OneWay(n) == [d \in Device |-> IF d = a THEN n ELSE 0]
OneSent == OneWay(1)
ThreeSent == OneWay(3)
=============================================================================

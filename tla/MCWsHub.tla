------------------------------ MODULE MCWsHub ------------------------------
(* A daemon that sends more than a page. *)
EXTENDS WsHub

FewFrames == [c \in Conns |-> IF c \in Peers THEN 2 ELSE 1]
=============================================================================

------------------------------ MODULE MCPresence ------------------------------
(* Model checking presence: two or three devices of one or two segments. *)
EXTENDS Presence

CONSTANTS d1, d2, d3
OneSegment == [d \in Device |-> 1]
TwoSegments == [d \in Device |-> IF d = d3 THEN 2 ELSE 1]
=============================================================================

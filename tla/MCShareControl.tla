--------------------------- MODULE MCShareControl ---------------------------
(* A host and two viewers, who behave alike. *)
EXTENDS ShareControl, TLC

Symmetry == Permutations(Viewers)
=============================================================================

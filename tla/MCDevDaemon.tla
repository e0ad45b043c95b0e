--------------------------- MODULE MCDevDaemon ---------------------------
(* Two pages that send the requests with an effect. *)
EXTENDS DevDaemon, TLC

Symmetry == Permutations(Socks)
=============================================================================

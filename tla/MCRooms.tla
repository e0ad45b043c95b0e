------------------------------- MODULE MCRooms -------------------------------
(* Model checking rooms: the members are interchangeable, the owner is not. *)
EXTENDS Rooms, TLC

MemberSymmetry == Permutations(Daemon \ {Owner})
=============================================================================

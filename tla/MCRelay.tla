------------------------------- MODULE MCRelay -------------------------------
(* Model checking the relay: the devices are interchangeable. *)
EXTENDS Relay, TLC

DeviceSymmetry == Permutations(Device)
=============================================================================

------------------------------ MODULE MCDevices ------------------------------
(* An instance of Devices: one controller, two of its requests under way. *)
EXTENDS Devices, TLC

Symmetry == Permutations(Address) \cup Permutations(Call)
=============================================================================

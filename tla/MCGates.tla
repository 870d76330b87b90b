------------------------------- MODULE MCGates -------------------------------
(* An instance of Gates: two vehicles and a late answer beside the awaited
   ones. *)
EXTENDS Gates, TLC

Symmetry == Permutations(Vehicle) \cup Permutations(Picture)
=============================================================================

---------------------------- MODULE MCPreBooking -----------------------------
(***************************************************************************)
(* Times around a full hour, so that windows overlap, contain each other   *)
(* and meet at the hour where HH changes and MM falls.                     *)
(***************************************************************************)
EXTENDS PreBooking, TLC

AroundTen == {<<9, 58>>, <<10, 0>>, <<10, 1>>}

Symmetry == Permutations(User) \cup Permutations(Slot) \cup Permutations(Request)
==============================================================================

---------------------------- MODULE MCParkingLot -----------------------------
(***************************************************************************)
(* Small instances of ParkingLot: two slots, so that the lot fills and a   *)
(* freed slot is reused; users, vehicles and session ids are symmetric.    *)
(***************************************************************************)
EXTENDS ParkingLot, TLC

Symmetry == Permutations(User) \cup Permutations(Vehicle) \cup Permutations(SessionId)
==============================================================================

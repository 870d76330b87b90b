--------------------------- MODULE MCParkingServer ---------------------------
(***************************************************************************)
(* Small instances of ParkingServer, one or two workers, requests that     *)
(* overlap in every way their statements allow.                            *)
(***************************************************************************)
EXTENDS ParkingServer, TLC

Symmetry == Permutations(User) \cup Permutations(Vehicle) \cup Permutations(SessionId)
            \cup Permutations(Request) \cup Permutations(Worker)

OnlyTriggers == {}
GatesAndLegacy == {"legacy"}
==============================================================================

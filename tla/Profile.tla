------------------------------- MODULE Profile -------------------------------
(***************************************************************************)
(* The vehicles of the page "Profile" (pages/Profile.jsx).  The list is    *)
(* loaded when the page is opened; later it is edited in place from the    *)
(* answers: an added vehicle is appended, a removed one filtered out.  It  *)
(* is not loaded again, so what another tab or device of the user does to  *)
(* the vehicles does not reach it.  The sessions list is loaded the same   *)
(* way and never edited; saveProfile is in WebAuth, because it changes who *)
(* the app believes is signed in.                                          *)
(*                                                                         *)
(* Row ids are SQLite's: a new row gets one more than the greatest id of   *)
(* the table, so the id of a vehicle deleted from the end is given again.  *)
(***************************************************************************)
EXTENDS Client, Sequences

CONSTANTS
    Plate, TakenPlate,   \* plates; those another user has registered
    VehicleId            \* bound: the row ids there may be

ASSUME ProfileAssumption == TakenPlate \subseteq Plate /\ VehicleId \subseteq Nat

VARIABLES
    garage,          \* the server's vehicle rows of this user
    vehicles,        \* the rows the page holds
    addingVehicle,
    early,           \* history: the load failed, or an edit was clicked before its answer
    inDoubt,         \* history: an edit was given up, so that its outcome is unknown
    blurred          \* history: ids of rows changed elsewhere since the list was read,
                     \* and ids given again while a deletion of theirs was under way

profileVars == <<garage, vehicles, addingVehicle, early, inDoubt, blurred>>
profileView == <<vehicles, addingVehicle, early, inDoubt>>

Vehicle == [id : Nat, plate : Plate]
Rows(s) == {s[i] : i \in DOMAIN s}

\* filter: kept[n] is what is left of the first n rows.
Without(s, id) ==
    LET kept[n \in 0 .. Len(s)] ==
          IF n = 0 THEN <<>>
          ELSE IF s[n].id = id THEN kept[n - 1] ELSE Append(kept[n - 1], s[n])
    IN  kept[Len(s)]

\* No id but those of `but` is listed twice.
DistinctIds(s, but) ==
    \A i, j \in DOMAIN s : s[i].id = s[j].id => i = j \/ s[i].id \in but

InFlight(op) == \E c \in Call : wire[c].op = op

\* Above all the ids of the table, the rows of other users among them.
NewIds == {n \in VehicleId : \A v \in Rows(garage) : v.id < n}

ProfileInit ==
    /\ \/ garage = <<>>
       \/ \E n \in VehicleId, p \in Plate \ TakenPlate : garage = <<[id |-> n, plate |-> p]>>
    /\ vehicles = <<>>
    /\ addingVehicle = FALSE
    /\ early = FALSE
    /\ inDoubt = FALSE
    /\ blurred = {}

ProfileScreen == IF vehicles = <<>> THEN "No vehicles registered yet" ELSE "rows"

\* Add is disabled while an add is under way; a row's bin never is.
AddOffered == ~addingVehicle
RemoveOffered == IF ProfileScreen = "rows" THEN {v.id : v \in Rows(vehicles)} ELSE {}

OpenProfile ==
    /\ ~mounted /\ mounted' = TRUE
    /\ Spend
    /\ Send("vehicles", None)
    /\ inDoubt' = (InFlight("addVehicle") \/ InFlight("deleteVehicle"))
    /\ UNCHANGED <<garage, blurred, vehicles, addingVehicle, early>>

\* The fields start again from their first values when it is next opened.
LeaveProfile ==
    /\ Unmount
    /\ vehicles' = <<>>
    /\ addingVehicle' = FALSE
    /\ early' = FALSE
    /\ UNCHANGED <<garage, blurred, inDoubt>>

\* getVehicles().then: there is no catch, a failed load leaves the list empty.
VehiclesLoaded(c) ==
    /\ \/ Answered(c, "vehicles") /\ Take(c) /\ vehicles' = wire[c].answer /\ UNCHANGED early
       \/ Rejected(c, "vehicles") /\ early' = TRUE /\ UNCHANGED vehicles
    /\ UNCHANGED <<moves, mounted, garage, blurred, addingVehicle, inDoubt>>

handleAddVehicle(p) ==
    /\ mounted
    /\ AddOffered
    /\ Spend
    /\ Send("addVehicle", p)
    /\ addingVehicle' = TRUE
    /\ early' = (early \/ Awaits("vehicles"))
    /\ UNCHANGED <<mounted, garage, blurred, vehicles, inDoubt>>

VehicleAdded(c) ==
    /\ Answered(c, "addVehicle")
    /\ Take(c)
    /\ vehicles' = Append(vehicles, wire[c].answer)
    /\ addingVehicle' = FALSE
    /\ UNCHANGED <<moves, mounted, garage, blurred, early, inDoubt>>

AddFailed(c) ==
    /\ Rejected(c, "addVehicle")
    /\ addingVehicle' = FALSE
    /\ inDoubt' = (inDoubt \/ wire[c].state # "refused")
    /\ UNCHANGED <<moves, mounted, garage, blurred, vehicles, early>>

handleDeleteVehicle(id) ==
    /\ mounted
    /\ id \in RemoveOffered
    /\ Spend
    /\ Send("deleteVehicle", id)
    /\ early' = (early \/ Awaits("vehicles"))
    /\ UNCHANGED <<mounted, garage, blurred, vehicles, addingVehicle, inDoubt>>

\* Mutant of VehicleRemoved: leaves the row.
MutantVehicleRemoved(c) ==
    /\ Answered(c, "deleteVehicle")
    /\ Take(c)
    /\ UNCHANGED <<moves, mounted, profileVars>>

VehicleRemoved(c) ==
    /\ Answered(c, "deleteVehicle")
    /\ Take(c)
    /\ vehicles' = Without(vehicles, wire[c].arg)
    /\ UNCHANGED <<moves, mounted, garage, blurred, addingVehicle, early, inDoubt>>

RemoveFailed(c) ==
    /\ Rejected(c, "deleteVehicle")
    /\ inDoubt' = (inDoubt \/ wire[c].state # "refused")
    /\ UNCHANGED <<moves, mounted, garage, blurred, vehicles, addingVehicle, early>>

Free(p) == p \notin TakenPlate /\ \A v \in Rows(garage) : v.plate # p
DeletionUnderWay(id) == \E c \in Call : wire[c].op = "deleteVehicle" /\ wire[c].arg = id

\* GET, POST and DELETE /auth/vehicles.
ServeVehicles(c) ==
    /\ Sent(c, "vehicles")
    /\ Reply(c, "answered", garage)
    /\ blurred' = {}
    /\ UNCHANGED <<moves, mounted, garage, profileView>>

ServeAdd(c) ==
    /\ Sent(c, "addVehicle")
    /\ \/ /\ ~Free(wire[c].arg)
          /\ Reply(c, "refused", None)
          /\ UNCHANGED <<garage, blurred>>
       \/ \E n \in NewIds :
             LET row == [id |-> n, plate |-> wire[c].arg]
             IN  /\ Free(wire[c].arg)
                 /\ garage' = Append(garage, row)
                 /\ Reply(c, "answered", row)
                 /\ blurred' = IF DeletionUnderWay(n) THEN blurred \cup {n} ELSE blurred
    /\ UNCHANGED <<moves, mounted, profileView>>

ServeDelete(c) ==
    /\ Sent(c, "deleteVehicle")
    /\ LET id == wire[c].arg
       IN  IF \E v \in Rows(garage) : v.id = id
           THEN garage' = Without(garage, id) /\ Reply(c, "answered", None)
           ELSE Reply(c, "refused", None) /\ UNCHANGED garage
    /\ UNCHANGED <<moves, mounted, blurred, profileView>>

\* POST and DELETE /auth/vehicles from another tab or device of the user.
GarageChangesElsewhere ==
    /\ Spend
    /\ \/ \E n \in NewIds, p \in Plate :
             /\ Free(p)
             /\ garage' = Append(garage, [id |-> n, plate |-> p])
             /\ blurred' = blurred \cup {n}
       \/ \E v \in Rows(garage) :
             /\ garage' = Without(garage, v.id)
             /\ blurred' = blurred \cup {v.id}
    /\ UNCHANGED <<wire, mounted, profileView>>

ProfileAnswer(c) == \/ VehiclesLoaded(c) \/ VehicleAdded(c) \/ AddFailed(c)
                    \/ VehicleRemoved(c) \/ RemoveFailed(c)
ProfileServe(c) == ServeVehicles(c) \/ ServeAdd(c) \/ ServeDelete(c)

ProfileNext ==
    \/ OpenProfile
    \/ LeaveProfile
    \/ GarageChangesElsewhere
    \/ \E p \in Plate : handleAddVehicle(p)
    \/ \E id \in RemoveOffered : handleDeleteVehicle(id)
    \/ \E c \in Call : ProfileAnswer(c) \/ ProfileServe(c)

ProfileTypeOK ==
    /\ garage \in Seq(Vehicle)
    /\ vehicles \in Seq(Vehicle)
    /\ {addingVehicle, early, inDoubt} \subseteq BOOLEAN
    /\ blurred \subseteq Nat

Sure(s) == {v \in Rows(s) : v.id \notin blurred}

(***************************************************************************)
(* What the user added and removed on the page is on it: when no answer is *)
(* outstanding, the page lists the vehicles registered, each once.         *)
(* Nothing is said of vehicles                                             *)
(*  - added or removed in another tab or on another device since the list  *)
(*    was read, for it is never read again;                                *)
(*  - whose id was given again before the deletion of the vehicle that had *)
(*    it was answered: the answers change rows by their id alone;          *)
(* and nothing of the list when its load failed (it stays empty), when an  *)
(* edit was clicked before the list was there, and when an edit was given  *)
(* up, so that its outcome is unknown.                                     *)
(***************************************************************************)
VehiclesShownAreHeld ==
    mounted /\ Quiet /\ ~early /\ ~inDoubt
        => Sure(vehicles) = Sure(garage) /\ DistinctIds(vehicles, blurred)
=============================================================================

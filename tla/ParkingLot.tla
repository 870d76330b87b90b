----------------------------- MODULE ParkingLot ------------------------------
(***************************************************************************)
(* What the backend promises about parking: for every request that writes  *)
(* the tables ONE atomic action, the effect of its handler run alone.      *)
(* ParkingServer takes the same handlers apart into their SQL statements.  *)
(***************************************************************************)
EXTENDS ParkingTables

vars == tables
TypeOK == TablesTypeOK
Init == TablesInit

-----------------------------------------------------------------------------
(* Gate requests.  Their timestamp t is taken when the image arrives, before
   the OCR, so it may be any time up to now when the rows are read. *)

(* _handle_entry and entry_event, refused with a row; a vehicle that already
   has an active session is refused without one. *)
DenyEntry(v) ==
    /\ \/ ~Registered(v) /\ Insert(DeniedRow(NULL, v))
       \/ /\ Registered(v)
          /\ ActiveSessions(v) = {}
          /\ AvailableSlots = {}
          /\ Insert(DeniedRow(v, v))
    /\ UNCHANGED <<now, slotStatus, owner, money>>

(* _handle_entry, entry_event: open_session *)
AllowEntry(v, p, t) ==
    /\ Registered(v)
    /\ ActiveSessions(v) = {}
    /\ FirstAvailable(p)
    /\ slotStatus' = [slotStatus EXCEPT ![p] = "occupied"]
    /\ Insert(ActiveRow(v, p, t))
    /\ UNCHANGED <<now, owner, money>>

(* _handle_exit and exit_event, refused with a row *)
DenyExit(v) ==
    /\ \/ ~Registered(v) /\ Insert(DeniedRow(NULL, v))
       \/ Registered(v) /\ ActiveSessions(v) = {} /\ Insert(DeniedRow(v, v))
    /\ UNCHANGED <<now, slotStatus, owner, money>>

(* exit_event, the wallet too low: logged here, not by _handle_exit *)
DenyUnpaidExit(v, t) ==
    /\ "legacy" \in Endpoints
    /\ Registered(v)
    /\ \E s \in ActiveSessions(v) : ~CanPay(balance[owner[v]], Fee(sessions[s].entry, t))
    /\ Insert(DeniedRow(v, v))
    /\ UNCHANGED <<now, slotStatus, owner, money>>

(* entry_event and exit_event, the OCR failed: logged here, not by /trigger *)
DenyUnreadable ==
    /\ "legacy" \in Endpoints
    /\ Insert(DeniedRow(NULL, NULL))
    /\ UNCHANGED <<now, slotStatus, owner, money>>

(* _handle_exit and exit_event: close_session *)
AllowExit(v, s, t) ==
    LET fee == Fee(sessions[s].entry, t)
        u == owner[v]
    IN  /\ Registered(v)
        /\ s \in ActiveSessions(v)
        /\ CanPay(balance[u], fee)
        /\ balance' = [balance EXCEPT ![u] = @ - fee]
        /\ sessions' = [sessions EXCEPT ![s] = Completed(@, fee)]
        /\ slotStatus' = Freed(sessions[s].slot)
        /\ charged' = [charged EXCEPT ![u] = @ + fee]
        /\ debitRows' = [debitRows EXCEPT ![s] = @ + 1]
        /\ UNCHANGED <<now, owner, credited>>

-----------------------------------------------------------------------------
(* Requests of the web clients *)

(* book_slot: the slot is taken and billed from now on, the car not yet there *)
BookSlot(u, v, p) ==
    /\ "book" \in Endpoints
    /\ slotStatus[p] = "available"
    /\ owner[v] = u
    /\ ActiveSessions(v) = {}
    /\ slotStatus' = [slotStatus EXCEPT ![p] = "reserved"]
    /\ Insert(ActiveRow(v, p, now))
    /\ UNCHANGED <<now, owner, money>>

(* add_funds and admin_credit_wallet: balance and CREDIT row together *)
AddFunds(u, amount) ==
    /\ "top_up" \in Endpoints
    /\ credited[u] + amount <= MaxCredit
    /\ balance' = [balance EXCEPT ![u] = @ + amount]
    /\ credited' = [credited EXCEPT ![u] = @ + amount]
    /\ UNCHANGED <<now, slotStatus, sessions, owner, charged, debitRows>>

(* force_close_session: closed at no cost, without a transaction *)
ForceClose(s) ==
    /\ "force_close" \in Endpoints
    /\ ForceClosable(s)
    /\ sessions' = [sessions EXCEPT ![s] = Completed(@, 0)]
    /\ slotStatus' = Freed(sessions[s].slot)
    /\ UNCHANGED <<now, owner, money>>

(* override_slot: any status on any slot, whoever is parked there *)
OverrideSlot(p, status) ==
    /\ p \in Overridable
    /\ slotStatus' = [slotStatus EXCEPT ![p] = status]
    /\ UNCHANGED <<now, sessions, owner, money>>

(* add_vehicle *)
AddVehicle(u, v) ==
    /\ "vehicles" \in Endpoints
    /\ ~Registered(v)
    /\ owner' = [owner EXCEPT ![v] = u]
    /\ UNCHANGED <<now, slotStatus, sessions, money>>

(* delete_vehicle: the sessions of the vehicle stay, their vehicle_id is NULL *)
DeleteVehicle(u, v) ==
    /\ "vehicles" \in Endpoints
    /\ owner[v] = u
    /\ owner' = [owner EXCEPT ![v] = NULL]
    /\ sessions' = [s \in SessionId |->
                      IF sessions[s].vehicle = v THEN [sessions[s] EXCEPT !.vehicle = NULL]
                      ELSE sessions[s]]
    /\ UNCHANGED <<now, slotStatus, money>>

Tick ==
    /\ now < MaxTick
    /\ now' = now + 1
    /\ UNCHANGED <<slotStatus, sessions, owner, money>>

-----------------------------------------------------------------------------
Gates ==
    \/ \E v \in Vehicle : DenyEntry(v) \/ DenyExit(v)
    \/ \E v \in Vehicle, p \in Slot, t \in 0..now : AllowEntry(v, p, t)
    \/ \E v \in Vehicle, t \in 0..now : DenyUnpaidExit(v, t)
    \/ \E v \in Vehicle, s \in SessionId, t \in 0..now : AllowExit(v, s, t)
    \/ DenyUnreadable

WebClients ==
    \/ \E u \in User, v \in Vehicle, p \in Slot : BookSlot(u, v, p)
    \/ \E u \in User, amount \in TopUp : AddFunds(u, amount)
    \/ \E s \in SessionId : ForceClose(s)
    \/ \E p \in Slot, status \in SlotStatus : OverrideSlot(p, status)
    \/ \E u \in User, v \in Vehicle : AddVehicle(u, v) \/ DeleteVehicle(u, v)

Next == Gates \/ WebClients \/ Tick

Spec == Init /\ [][Next]_vars
==============================================================================

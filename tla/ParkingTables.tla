---------------------------- MODULE ParkingTables ----------------------------
(***************************************************************************)
(* The database tables behind the parking lot, the queries that the        *)
(* handlers make of them, and what their rows must satisfy together.       *)
(* ParkingLot and ParkingServer are two specifications over these tables.  *)
(*                                                                         *)
(* parking_slots: slotStatus.  parking_sessions: sessions; a row that does *)
(* not exist yet has status "none"; rows are never deleted.  vehicles:     *)
(* owner, NULL for a plate that has no row.  wallet: balance.              *)
(* transactions: the total of a user's CREDIT rows (credited) and DEBIT    *)
(* rows (charged), and the DEBIT rows of each session (debitRows).  A      *)
(* vehicle stands for its plate, which is unique.                          *)
(***************************************************************************)
EXTENDS Billing

CONSTANTS
    User, Vehicle, SessionId,
    Slot,           \* positions in the order of the slot_number column
    NULL,
    Opening,        \* what wallets may hold at first, credited before
    TopUp,          \* amounts a user or an admin may add to a wallet
    Endpoints,      \* the requests that are made besides the /trigger of the gates
    Overridable,    \* the slots that admins override
    TickSeconds,    \* the clock's step
    MaxTick,        \* bound on the clock
    MaxCredit       \* bound on the CREDIT rows of a user

AllEndpoints == {"legacy", "book", "top_up", "force_close", "vehicles"}

ASSUME NullAssumption == NULL \notin User \cup Vehicle \cup Slot \cup Nat
ASSUME SlotAssumption == Slot \subseteq Nat /\ Overridable \subseteq Slot
ASSUME MoneyAssumption == Opening \subseteq Nat /\ TopUp \subseteq Nat \ {0} /\ MaxCredit \in Nat
ASSUME TimeAssumption == TickSeconds \in Nat \ {0} /\ MaxTick \in Nat
ASSUME EndpointAssumption == Endpoints \subseteq AllEndpoints

VARIABLES now, slotStatus, sessions, owner, balance, credited, charged, debitRows

money == <<balance, credited, charged, debitRows>>
tables == <<now, slotStatus, sessions, owner, money>>

SlotStatus == {"available", "occupied", "reserved", "maintenance"}
SessionStatus == {"active", "completed", "denied"}

SessionRow ==
    [status : SessionStatus \cup {"none"}, vehicle : Vehicle \cup {NULL},
     plate : Vehicle \cup {NULL}, slot : Slot \cup {NULL},
     entry : Nat \cup {NULL}, cost : Nat \cup {NULL}]

NoRow == [status |-> "none", vehicle |-> NULL, plate |-> NULL, slot |-> NULL,
          entry |-> NULL, cost |-> NULL]

(* Every row type has its columns; money is whole rupees. *)
TablesTypeOK ==
    /\ now \in Nat
    /\ slotStatus \in [Slot -> SlotStatus]
    /\ sessions \in [SessionId -> SessionRow]
    /\ owner \in [Vehicle -> User \cup {NULL}]
    /\ balance \in [User -> Int]
    /\ credited \in [User -> Nat]
    /\ charged \in [User -> Nat]
    /\ debitRows \in [SessionId -> Nat]

(* A seeded database: every slot free, some cars registered, wallets topped up
   by an Opening amount. *)
TablesInit ==
    /\ now = 0
    /\ slotStatus = [p \in Slot |-> "available"]
    /\ sessions = [s \in SessionId |-> NoRow]
    /\ owner \in [Vehicle -> User \cup {NULL}]
    /\ credited \in [User -> Opening]
    /\ balance = credited
    /\ charged = [u \in User |-> 0]
    /\ debitRows = [s \in SessionId |-> 0]

-----------------------------------------------------------------------------
(* Queries and row values.  A definition named Mutant... is never used by the
   specification: it is the bug a property is there to catch. *)

Registered(v) == owner[v] # NULL

MutantParkedSessions(v) ==
    {s \in SessionId : /\ sessions[s].status = "active" /\ sessions[s].vehicle = v
                       /\ slotStatus[sessions[s].slot] = "occupied"}

(* get_active_session_for_vehicle *)
ActiveSessions(v) ==
    {s \in SessionId : sessions[s].status = "active" /\ sessions[s].vehicle = v}

AvailableSlots == {p \in Slot : slotStatus[p] = "available"}

(* find_available_slot: the first one in the order of slot_number *)
FirstAvailable(p) == p \in AvailableSlots /\ \A q \in AvailableSlots : p <= q

Fee(entry, exit) == ParkingCost(entry * TickSeconds, exit * TickSeconds)

MutantAlwaysPays(funds, fee) == TRUE

CanPay(funds, fee) == funds >= fee

ActiveRow(v, p, t) == [NoRow EXCEPT !.status = "active", !.vehicle = v, !.plate = v,
                                    !.slot = p, !.entry = t]

(* A denied row's times and image are not read by anything but the listings. *)
DeniedRow(v, plate) == [NoRow EXCEPT !.status = "denied", !.vehicle = v, !.plate = plate]

MutantReopened(row, fee) == [row EXCEPT !.cost = fee]
MutantReleased(row, fee) == [row EXCEPT !.status = "completed", !.cost = fee, !.slot = NULL]

Completed(row, fee) == [row EXCEPT !.status = "completed", !.cost = fee]

MutantKept(p) == slotStatus

Freed(p) == [slotStatus EXCEPT ![p] = "available"]

MutantAnyRow(s) == sessions[s].status # "none"

ForceClosable(s) == sessions[s].status = "active"

Insert(row) ==
    \E s \in SessionId : /\ sessions[s].status = "none"
                         /\ sessions' = [sessions EXCEPT ![s] = row]

-----------------------------------------------------------------------------
(* What a row carries once it is active or completed. *)
RowsFilled ==
    \A s \in SessionId :
        /\ sessions[s].status = "active" =>
              sessions[s].slot \in Slot /\ sessions[s].entry \in Nat
        /\ sessions[s].status = "completed" => sessions[s].cost \in Nat

TablesInv == TablesTypeOK /\ RowsFilled

(* The wallet is exactly what its transactions say, and never overdrawn:
   add_funds, admin_credit_wallet and close_session change both together. *)
LedgerBalanced ==
    \A u \in User : balance[u] = credited[u] - charged[u] /\ balance[u] >= 0

(* A vehicle row has at most one active session, whichever of the entry gate
   and book_slot opened it. *)
OneActivePerVehicle ==
    \A v \in Vehicle : \A s, t \in ActiveSessions(v) : s = t

(* Slots that no admin overrides agree with the sessions, whatever is done to
   the others: an active session holds a slot of its own that is shown taken,
   and no slot stays taken once its session has ended (open_session, book_slot,
   close_session, force_close_session). *)
Kept == Slot \ Overridable

ActiveSlotTaken ==
    \A s \in SessionId : sessions[s].status = "active" =>
        /\ sessions[s].slot \in Slot
        /\ sessions[s].slot \in Kept => slotStatus[sessions[s].slot] \in {"occupied", "reserved"}

NoSharedSlot ==
    \A s, t \in SessionId :
        /\ sessions[s].status = "active"
        /\ sessions[t].status = "active"
        /\ sessions[s].slot = sessions[t].slot
        /\ sessions[s].slot \in Kept
        => s = t

NoLeakedSlot ==
    \A p \in Kept : slotStatus[p] \in {"occupied", "reserved"} =>
        \E s \in SessionId : sessions[s].status = "active" /\ sessions[s].slot = p

SlotsMatchSessions == ActiveSlotTaken /\ NoSharedSlot /\ NoLeakedSlot

(* A session is charged exactly once if it left through the gate, and never
   if it was denied, is still open or was force-closed by an admin. *)
ChargedOnce ==
    \A s \in SessionId :
        debitRows[s] = IF sessions[s].status = "completed" /\ sessions[s].cost > 0
                       THEN 1 ELSE 0

(* A session that ended keeps its outcome: no later request reopens, rebills
   or reassigns it (vehicle_id alone may become NULL). *)
EndedIsFinal ==
    [][\A s \in SessionId : sessions[s].status \in {"completed", "denied"} =>
          /\ sessions'[s].status = sessions[s].status
          /\ sessions'[s].cost = sessions[s].cost
          /\ sessions'[s].slot = sessions[s].slot
          /\ sessions'[s].plate = sessions[s].plate]_tables
==============================================================================

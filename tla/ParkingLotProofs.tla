--------------------------- MODULE ParkingLotProofs --------------------------
(***************************************************************************)
(* The tariff, for every entry and exit time, and the invariants of the    *)
(* atomic parking lot, for any number of users, vehicles, slots and        *)
(* sessions.                                                               *)
(***************************************************************************)
EXTENDS ParkingLot, MCBilling, FiniteSetTheorems, TLAPS

(* An hour is started by the stay that goes past the end of the one before:
   the rounding up of math.ceil, with both of its boundaries. *)
LEMMA StartedHoursBounds ==
    ASSUME NEW d \in Int
    PROVE  /\ StartedHours(d) \in Int
           /\ (StartedHours(d) - 1) * 3600 < d
           /\ d <= StartedHours(d) * 3600
BY DEF StartedHours, SecondsPerHour

(* calculate_parking_cost never asks for less than the first hour, whatever
   the order of the two timestamps. *)
THEOREM FirstHourCharged ==
    ASSUME NEW a \in Int, NEW b \in Int
    PROVE  ParkingCost(a, b) \in Nat /\ ParkingCost(a, b) >= FIRST_HOUR_RATE
<1>1. StartedHours(b - a) \in Int
    BY StartedHoursBounds
<1>2. QED
    BY <1>1 DEF ParkingCost, AtLeastOne, FIRST_HOUR_RATE, ADDITIONAL_HOUR_RATE

(* The tariff the README states, for stays of any length: a stay of more than
   n hours and at most n + 1 costs the first hour and n additional ones. *)
THEOREM TariffExact ==
    ASSUME NEW a \in Int, NEW b \in Int, NEW n \in Nat,
           n * SecondsPerHour < b - a, b - a <= (n + 1) * SecondsPerHour
    PROVE  ParkingCost(a, b) = FIRST_HOUR_RATE + n * ADDITIONAL_HOUR_RATE
<1> DEFINE h == StartedHours(b - a)
<1>1. h \in Int /\ (h - 1) * 3600 < b - a /\ b - a <= h * 3600
    BY StartedHoursBounds
<1>2. h = n + 1
    BY <1>1 DEF SecondsPerHour
<1>3. AtLeastOne(h) = n + 1
    BY <1>2 DEF AtLeastOne
<1>4. QED
    BY <1>3 DEF ParkingCost

(* Leaving later never costs less, and leaving up to an hour later costs at
   most one additional hour more. *)
THEOREM LeavingLater ==
    ASSUME NEW a \in Int, NEW b \in Int, NEW c \in Int, b <= c
    PROVE  /\ ParkingCost(a, b) <= ParkingCost(a, c)
           /\ c - b <= SecondsPerHour =>
                ParkingCost(a, c) <= ParkingCost(a, b) + ADDITIONAL_HOUR_RATE
<1> DEFINE h == StartedHours(b - a)
           k == StartedHours(c - a)
<1>1. h \in Int /\ (h - 1) * 3600 < b - a /\ b - a <= h * 3600
    BY StartedHoursBounds
<1>2. k \in Int /\ (k - 1) * 3600 < c - a /\ c - a <= k * 3600
    BY StartedHoursBounds
<1>3. h <= k /\ (c - b <= SecondsPerHour => k <= h + 1)
    BY <1>1, <1>2 DEF SecondsPerHour
<1> HIDE DEF h, k
<1>4. /\ AtLeastOne(h) \in Int /\ AtLeastOne(k) \in Int
      /\ AtLeastOne(h) <= AtLeastOne(k)
      /\ c - b <= SecondsPerHour => AtLeastOne(k) <= AtLeastOne(h) + 1
    BY <1>1, <1>2, <1>3 DEF AtLeastOne
<1>5. /\ ParkingCost(a, b) = 60 + (AtLeastOne(h) - 1) * 30
      /\ ParkingCost(a, c) = 60 + (AtLeastOne(k) - 1) * 30
    BY DEF ParkingCost, h, k, FIRST_HOUR_RATE, ADDITIONAL_HOUR_RATE
<1>6. QED
    BY <1>4, <1>5 DEF ADDITIONAL_HOUR_RATE, SecondsPerHour

(* The hours that a stay has begun, counted one by one, are the hours charged. *)
LEMMA HoursCounted ==
    ASSUME NEW stay \in Int, NEW latest \in Nat, stay <= latest
    PROVE  Cardinality({h \in 0 .. (latest \div SecondsPerHour) :
                           h = 0 \/ stay > h * SecondsPerHour})
           = AtLeastOne(StartedHours(stay))
<1> DEFINE n == AtLeastOne(StartedHours(stay))
           begun == {h \in 0 .. (latest \div SecondsPerHour) :
                        h = 0 \/ stay > h * SecondsPerHour}
<1>0. /\ StartedHours(stay) \in Int
      /\ (StartedHours(stay) - 1) * 3600 < stay /\ stay <= StartedHours(stay) * 3600
    BY StartedHoursBounds
<1>1. /\ n \in Nat /\ n >= 1
      /\ \A h \in Nat : h <= n - 1 <=> (h = 0 \/ stay > h * 3600)
    BY <1>0 DEF AtLeastOne
<1>2. \A h \in Nat : h * 3600 <= latest <=> h \in 0 .. (latest \div SecondsPerHour)
    BY DEF SecondsPerHour
<1> HIDE DEF n
<1>3. begun = 0 .. (n - 1)
    BY <1>1, <1>2 DEF SecondsPerHour
<1>4. Cardinality(0 .. (n - 1)) = n
    BY <1>1, FS_Interval
<1>5. QED
    BY <1>3, <1>4 DEF n

(* The fee is the tariff "60 for the first hour, 30 for each additional hour"
   counted hour by hour, for stays of every length that get longer by steps of
   any size. *)
THEOREM TariffCorrect == StaySpec => []MatchesTariff
<1> DEFINE Inv == exitTime \in Int /\ exitTime <= Latest
<1>1. StayInit => Inv
    BY StayAssumption DEF StayInit
<1>2. Inv /\ [StayLonger]_exitTime => Inv'
    BY StayAssumption DEF StayLonger
<1>3. Inv => MatchesTariff
  <2> SUFFICES ASSUME Inv PROVE MatchesTariff
    OBVIOUS
  <2> DEFINE hours == AtLeastOne(StartedHours(exitTime))
  <2>1. HoursBegun = hours
    BY HoursCounted, StayAssumption DEF HoursBegun
  <2>2. StayFee = FIRST_HOUR_RATE + (hours - 1) * ADDITIONAL_HOUR_RATE
    BY DEF StayFee, ParkingCost, EntryTime, StartedHours, SecondsPerHour
  <2>3. hours \in Int
    BY StartedHoursBounds DEF AtLeastOne
  <2> HIDE DEF hours
  <2>4. QED
    BY <2>1, <2>2, <2>3 DEF MatchesTariff, FIRST_HOUR_RATE, ADDITIONAL_HOUR_RATE
<1>4. QED
    BY <1>1, <1>2, <1>3, PTL DEF StaySpec

-----------------------------------------------------------------------------
(* A fee is a positive number of rupees. *)
LEMMA FeeType ==
    ASSUME NEW a \in Nat, NEW b \in Nat
    PROVE  Fee(a, b) \in Nat /\ Fee(a, b) > 0
<1>1. a * TickSeconds \in Int /\ b * TickSeconds \in Int
    BY TimeAssumption
<1>2. QED
    BY <1>1, FirstHourCharged DEF Fee, FIRST_HOUR_RATE

(* The rows that the handlers write. *)
LEMMA RowTypes ==
    ASSUME NEW v \in Vehicle \cup {NULL}, NEW q \in Vehicle \cup {NULL}
    PROVE  /\ DeniedRow(v, q) \in SessionRow
           /\ DeniedRow(v, q).status = "denied"
           /\ \A p \in Slot, t \in Nat :
                 /\ v \in Vehicle => ActiveRow(v, p, t) \in SessionRow
                 /\ ActiveRow(v, p, t).status = "active"
                 /\ ActiveRow(v, p, t).slot = p
                 /\ ActiveRow(v, p, t).entry = t
                 /\ ActiveRow(v, p, t).vehicle = v
BY DEF DeniedRow, ActiveRow, NoRow, SessionRow, SessionStatus

LEMMA CompletedRow ==
    ASSUME NEW row \in SessionRow, NEW fee \in Nat
    PROVE  /\ Completed(row, fee) \in SessionRow
           /\ Completed(row, fee).status = "completed"
           /\ Completed(row, fee).cost = fee
           /\ Completed(row, fee).slot = row.slot
           /\ Completed(row, fee).plate = row.plate
           /\ Completed(row, fee).vehicle = row.vehicle
           /\ Completed(row, fee).entry = row.entry
BY DEF Completed, SessionRow, SessionStatus

(* Inserting a row that is filled keeps the table well typed and filled. *)
LEMMA InsertType ==
    ASSUME TablesInv, NEW row \in SessionRow, Insert(row),
           row.status = "active" => row.slot \in Slot /\ row.entry \in Nat,
           row.status = "completed" => row.cost \in Nat
    PROVE  sessions' \in [SessionId -> SessionRow] /\ RowsFilled'
BY DEF TablesInv, TablesTypeOK, RowsFilled, Insert

(* What a closed row keeps, and that the others stay as they are. *)
LEMMA CloseKeeps ==
    ASSUME TablesInv, NEW s \in SessionId, NEW fee \in Nat,
           sessions' = [sessions EXCEPT ![s] = Completed(@, fee)]
    PROVE  /\ sessions'[s].status = "completed" /\ sessions'[s].cost = fee
           /\ sessions'[s].slot = sessions[s].slot
           /\ sessions'[s].plate = sessions[s].plate
           /\ \A z \in SessionId \ {s} : sessions'[z] = sessions[z]
BY CompletedRow DEF TablesInv, TablesTypeOK

-----------------------------------------------------------------------------
LEMMA TypeInit == Init => TablesInv
<1> SUFFICES ASSUME Init PROVE TablesInv
    OBVIOUS
<1>1. NoRow \in SessionRow /\ NoRow.status = "none"
    BY DEF NoRow, SessionRow, SessionStatus
<1>2. credited \in [User -> Nat] /\ balance \in [User -> Int]
  <2>1. credited \in [User -> Opening] /\ balance = credited
    BY DEF Init, TablesInit
  <2>2. \A u \in User : credited[u] \in Nat
    BY <2>1, MoneyAssumption
  <2>3. QED
    BY <2>1, <2>2
<1>3. QED
    BY <1>1, <1>2 DEF Init, TablesInit, TablesInv, TablesTypeOK, RowsFilled, SlotStatus

-----------------------------------------------------------------------------
(* Every step of the specification is of one of five kinds, told by what it
   does to the tables. *)

DenyStep ==
    /\ \E v, q \in Vehicle \cup {NULL} : Insert(DeniedRow(v, q))
    /\ UNCHANGED <<now, slotStatus, owner, money>>

OpenStep ==
    \E v \in Vehicle, p \in Slot, t \in Nat, status \in {"occupied", "reserved"} :
        /\ Registered(v)
        /\ ActiveSessions(v) = {}
        /\ slotStatus[p] = "available"
        /\ slotStatus' = [slotStatus EXCEPT ![p] = status]
        /\ Insert(ActiveRow(v, p, t))
        /\ UNCHANGED <<now, owner, money>>

CloseStep ==
    \E s \in SessionId, fee \in Nat :
        /\ sessions[s].status = "active"
        /\ sessions' = [sessions EXCEPT ![s] = Completed(@, fee)]
        /\ slotStatus' = Freed(sessions[s].slot)
        /\ UNCHANGED <<now, owner, credited>>
        /\ \/ fee = 0 /\ UNCHANGED money
           \/ /\ fee > 0
              /\ debitRows' = [debitRows EXCEPT ![s] = @ + 1]
              /\ \E u \in User :
                    /\ balance[u] >= fee
                    /\ balance' = [balance EXCEPT ![u] = @ - fee]
                    /\ charged' = [charged EXCEPT ![u] = @ + fee]

ForgetVehicleStep ==
    \E v \in Vehicle :
        /\ owner' = [owner EXCEPT ![v] = NULL]
        /\ sessions' = [s \in SessionId |->
                          IF sessions[s].vehicle = v THEN [sessions[s] EXCEPT !.vehicle = NULL]
                          ELSE sessions[s]]
        /\ UNCHANGED <<now, slotStatus, money>>

(* The steps that leave the sessions alone. *)
OtherStep ==
    /\ UNCHANGED <<sessions, charged, debitRows>>
    /\ now' \in Nat
    /\ owner' \in [Vehicle -> User \cup {NULL}]
    /\ slotStatus' \in [Slot -> SlotStatus]
    /\ \A p \in Kept : slotStatus'[p] = slotStatus[p]
    /\ \/ UNCHANGED <<balance, credited>>
       \/ \E u \in User, amount \in Nat :
            /\ balance' = [balance EXCEPT ![u] = @ + amount]
            /\ credited' = [credited EXCEPT ![u] = @ + amount]

StepKind == DenyStep \/ OpenStep \/ CloseStep \/ ForgetVehicleStep \/ OtherStep

LEMMA StepKinds ==
    ASSUME TablesInv, [Next]_vars
    PROVE  StepKind
<1> USE DEF TablesInv, TablesTypeOK
<1>1. ASSUME NEW v \in Vehicle, DenyEntry(v) \/ DenyExit(v)
      PROVE  DenyStep
    BY <1>1 DEF DenyEntry, DenyExit, DenyStep
<1>2. ASSUME NEW v \in Vehicle, NEW p \in Slot, NEW t \in 0..now, AllowEntry(v, p, t)
      PROVE  OpenStep
  <2>1. t \in Nat
    OBVIOUS
  <2>2. slotStatus[p] = "available"
    BY <1>2 DEF AllowEntry, FirstAvailable, AvailableSlots
  <2>3. QED
    BY <1>2, <2>1, <2>2 DEF AllowEntry, OpenStep
<1>3. ASSUME NEW v \in Vehicle, NEW t \in 0..now, DenyUnpaidExit(v, t)
      PROVE  DenyStep
    BY <1>3 DEF DenyUnpaidExit, DenyStep
<1>4. ASSUME DenyUnreadable PROVE DenyStep
    BY <1>4 DEF DenyUnreadable, DenyStep
<1>5. ASSUME NEW v \in Vehicle, NEW s \in SessionId, NEW t \in 0..now, AllowExit(v, s, t)
      PROVE  CloseStep
  <2> DEFINE fee == Fee(sessions[s].entry, t)
             u == owner[v]
  <2>1. sessions[s].status = "active" /\ u \in User
    BY <1>5 DEF AllowExit, ActiveSessions, Registered
  <2>2. sessions[s].entry \in Nat /\ t \in Nat
    BY <2>1 DEF RowsFilled
  <2>3. fee \in Nat /\ fee > 0
    BY <2>2, FeeType
  <2>4. /\ balance[u] >= fee
        /\ balance' = [balance EXCEPT ![u] = @ - fee]
        /\ charged' = [charged EXCEPT ![u] = @ + fee]
        /\ debitRows' = [debitRows EXCEPT ![s] = @ + 1]
        /\ sessions' = [sessions EXCEPT ![s] = Completed(@, fee)]
        /\ slotStatus' = Freed(sessions[s].slot)
        /\ UNCHANGED <<now, owner, credited>>
    BY <1>5 DEF AllowExit, CanPay
  <2> HIDE DEF fee, u
  <2>5. QED
    BY <2>1, <2>3, <2>4 DEF CloseStep
<1>6. ASSUME NEW u \in User, NEW v \in Vehicle, NEW p \in Slot, BookSlot(u, v, p)
      PROVE  OpenStep
  <2>1. Registered(v)
    BY <1>6, NullAssumption DEF BookSlot, Registered
  <2>2. QED
    BY <1>6, <2>1 DEF BookSlot, OpenStep
<1>7. ASSUME NEW u \in User, NEW amount \in TopUp, AddFunds(u, amount)
      PROVE  OtherStep
    BY <1>7, MoneyAssumption DEF AddFunds, OtherStep
<1>8. ASSUME NEW s \in SessionId, ForceClose(s)
      PROVE  CloseStep
    BY <1>8 DEF ForceClose, ForceClosable, CloseStep, money
<1>9. ASSUME NEW p \in Slot, NEW status \in SlotStatus, OverrideSlot(p, status)
      PROVE  OtherStep
    BY <1>9 DEF OverrideSlot, OtherStep, Kept, money
<1>10. ASSUME NEW u \in User, NEW v \in Vehicle, AddVehicle(u, v)
       PROVE  OtherStep
    BY <1>10 DEF AddVehicle, OtherStep, money
<1>11. ASSUME NEW u \in User, NEW v \in Vehicle, DeleteVehicle(u, v)
       PROVE  ForgetVehicleStep
    BY <1>11 DEF DeleteVehicle, ForgetVehicleStep
<1>12. ASSUME Tick \/ UNCHANGED vars PROVE OtherStep
    BY <1>12 DEF Tick, vars, tables, money, OtherStep
<1>13. QED
    BY <1>1, <1>2, <1>3, <1>4, <1>5, <1>6, <1>7, <1>8, <1>9, <1>10, <1>11, <1>12
       DEF Next, Gates, WebClients, StepKind

-----------------------------------------------------------------------------
LEMMA TypeStep ==
    ASSUME TablesInv, [Next]_vars
    PROVE  TablesInv'
<1> USE DEF TablesInv, TablesTypeOK
<1>1. CASE DenyStep
  <2>1. PICK v \in Vehicle \cup {NULL}, q \in Vehicle \cup {NULL} : Insert(DeniedRow(v, q))
    BY <1>1 DEF DenyStep
  <2>2. sessions' \in [SessionId -> SessionRow] /\ RowsFilled'
    BY <2>1, RowTypes, InsertType
  <2>3. QED
    BY <1>1, <2>2 DEF DenyStep, money
<1>2. CASE OpenStep
  <2>1. PICK v \in Vehicle, p \in Slot, t \in Nat, status \in {"occupied", "reserved"} :
            /\ slotStatus' = [slotStatus EXCEPT ![p] = status]
            /\ Insert(ActiveRow(v, p, t))
            /\ UNCHANGED <<now, owner, money>>
    BY <1>2 DEF OpenStep
  <2> DEFINE row == ActiveRow(v, p, t)
  <2>2. /\ row \in SessionRow
        /\ row.status = "active" /\ row.slot = p /\ row.entry = t
    BY RowTypes
  <2>3. Insert(row)
    BY <2>1
  <2> HIDE DEF row
  <2>4. sessions' \in [SessionId -> SessionRow] /\ RowsFilled'
    BY <2>2, <2>3, InsertType
  <2>5. QED
    BY <2>1, <2>4 DEF money, SlotStatus
<1>3. CASE CloseStep
  <2>1. PICK s \in SessionId, fee \in Nat :
            /\ sessions[s].status = "active"
            /\ sessions' = [sessions EXCEPT ![s] = Completed(@, fee)]
            /\ slotStatus' = Freed(sessions[s].slot)
            /\ UNCHANGED <<now, owner, credited>>
            /\ \/ fee = 0 /\ UNCHANGED money
               \/ /\ debitRows' = [debitRows EXCEPT ![s] = @ + 1]
                  /\ \E u \in User :
                        /\ balance' = [balance EXCEPT ![u] = @ - fee]
                        /\ charged' = [charged EXCEPT ![u] = @ + fee]
    BY <1>3 DEF CloseStep
  <2>2. sessions' \in [SessionId -> SessionRow] /\ RowsFilled'
    <3> DEFINE row == Completed(sessions[s], fee)
    <3>1. row \in SessionRow /\ row.status = "completed" /\ row.cost = fee
      BY CompletedRow
    <3>2. sessions' = [sessions EXCEPT ![s] = row]
      BY <2>1
    <3> HIDE DEF row
    <3>3. QED
      BY <3>1, <3>2 DEF RowsFilled
  <2>3. slotStatus' \in [Slot -> SlotStatus]
    BY <2>1 DEF Freed, SlotStatus
  <2>4. /\ balance' \in [User -> Int]
        /\ charged' \in [User -> Nat]
        /\ debitRows' \in [SessionId -> Nat]
    BY <2>1 DEF money
  <2>5. QED
    BY <2>1, <2>2, <2>3, <2>4
<1>4. CASE ForgetVehicleStep
  <2>1. PICK v \in Vehicle :
            /\ owner' = [owner EXCEPT ![v] = NULL]
            /\ sessions' = [s \in SessionId |->
                 IF sessions[s].vehicle = v THEN [sessions[s] EXCEPT !.vehicle = NULL]
                 ELSE sessions[s]]
            /\ UNCHANGED <<now, slotStatus, money>>
    BY <1>4 DEF ForgetVehicleStep
  <2>2. \A row \in SessionRow : [row EXCEPT !.vehicle = NULL] \in SessionRow
    BY DEF SessionRow
  <2>3. sessions' \in [SessionId -> SessionRow]
    BY <2>1, <2>2
  <2>4. \A s \in SessionId :
            /\ sessions'[s].status = sessions[s].status
            /\ sessions'[s].slot = sessions[s].slot
            /\ sessions'[s].entry = sessions[s].entry
            /\ sessions'[s].cost = sessions[s].cost
    BY <2>1 DEF SessionRow
  <2>5. RowsFilled'
    BY <2>4 DEF RowsFilled
  <2>6. QED
    BY <2>1, <2>3, <2>5 DEF money
<1>5. CASE OtherStep
    BY <1>5 DEF OtherStep, RowsFilled
<1>6. QED
    BY <1>1, <1>2, <1>3, <1>4, <1>5, StepKinds DEF StepKind

(* Every reachable state of the tables is well typed. *)
THEOREM TypeCorrect == Spec => []TypeOK
<1>1. TablesInv /\ [Next]_vars => TablesInv'
    BY TypeStep
<1>2. TablesInv => TypeOK
    BY DEF TablesInv, TypeOK
<1>3. QED
    BY TypeInit, <1>1, <1>2, PTL DEF Spec

LEMMA TablesInvCorrect == Spec => []TablesInv
<1>1. TablesInv /\ [Next]_vars => TablesInv'
    BY TypeStep
<1>2. QED
    BY TypeInit, <1>1, PTL DEF Spec

-----------------------------------------------------------------------------
(* The wallet of every user is what the user's transactions sum up to, and is
   never overdrawn, whatever requests are made in whatever order. *)
THEOREM LedgerCorrect == Spec => []LedgerBalanced
<1>1. Init => LedgerBalanced
  <2> SUFFICES ASSUME Init PROVE LedgerBalanced
      OBVIOUS
  <2>1. \A u \in User : credited[u] \in Nat /\ balance[u] = credited[u] /\ charged[u] = 0
    BY MoneyAssumption DEF Init, TablesInit
  <2>2. QED
    BY <2>1 DEF LedgerBalanced
<1>2. TablesInv /\ LedgerBalanced /\ [Next]_vars => LedgerBalanced'
  <2> SUFFICES ASSUME TablesInv, LedgerBalanced, [Next]_vars PROVE LedgerBalanced'
      OBVIOUS
  <2> USE DEF TablesInv, TablesTypeOK
  <2>1. CASE DenyStep \/ OpenStep \/ ForgetVehicleStep
      BY <2>1 DEF DenyStep, OpenStep, ForgetVehicleStep, money, LedgerBalanced
  <2>2. CASE CloseStep
      BY <2>2 DEF CloseStep, money, LedgerBalanced
  <2>3. CASE OtherStep
      BY <2>3 DEF OtherStep, LedgerBalanced
  <2>4. QED
      BY <2>1, <2>2, <2>3, StepKinds DEF StepKind
<1>3. QED
    BY <1>1, <1>2, TablesInvCorrect, PTL DEF Spec

(* At most one active session per vehicle, by the gate or by booking. *)
THEOREM OneActiveCorrect == Spec => []OneActivePerVehicle
<1> USE DEF ActiveSessions
<1>1. Init => OneActivePerVehicle
    BY DEF Init, TablesInit, NoRow, OneActivePerVehicle
<1>2. TablesInv /\ OneActivePerVehicle /\ [Next]_vars => OneActivePerVehicle'
  <2> SUFFICES ASSUME TablesInv, OneActivePerVehicle, [Next]_vars PROVE OneActivePerVehicle'
      OBVIOUS
  <2> USE DEF TablesInv, TablesTypeOK
  <2>1. CASE DenyStep
      BY <2>1, RowTypes DEF DenyStep, Insert, OneActivePerVehicle
  <2>2. CASE OpenStep
    <3>1. PICK v \in Vehicle, p \in Slot, t \in Nat :
              ActiveSessions(v) = {} /\ Insert(ActiveRow(v, p, t))
        BY <2>2 DEF OpenStep
    <3>2. ActiveRow(v, p, t).vehicle = v
        BY <3>1, RowTypes
    <3>3. QED
        BY <3>1, <3>2 DEF Insert, OneActivePerVehicle
  <2>3. CASE CloseStep
    <3>1. PICK s \in SessionId, fee \in Nat : sessions' = [sessions EXCEPT ![s] = Completed(@, fee)]
        BY <2>3 DEF CloseStep
    <3>2. \A z \in SessionId : sessions'[z].status = "active" => sessions'[z] = sessions[z]
        BY <3>1, CompletedRow
    <3>3. QED
        BY <3>2 DEF OneActivePerVehicle
  <2>4. CASE ForgetVehicleStep
    <3>1. \A z \in SessionId, v \in Vehicle :
              sessions'[z].vehicle = v => sessions'[z] = sessions[z]
        BY <2>4, NullAssumption DEF ForgetVehicleStep, SessionRow
    <3>2. QED
        BY <3>1 DEF OneActivePerVehicle
  <2>5. CASE OtherStep
      BY <2>5 DEF OtherStep, OneActivePerVehicle
  <2>6. QED
      BY <2>1, <2>2, <2>3, <2>4, <2>5, StepKinds DEF StepKind
<1>3. QED
    BY <1>1, <1>2, TablesInvCorrect, PTL DEF Spec

-----------------------------------------------------------------------------
(* What a forgotten vehicle leaves in the rows. *)
LEMMA ForgetKeeps ==
    ASSUME TablesInv, ForgetVehicleStep, NEW z \in SessionId
    PROVE  /\ sessions'[z].status = sessions[z].status
           /\ sessions'[z].slot = sessions[z].slot
           /\ sessions'[z].cost = sessions[z].cost
           /\ sessions'[z].plate = sessions[z].plate
BY DEF ForgetVehicleStep, TablesInv, TablesTypeOK, SessionRow

(* The grid of the slots that no admin overrides and the sessions agree in
   every state: no slot is shared, none is taken without a session, none with a
   session is shown free. *)
THEOREM SlotsCorrect == Spec => []SlotsMatchSessions
<1> USE DEF SlotsMatchSessions, ActiveSlotTaken, NoSharedSlot, NoLeakedSlot, Kept
<1>1. Init => SlotsMatchSessions
    BY DEF Init, TablesInit, NoRow
<1>2. TablesInv /\ SlotsMatchSessions /\ [Next]_vars => SlotsMatchSessions'
  <2> SUFFICES ASSUME TablesInv, SlotsMatchSessions, [Next]_vars
               PROVE  SlotsMatchSessions'
      OBVIOUS
  <2>0. slotStatus \in [Slot -> SlotStatus] /\ sessions \in [SessionId -> SessionRow]
      BY DEF TablesInv, TablesTypeOK
  <2>1. CASE DenyStep
    <3>1. PICK z \in SessionId :
              /\ sessions[z].status = "none" /\ sessions'[z].status = "denied"
              /\ \A y \in SessionId \ {z} : sessions'[y] = sessions[y]
      <4> HIDE DEF SlotsMatchSessions, ActiveSlotTaken, NoSharedSlot, NoLeakedSlot, Kept
      <4>1. PICK v \in Vehicle \cup {NULL}, q \in Vehicle \cup {NULL} : Insert(DeniedRow(v, q))
          BY <2>1 DEF DenyStep
      <4> DEFINE row == DeniedRow(v, q)
      <4>2. row.status = "denied" /\ Insert(row)
          BY <4>1, RowTypes
      <4> HIDE DEF row
      <4>3. QED
          BY <2>0, <4>2 DEF Insert
    <3>2. slotStatus' = slotStatus
        BY <2>1 DEF DenyStep
    <3>3. \A y \in SessionId : sessions'[y].status = "active" <=> sessions[y].status = "active"
        BY <3>1
    <3>4. \A y \in SessionId : sessions[y].status = "active" => sessions'[y] = sessions[y]
        BY <3>1
    <3> HIDE DEF SlotsMatchSessions, ActiveSlotTaken, NoSharedSlot, NoLeakedSlot, Kept
    <3>5. ActiveSlotTaken' /\ NoSharedSlot'
        BY <3>2, <3>3, <3>4 DEF SlotsMatchSessions, ActiveSlotTaken, NoSharedSlot
    <3>6. NoLeakedSlot'
        BY <3>2, <3>4 DEF SlotsMatchSessions, NoLeakedSlot
    <3>7. QED
        BY <3>5, <3>6 DEF SlotsMatchSessions
  <2>2. CASE OpenStep
    <3>1. PICK v \in Vehicle, p \in Slot, t \in Nat, status \in {"occupied", "reserved"} :
              /\ slotStatus[p] = "available"
              /\ slotStatus' = [slotStatus EXCEPT ![p] = status]
              /\ Insert(ActiveRow(v, p, t))
        BY <2>2 DEF OpenStep
    <3>2. ActiveRow(v, p, t).status = "active" /\ ActiveRow(v, p, t).slot = p
        BY RowTypes
    <3>3. PICK z \in SessionId :
              /\ sessions[z].status = "none"
              /\ sessions'[z].status = "active" /\ sessions'[z].slot = p
              /\ \A y \in SessionId \ {z} : sessions'[y] = sessions[y]
        BY <2>0, <3>1, <3>2 DEF Insert
    <3>4. \A y \in SessionId :
              sessions[y].status = "active" /\ p \in Kept => sessions[y].slot # p
        BY <3>1
    <3>5. slotStatus'[p] \in {"occupied", "reserved"}
        BY <2>0, <3>1
    <3>6. \A q \in Slot \ {p} : slotStatus'[q] = slotStatus[q]
        BY <2>0, <3>1
    <3>7. \A y \in SessionId : sessions[y].status = "active" => y # z
        BY <3>3
    <3>8. QED
        BY <3>3, <3>4, <3>5, <3>6, <3>7
  <2>3. CASE CloseStep
    <3>1. PICK s \in SessionId, fee \in Nat :
              /\ sessions[s].status = "active"
              /\ sessions' = [sessions EXCEPT ![s] = Completed(@, fee)]
              /\ slotStatus' = Freed(sessions[s].slot)
        BY <2>3 DEF CloseStep
    <3>2. /\ sessions'[s].status = "completed"
          /\ \A z \in SessionId \ {s} : sessions'[z] = sessions[z]
        BY <3>1, CloseKeeps
    <3>3. slotStatus'[sessions[s].slot] = "available"
        BY <2>0, <3>1 DEF Freed
    <3>4. \A q \in Slot : q # sessions[s].slot => slotStatus'[q] = slotStatus[q]
        BY <2>0, <3>1 DEF Freed
    <3>5. QED
        BY <3>1, <3>2, <3>3, <3>4
  <2>4. CASE ForgetVehicleStep
    <3>1. slotStatus' = slotStatus
        BY <2>4 DEF ForgetVehicleStep
    <3>2. QED
        BY <2>4, <3>1, ForgetKeeps
  <2>5. CASE OtherStep
    <3>1. sessions' = sessions /\ \A p \in Kept : slotStatus'[p] = slotStatus[p]
        BY <2>5 DEF OtherStep
    <3>2. QED
        BY <3>1
  <2>6. QED
      BY <2>1, <2>2, <2>3, <2>4, <2>5, StepKinds DEF StepKind
<1> HIDE DEF SlotsMatchSessions
<1>3. QED
    BY <1>1, <1>2, TablesInvCorrect, PTL DEF Spec

(* A session is charged once if it left through the gate and never otherwise. *)
THEOREM ChargedOnceCorrect == Spec => []ChargedOnce
<1>1. Init => ChargedOnce
    BY DEF Init, TablesInit, NoRow, ChargedOnce
<1>2. TablesInv /\ ChargedOnce /\ [Next]_vars => ChargedOnce'
  <2> SUFFICES ASSUME TablesInv, ChargedOnce, [Next]_vars PROVE ChargedOnce'
      OBVIOUS
  <2>0. /\ sessions \in [SessionId -> SessionRow] /\ debitRows \in [SessionId -> Nat]
        /\ \A z \in SessionId : sessions[z].status = "completed" => sessions[z].cost \in Nat
      BY DEF TablesInv, TablesTypeOK, RowsFilled
  <2>1. CASE DenyStep \/ OpenStep
    <3>1. PICK z \in SessionId :
              /\ sessions[z].status = "none"
              /\ sessions'[z].status \in {"active", "denied"}
              /\ \A y \in SessionId \ {z} : sessions'[y] = sessions[y]
      <4>1. CASE DenyStep
        <5>1. PICK v \in Vehicle \cup {NULL}, q \in Vehicle \cup {NULL} : Insert(DeniedRow(v, q))
            BY <4>1 DEF DenyStep
        <5>2. DeniedRow(v, q).status = "denied"
            BY RowTypes
        <5>3. QED
            BY <2>0, <5>1, <5>2 DEF Insert
      <4>2. CASE OpenStep
        <5>1. PICK v \in Vehicle, p \in Slot, t \in Nat : Insert(ActiveRow(v, p, t))
            BY <4>2 DEF OpenStep
        <5>2. ActiveRow(v, p, t).status = "active"
            BY RowTypes
        <5>3. QED
            BY <2>0, <5>1, <5>2 DEF Insert
      <4>3. QED
          BY <2>1, <4>1, <4>2
    <3>2. debitRows' = debitRows
        BY <2>1 DEF DenyStep, OpenStep, money
    <3>3. QED
        BY <3>1, <3>2 DEF ChargedOnce
  <2>2. CASE CloseStep
    <3>1. PICK s \in SessionId, fee \in Nat :
              /\ sessions[s].status = "active"
              /\ sessions' = [sessions EXCEPT ![s] = Completed(@, fee)]
              /\ \/ fee = 0 /\ debitRows' = debitRows
                 \/ fee > 0 /\ debitRows' = [debitRows EXCEPT ![s] = @ + 1]
        BY <2>2 DEF CloseStep, money
    <3>2. /\ sessions'[s].status = "completed" /\ sessions'[s].cost = fee
          /\ \A z \in SessionId \ {s} : sessions'[z] = sessions[z]
        BY <3>1, CloseKeeps
    <3>3. debitRows[s] = 0
        BY <3>1 DEF ChargedOnce
    <3>4. QED
        BY <2>0, <3>1, <3>2, <3>3 DEF ChargedOnce
  <2>3. CASE ForgetVehicleStep
    <3>1. debitRows' = debitRows
        BY <2>3 DEF ForgetVehicleStep, money
    <3>2. QED
        BY <2>3, <3>1, ForgetKeeps DEF ChargedOnce
  <2>4. CASE OtherStep
      BY <2>4 DEF OtherStep, ChargedOnce
  <2>5. QED
      BY <2>1, <2>2, <2>3, <2>4, StepKinds DEF StepKind
<1>3. QED
    BY <1>1, <1>2, TablesInvCorrect, PTL DEF Spec

(* No later request changes the outcome of a session that has ended. *)
THEOREM EndedStaysEnded == Spec => EndedIsFinal
<1> DEFINE Final == \A s \in SessionId : sessions[s].status \in {"completed", "denied"} =>
                       /\ sessions'[s].status = sessions[s].status
                       /\ sessions'[s].cost = sessions[s].cost
                       /\ sessions'[s].slot = sessions[s].slot
                       /\ sessions'[s].plate = sessions[s].plate
<1>1. TablesInv /\ [Next]_vars => Final
  <2> SUFFICES ASSUME TablesInv, [Next]_vars PROVE Final
      OBVIOUS
  <2>0. sessions \in [SessionId -> SessionRow]
      BY DEF TablesInv, TablesTypeOK
  <2>1. CASE DenyStep \/ OpenStep
      BY <2>0, <2>1 DEF DenyStep, OpenStep, Insert
  <2>2. CASE CloseStep
      BY <2>2, CloseKeeps DEF CloseStep
  <2>3. CASE ForgetVehicleStep
      BY <2>3, ForgetKeeps
  <2>4. CASE OtherStep
      BY <2>4 DEF OtherStep
  <2>5. QED
      BY <2>1, <2>2, <2>3, <2>4, StepKinds DEF StepKind
<1>2. TablesInv /\ [Next]_vars => [Final]_tables
    BY <1>1
<1>3. QED
    BY <1>2, TablesInvCorrect, PTL DEF Spec, EndedIsFinal
==============================================================================

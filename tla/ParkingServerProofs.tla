-------------------------- MODULE ParkingServerProofs ------------------------
(***************************************************************************)
(* What the interleaved handlers keep true whatever overlaps, for any      *)
(* number of requests, users, vehicles, slots and sessions.                *)
(***************************************************************************)
EXTENDS ParkingServer, TLAPS

(* What ParkingLotProofs proves of the same tables. Its theorem about a growing
   stay is not used here: any values do for the names of that one. *)
Proved ==
    INSTANCE ParkingLotProofs
        WITH exitTime <- now, Lead <- 0, Latest <- MaxTick, Step <- TickSeconds

LEMMA ProvedAssumptions ==
    /\ Proved!NullAssumption /\ Proved!SlotAssumption /\ Proved!MoneyAssumption
    /\ Proved!TimeAssumption /\ Proved!EndpointAssumption /\ Proved!StayAssumption
BY NullAssumption, SlotAssumption, MoneyAssumption, TimeAssumption, EndpointAssumption
   DEF Proved!NullAssumption, Proved!SlotAssumption, Proved!MoneyAssumption,
       Proved!TimeAssumption, Proved!EndpointAssumption, Proved!StayAssumption,
       Proved!AllEndpoints, AllEndpoints

(* A fee is a positive number of rupees. *)
LEMMA FeeType ==
    ASSUME NEW a \in Nat, NEW b \in Nat
    PROVE  Fee(a, b) \in Nat /\ Fee(a, b) > 0
BY ProvedAssumptions, Proved!FeeType
   DEF Fee, ParkingCost, StartedHours, AtLeastOne, SecondsPerHour, FIRST_HOUR_RATE,
       ADDITIONAL_HOUR_RATE, Proved!Fee, Proved!ParkingCost, Proved!StartedHours,
       Proved!AtLeastOne, Proved!SecondsPerHour, Proved!FIRST_HOUR_RATE,
       Proved!ADDITIONAL_HOUR_RATE

(* The rows that the handlers write. *)
LEMMA RowTypes ==
    ASSUME NEW v \in Vehicle \cup {NULL}, NEW q \in Vehicle \cup {NULL}
    PROVE  /\ DeniedRow(v, q) \in SessionRow
           /\ DeniedRow(v, q).status = "denied"
           /\ \A p \in Slot, t \in Nat :
                 /\ v \in Vehicle => ActiveRow(v, p, t) \in SessionRow
                 /\ ActiveRow(v, p, t).status = "active"
                 /\ ActiveRow(v, p, t).slot = p
                 /\ ActiveRow(v, p, t).entry = t
                 /\ ActiveRow(v, p, t).vehicle = v
BY DEF DeniedRow, ActiveRow, NoRow, SessionRow, SessionStatus

LEMMA CompletedRow ==
    ASSUME NEW row \in SessionRow, NEW fee \in Nat
    PROVE  /\ Completed(row, fee) \in SessionRow
           /\ Completed(row, fee).status = "completed"
           /\ Completed(row, fee).cost = fee
           /\ Completed(row, fee).slot = row.slot
           /\ Completed(row, fee).plate = row.plate
           /\ Completed(row, fee).vehicle = row.vehicle
           /\ Completed(row, fee).entry = row.entry
BY DEF Completed, SessionRow, SessionStatus

(* Inserting a row that is filled keeps the table well typed and filled. *)
LEMMA InsertType ==
    ASSUME TablesInv, NEW row \in SessionRow, Insert(row),
           row.status = "active" => row.slot \in Slot /\ row.entry \in Nat,
           row.status = "completed" => row.cost \in Nat
    PROVE  sessions' \in [SessionId -> SessionRow] /\ RowsFilled'
BY DEF TablesInv, TablesTypeOK, RowsFilled, Insert

-----------------------------------------------------------------------------
(* A handler that will end a session knows a row that was active when it was
   read, and the slot of that row. *)
HasSession(r) ==
    /\ req[r].session \in SessionId
    /\ sessions[req[r].session].status \in {"active", "completed"}
    /\ req[r].slot \in Slot

(* The labels of a coroutine that knows the plate. *)
PlateLabels == LoopLabels \ {"ocr"}

(* The local variables a handler has filled when it stands at a label. *)
LocalsFilled(r) ==
    /\ pc[r] \in {"ocr", "sleep"} =>
          /\ req[r].time \in Nat
          /\ req[r].worker \in Worker
          /\ req[r].attempt \in Nat
    /\ pc[r] \in PlateLabels =>
          /\ req[r].time \in Nat
          /\ req[r].vehicle \in Vehicle
          /\ owner[req[r].vehicle] \in User
    /\ pc[r] = "open_session" => req[r].slot \in Slot
    /\ pc[r] \in {"read_wallet", "read_exit_slot", "close_session"} =>
          HasSession(r) /\ req[r].amount \in Nat
    /\ pc[r] \in {"read_exit_slot", "close_session"} =>
          req[r].user \in User /\ req[r].funds \in Int /\ req[r].funds >= req[r].amount
    /\ pc[r] \in {"read_close_slot", "force_close"} => HasSession(r)
    /\ pc[r] \in {"check_vehicle", "book_slot"} =>
          req[r].vehicle \in Vehicle /\ req[r].slot \in Slot
    /\ pc[r] = "add_funds" =>
          req[r].user \in User /\ req[r].funds \in Nat /\ req[r].amount \in Nat
    /\ pc[r] = "override" => req[r].slot \in Overridable /\ req[r].status \in SlotStatus

(* A coroutine that does not sleep holds the event loop of its worker. *)
HoldsLoop(r) ==
    pc[r] \in LoopLabels => req[r].worker \in Worker /\ loop[req[r].worker] = r

BaseInv ==
    /\ TypeOK
    /\ RowsFilled
    /\ WalletNonNegative
    /\ \A r \in Request : LocalsFilled(r) /\ HoldsLoop(r)

-----------------------------------------------------------------------------
(* What a step of request r keeps of the rows and of the other requests. *)
OthersKeep(r) ==
    /\ \A q \in Request \ {r} : pc'[q] = pc[q] /\ req'[q] = req[q]
    /\ \A w \in Worker : loop[w] # NULL /\ loop[w] # r => loop'[w] = loop[w]

StepOK(r) ==
    /\ TypeOK'
    /\ RowsFilled'
    /\ WalletNonNegative'
    /\ OnlyEnds
    /\ owner' = owner
    /\ OthersKeep(r)
    /\ LocalsFilled(r)' /\ HoldsLoop(r)'

LEMMA InsertEffect ==
    ASSUME TablesInv, NEW row \in SessionRow, Insert(row),
           row.status \in {"active", "denied"},
           row.status = "active" => row.slot \in Slot /\ row.entry \in Nat
    PROVE  sessions' \in [SessionId -> SessionRow] /\ RowsFilled' /\ OnlyEnds
<1>1. sessions' \in [SessionId -> SessionRow] /\ RowsFilled'
    BY InsertType
<1>2. OnlyEnds
    BY DEF Insert, OnlyEnds, TablesInv, TablesTypeOK
<1>3. QED
    BY <1>1, <1>2

LEMMA DenyEffect ==
    ASSUME TablesInv, NEW v \in Vehicle \cup {NULL}, NEW q \in Vehicle \cup {NULL},
           Insert(DeniedRow(v, q))
    PROVE  sessions' \in [SessionId -> SessionRow] /\ RowsFilled' /\ OnlyEnds
<1> DEFINE row == DeniedRow(v, q)
<1>1. row \in SessionRow /\ row.status = "denied" /\ Insert(row)
    BY RowTypes
<1> HIDE DEF row
<1>2. QED
    BY <1>1, InsertEffect

LEMMA OpenEffect ==
    ASSUME TablesInv, NEW v \in Vehicle, NEW p \in Slot, NEW t \in Nat, 
           Insert(ActiveRow(v, p, t))
    PROVE  sessions' \in [SessionId -> SessionRow] /\ RowsFilled' /\ OnlyEnds
<1> DEFINE row == ActiveRow(v, p, t)
<1>1. row \in SessionRow /\ row.status = "active" /\ row.slot = p /\ row.entry = t /\ Insert(row)
    BY RowTypes
<1> HIDE DEF row
<1>2. QED
    BY <1>1, InsertEffect

LEMMA CloseEffect ==
    ASSUME TablesInv, NEW s \in SessionId, NEW fee \in Nat,
           sessions[s].status \in {"active", "completed"},
           sessions' = [sessions EXCEPT ![s] = Completed(@, fee)]
    PROVE  sessions' \in [SessionId -> SessionRow] /\ RowsFilled' /\ OnlyEnds
<1> DEFINE row == Completed(sessions[s], fee)
<1>0. sessions \in [SessionId -> SessionRow]
    BY DEF TablesInv, TablesTypeOK
<1>1. /\ row \in SessionRow /\ row.status = "completed" /\ row.cost = fee
      /\ row.slot = sessions[s].slot /\ row.plate = sessions[s].plate
      /\ row.entry = sessions[s].entry
    BY <1>0, CompletedRow
<1>2. sessions' = [sessions EXCEPT ![s] = row]
    OBVIOUS
<1> HIDE DEF row
<1>3. QED
    BY <1>0, <1>1, <1>2 DEF OnlyEnds, RowsFilled, TablesInv

-----------------------------------------------------------------------------
(* How a step leaves the handlers: typed, and the others untouched. *)
ControlOK(r) ==
    /\ pc' \in [Request -> Labels]
    /\ req' \in [Request -> Locals]
    /\ loop' \in [Worker -> Request \cup {NULL}]
    /\ OthersKeep(r)

LEMMA NoLocalsType == NoLocals \in Locals
BY DEF NoLocals, Locals

LEMMA AnswerOK ==
    ASSUME BaseInv, NEW r \in Request, NEW action \in Answers, Answer(r, action)
    PROVE  ControlOK(r) /\ LocalsFilled(r)' /\ HoldsLoop(r)'
<1>1. /\ pc \in [Request -> Labels] /\ req \in [Request -> Locals]
      /\ loop \in [Worker -> Request \cup {NULL}]
    BY DEF BaseInv, TypeOK
<1>2. /\ pc' = [pc EXCEPT ![r] = action]
      /\ req' = [req EXCEPT ![r] = NoLocals]
      /\ loop' = [loop EXCEPT ![req[r].worker] = IF @ = r THEN NULL ELSE @]
    BY DEF Answer, LeaveLoop, Goto
<1>3. pc' \in [Request -> Labels] /\ req' \in [Request -> Locals]
    BY <1>1, <1>2, NoLocalsType DEF Labels
<1>4. loop' \in [Worker -> Request \cup {NULL}]
    BY <1>1, <1>2
<1>5. OthersKeep(r)
    BY <1>1, <1>2 DEF OthersKeep
<1>6. pc'[r] \in {"open", "close"}
    BY <1>1, <1>2 DEF Answers
<1>7. QED
    BY <1>3, <1>4, <1>5, <1>6 DEF ControlOK, LocalsFilled, HoldsLoop, PlateLabels, LoopLabels

LEMMA FinishOK ==
    ASSUME BaseInv, NEW r \in Request, Finish(r)
    PROVE  ControlOK(r) /\ LocalsFilled(r)' /\ HoldsLoop(r)'
<1>1. /\ pc \in [Request -> Labels] /\ req \in [Request -> Locals]
      /\ loop \in [Worker -> Request \cup {NULL}]
    BY DEF BaseInv, TypeOK
<1>2. pc' = [pc EXCEPT ![r] = "idle"] /\ req' = [req EXCEPT ![r] = NoLocals] /\ loop' = loop
    BY DEF Finish, Goto
<1>3. pc' \in [Request -> Labels] /\ req' \in [Request -> Locals]
    BY <1>1, <1>2, NoLocalsType DEF Labels
<1>4. OthersKeep(r) /\ pc'[r] = "idle"
    BY <1>1, <1>2 DEF OthersKeep
<1>5. QED
    BY <1>1, <1>2, <1>3, <1>4 DEF ControlOK, LocalsFilled, HoldsLoop, PlateLabels, LoopLabels

(* A step from one label to the next that changes the locals of r to locals. *)
LEMMA GotoOK ==
    ASSUME BaseInv, NEW r \in Request, NEW label \in Labels, NEW locals \in Locals,
           Goto(r, label), req' = [req EXCEPT ![r] = locals], loop' = loop
    PROVE  ControlOK(r) /\ pc'[r] = label /\ req'[r] = locals
<1>1. /\ pc \in [Request -> Labels] /\ req \in [Request -> Locals]
      /\ loop \in [Worker -> Request \cup {NULL}]
    BY DEF BaseInv, TypeOK
<1>2. pc' = [pc EXCEPT ![r] = label]
    BY DEF Goto
<1>3. pc' \in [Request -> Labels] /\ req' \in [Request -> Locals]
    BY <1>1, <1>2
<1>4. OthersKeep(r) /\ pc'[r] = label /\ req'[r] = locals
    BY <1>1, <1>2 DEF OthersKeep
<1>5. QED
    BY <1>1, <1>3, <1>4 DEF ControlOK

(* A step to "ocr" that takes the free event loop of worker w. *)
LEMMA TakeLoopOK ==
    ASSUME BaseInv, NEW r \in Request, NEW w \in Worker, NEW locals \in Locals,
           Goto(r, "ocr"), req' = [req EXCEPT ![r] = locals],
           loop[w] = NULL, loop' = [loop EXCEPT ![w] = r]
    PROVE  ControlOK(r) /\ pc'[r] = "ocr" /\ req'[r] = locals /\ loop'[w] = r
<1>1. /\ pc \in [Request -> Labels] /\ req \in [Request -> Locals]
      /\ loop \in [Worker -> Request \cup {NULL}]
    BY DEF BaseInv, TypeOK
<1>2. pc' = [pc EXCEPT ![r] = "ocr"] /\ "ocr" \in Labels
    BY DEF Goto, Labels, LoopLabels
<1>3. /\ pc' \in [Request -> Labels] /\ req' \in [Request -> Locals]
      /\ loop' \in [Worker -> Request \cup {NULL}]
    BY <1>1, <1>2
<1>4. OthersKeep(r) /\ pc'[r] = "ocr" /\ req'[r] = locals /\ loop'[w] = r
    BY <1>1, <1>2 DEF OthersKeep
<1>5. QED
    BY <1>3, <1>4 DEF ControlOK

(* The step lemma's conclusion from the tables and the handlers apart. *)
LEMMA Assemble ==
    ASSUME NEW r \in Request, ControlOK(r), LocalsFilled(r)', HoldsLoop(r)',
           TablesTypeOK', RowsFilled', WalletNonNegative', OnlyEnds, owner' = owner
    PROVE  StepOK(r)
BY DEF ControlOK, StepOK, TypeOK

LEMMA TablesKept ==
    ASSUME BaseInv, UNCHANGED tables
    PROVE  TablesTypeOK' /\ RowsFilled' /\ WalletNonNegative' /\ OnlyEnds /\ owner' = owner
BY DEF BaseInv, TypeOK, tables, money, TablesTypeOK, RowsFilled, WalletNonNegative, OnlyEnds

(* Only the session and slot tables change. *)
LEMMA TablesRows ==
    ASSUME BaseInv, sessions' \in [SessionId -> SessionRow], RowsFilled', OnlyEnds,
           slotStatus' \in [Slot -> SlotStatus], UNCHANGED <<now, owner, money>>
    PROVE  TablesTypeOK' /\ RowsFilled' /\ WalletNonNegative' /\ OnlyEnds /\ owner' = owner
BY DEF BaseInv, TypeOK, money, TablesTypeOK, WalletNonNegative

LEMMA BaseFacts ==
    ASSUME BaseInv
    PROVE  /\ TablesInv
           /\ now \in Nat /\ slotStatus \in [Slot -> SlotStatus]
           /\ sessions \in [SessionId -> SessionRow]
           /\ owner \in [Vehicle -> User \cup {NULL}]
           /\ balance \in [User -> Int] /\ credited \in [User -> Nat]
           /\ charged \in [User -> Nat] /\ debitRows \in [SessionId -> Nat]
           /\ pc \in [Request -> Labels] /\ req \in [Request -> Locals]
           /\ loop \in [Worker -> Request \cup {NULL}]
BY DEF BaseInv, TablesInv, TypeOK, TablesTypeOK

-----------------------------------------------------------------------------
(* Requests coming in *)

LEMMA StartOK ==
    ASSUME BaseInv, NEW r \in Request, NEW w \in Worker, NEW label \in Labels,
           NEW locals \in Locals, StartThread(r, w, label, locals)
    PROVE  /\ ControlOK(r) /\ pc'[r] = label
           /\ req'[r] = [locals EXCEPT !.worker = w]
<1> DEFINE row == [locals EXCEPT !.worker = w]
<1>1. row \in Locals
    BY DEF Locals
<1>2. Goto(r, label) /\ req' = [req EXCEPT ![r] = row] /\ loop' = loop
    BY DEF StartThread, Start
<1> HIDE DEF row
<1>3. ControlOK(r) /\ pc'[r] = label /\ req'[r] = row
    BY <1>1, <1>2, GotoOK
<1>4. QED
    BY <1>3 DEF row

LEMMA ArriveOK ==
    ASSUME BaseInv, NEW r \in Request, NEW w \in Worker, NEW op \in GateOps, Arrive(r, w, op)
    PROVE  ControlOK(r) /\ LocalsFilled(r)' /\ HoldsLoop(r)' /\ UNCHANGED tables
<1> DEFINE row == [[NoLocals EXCEPT !.op = op, !.attempt = 1, !.time = now] EXCEPT !.worker = w]
<1>1. now \in Nat
    BY BaseFacts
<1>2. row \in Locals /\ row.time = now /\ row.worker = w /\ row.attempt = 1
    BY <1>1 DEF NoLocals, Locals
<1>3. /\ Goto(r, "ocr") /\ req' = [req EXCEPT ![r] = row]
      /\ loop' = [loop EXCEPT ![w] = r] /\ loop[w] = NULL
    BY DEF Arrive, Start, LoopFree
<1>4. UNCHANGED tables
    BY DEF Arrive
<1> HIDE DEF row
<1>5. ControlOK(r) /\ pc'[r] = "ocr" /\ req'[r] = row /\ loop'[w] = r
  <2>1. row \in Locals
    BY <1>2
  <2>2. Goto(r, "ocr")
    BY <1>3
  <2>3. req' = [req EXCEPT ![r] = row]
    BY <1>3
  <2>4. loop[w] = NULL /\ loop' = [loop EXCEPT ![w] = r]
    BY <1>3
  <2>5. QED
    BY <2>1, <2>2, <2>3, <2>4, TakeLoopOK
<1>6. QED
    BY <1>1, <1>2, <1>4, <1>5 DEF LocalsFilled, HoldsLoop, PlateLabels

LEMMA ReceiveStep ==
    ASSUME BaseInv, NEW r \in Request, Receive(r)
    PROVE  StepOK(r)
<1> USE BaseFacts
<1>1. PICK w \in Worker :
        \/ \E op \in GateOps : Arrive(r, w, op)
        \/ \E v \in Vehicle, p \in Slot : StartBook(r, w, v, p)
        \/ \E u \in User, amount \in TopUp : StartTopUp(r, w, u, amount)
        \/ \E s \in SessionId : StartForceClose(r, w, s)
        \/ \E p \in Slot, status \in SlotStatus : StartOverride(r, w, p, status)
    BY DEF Receive
<1>2. ASSUME NEW op \in GateOps, Arrive(r, w, op)
      PROVE  ControlOK(r) /\ LocalsFilled(r)' /\ HoldsLoop(r)' /\ UNCHANGED tables
    BY <1>2, ArriveOK
<1>3. ASSUME NEW v \in Vehicle, NEW p \in Slot, StartBook(r, w, v, p)
      PROVE  ControlOK(r) /\ LocalsFilled(r)' /\ HoldsLoop(r)' /\ UNCHANGED tables
  <2> DEFINE locals == [NoLocals EXCEPT !.op = "book", !.vehicle = v, !.slot = p]
  <2>1. locals \in Locals /\ "check_vehicle" \in Labels
    BY DEF NoLocals, Locals, Labels, WebLabels, WebOps
  <2>2. StartThread(r, w, "check_vehicle", locals) /\ UNCHANGED tables
    BY <1>3 DEF StartBook, StartThread
  <2>3. /\ [locals EXCEPT !.worker = w].vehicle = v
        /\ [locals EXCEPT !.worker = w].slot = p
    BY DEF NoLocals
  <2> HIDE DEF locals
  <2>4. ControlOK(r) /\ pc'[r] = "check_vehicle" /\ req'[r] = [locals EXCEPT !.worker = w]
    BY <2>1, <2>2, StartOK
  <2>5. QED
    BY <2>2, <2>3, <2>4 DEF LocalsFilled, HoldsLoop, PlateLabels, LoopLabels
<1>4. ASSUME NEW u \in User, NEW amount \in TopUp, StartTopUp(r, w, u, amount)
      PROVE  ControlOK(r) /\ LocalsFilled(r)' /\ HoldsLoop(r)' /\ UNCHANGED tables
  <2> DEFINE locals == [NoLocals EXCEPT !.op = "top_up", !.user = u,
                                        !.funds = balance[u], !.amount = amount]
  <2>0. amount \in Nat /\ balance[u] \in Nat
    BY MoneyAssumption DEF BaseInv, WalletNonNegative
  <2>1. locals \in Locals /\ "add_funds" \in Labels
    BY <2>0 DEF NoLocals, Locals, Labels, WebLabels, WebOps
  <2>2. StartThread(r, w, "add_funds", locals) /\ UNCHANGED tables
    BY <1>4 DEF StartTopUp, StartThread
  <2>3. /\ [locals EXCEPT !.worker = w].user = u
        /\ [locals EXCEPT !.worker = w].funds = balance[u]
        /\ [locals EXCEPT !.worker = w].amount = amount
    BY DEF NoLocals
  <2> HIDE DEF locals
  <2>4. ControlOK(r) /\ pc'[r] = "add_funds" /\ req'[r] = [locals EXCEPT !.worker = w]
    BY <2>1, <2>2, StartOK
  <2>5. QED
    BY <2>0, <2>2, <2>3, <2>4 DEF LocalsFilled, HoldsLoop, PlateLabels, LoopLabels
<1>5. ASSUME NEW s \in SessionId, StartForceClose(r, w, s)
      PROVE  ControlOK(r) /\ LocalsFilled(r)' /\ HoldsLoop(r)' /\ UNCHANGED tables
  <2> DEFINE locals == [NoLocals EXCEPT !.op = "force_close", !.session = s,
                                        !.slot = sessions[s].slot]
  <2>0. sessions[s].status = "active" /\ sessions[s].slot \in Slot
    BY <1>5 DEF StartForceClose, ForceClosable, BaseInv, RowsFilled
  <2>1. locals \in Locals /\ "read_close_slot" \in Labels
    BY <2>0 DEF NoLocals, Locals, Labels, WebLabels, WebOps
  <2>2. StartThread(r, w, "read_close_slot", locals) /\ UNCHANGED tables
    BY <1>5 DEF StartForceClose, StartThread
  <2>3. /\ [locals EXCEPT !.worker = w].session = s
        /\ [locals EXCEPT !.worker = w].slot = sessions[s].slot
    BY DEF NoLocals
  <2> HIDE DEF locals
  <2>4. ControlOK(r) /\ pc'[r] = "read_close_slot" /\ req'[r] = [locals EXCEPT !.worker = w]
    BY <2>1, <2>2, StartOK
  <2>5. sessions' = sessions
    BY <2>2 DEF tables
  <2>6. QED
    BY <2>0, <2>2, <2>3, <2>4, <2>5 DEF LocalsFilled, HoldsLoop, PlateLabels, LoopLabels, HasSession
<1>6. ASSUME NEW p \in Slot, NEW status \in SlotStatus, StartOverride(r, w, p, status)
      PROVE  ControlOK(r) /\ LocalsFilled(r)' /\ HoldsLoop(r)' /\ UNCHANGED tables
  <2> DEFINE locals == [NoLocals EXCEPT !.op = "override", !.slot = p,
                                        !.status = status, !.seen = slotStatus[p]]
  <2>1. locals \in Locals /\ "override" \in Labels
    BY DEF NoLocals, Locals, Labels, WebLabels, WebOps
  <2>2. StartThread(r, w, "override", locals) /\ UNCHANGED tables /\ p \in Overridable
    BY <1>6 DEF StartOverride, StartThread
  <2>3. /\ [locals EXCEPT !.worker = w].slot = p
        /\ [locals EXCEPT !.worker = w].status = status
    BY DEF NoLocals
  <2> HIDE DEF locals
  <2>4. ControlOK(r) /\ pc'[r] = "override" /\ req'[r] = [locals EXCEPT !.worker = w]
    BY <2>1, <2>2, StartOK
  <2>5. QED
    BY <2>2, <2>3, <2>4 DEF LocalsFilled, HoldsLoop, PlateLabels, LoopLabels
<1>7. ControlOK(r) /\ LocalsFilled(r)' /\ HoldsLoop(r)' /\ UNCHANGED tables
    BY <1>1, <1>2, <1>3, <1>4, <1>5, <1>6
<1>8. QED
    BY <1>7, TablesKept, Assemble

-----------------------------------------------------------------------------
(* Gate requests *)

(* A refusal: the answer is close, and at most a denied row is added. *)
LEMMA RefuseOK ==
    ASSUME BaseInv, NEW r \in Request, Answer(r, "close"),
           NEW v \in Vehicle \cup {NULL}, NEW q \in Vehicle \cup {NULL},
           sessions' = sessions \/ Insert(DeniedRow(v, q)),
           UNCHANGED <<now, slotStatus, owner, money>>
    PROVE  StepOK(r)
<1>1. ControlOK(r) /\ LocalsFilled(r)' /\ HoldsLoop(r)'
    BY AnswerOK DEF Answers
<1>2. sessions' \in [SessionId -> SessionRow] /\ RowsFilled' /\ OnlyEnds
  <2>1. CASE sessions' = sessions
    BY <2>1, BaseFacts DEF BaseInv, RowsFilled, OnlyEnds
  <2>2. CASE Insert(DeniedRow(v, q))
    BY <2>2, BaseFacts, DenyEffect
  <2>3. QED
    BY <2>1, <2>2
<1>3. slotStatus' \in [Slot -> SlotStatus]
    BY BaseFacts
<1>4. QED
    BY <1>1, <1>2, <1>3, TablesRows, Assemble

(* A coroutine moves on to the next statement, still holding the loop. *)
LEMMA AdvanceOK ==
    ASSUME BaseInv, NEW r \in Request, NEW label \in LoopLabels, NEW locals \in Locals,
           pc[r] \in LoopLabels, locals.worker = req[r].worker,
           Goto(r, label), req' = [req EXCEPT ![r] = locals], UNCHANGED <<tables, loop>>
    PROVE  /\ ControlOK(r) /\ pc'[r] = label /\ req'[r] = locals
           /\ HoldsLoop(r)'
<1>1. label \in Labels
    BY DEF Labels
<1>2. ControlOK(r) /\ pc'[r] = label /\ req'[r] = locals
    BY <1>1, GotoOK
<1>3. HoldsLoop(r)'
    BY <1>2 DEF BaseInv, HoldsLoop
<1>4. QED
    BY <1>2, <1>3

LEMMA OcrStepOK ==
    ASSUME BaseInv, NEW r \in Request, OcrStep(r)
    PROVE  StepOK(r)
<1> USE BaseFacts
<1>1. CASE OcrFails(r)
  <2>1. /\ Answer(r, "close")
        /\ sessions' = sessions \/ Insert(DeniedRow(NULL, NULL))
        /\ UNCHANGED <<now, slotStatus, owner, money>>
    BY <1>1 DEF OcrFails
  <2>2. QED
    BY <2>1, RefuseOK
<1>2. ASSUME NEW v \in Vehicle, ReadPlate(r, v), ~Registered(v)
      PROVE  StepOK(r)
  <2>1. /\ Answer(r, "close")
        /\ sessions' = sessions \/ Insert(DeniedRow(NULL, v))
        /\ UNCHANGED <<now, slotStatus, owner, money>>
    BY <1>2 DEF ReadPlate
  <2>2. QED
    BY <2>1, RefuseOK
<1>3. ASSUME NEW v \in Vehicle, ReadPlate(r, v), Registered(v)
      PROVE  StepOK(r)
  <2>1. /\ pc[r] = "ocr" /\ Goto(r, "check")
        /\ req' = [req EXCEPT ![r].vehicle = v]
        /\ UNCHANGED <<tables, loop>>
    BY <1>3 DEF ReadPlate, tables
  <2> DEFINE locals == [req[r] EXCEPT !.vehicle = v]
  <2>2. locals \in Locals /\ locals.vehicle = v /\ locals.time = req[r].time
        /\ locals.worker = req[r].worker
    BY SMTT(30) DEF Locals
  <2>3. req' = [req EXCEPT ![r] = locals]
    BY <2>1
  <2>4. pc[r] \in LoopLabels /\ "check" \in LoopLabels
    BY <2>1 DEF LoopLabels
  <2> HIDE DEF locals
  <2>5. ControlOK(r) /\ pc'[r] = "check" /\ req'[r] = locals /\ HoldsLoop(r)'
    BY <2>1, <2>2, <2>3, <2>4, AdvanceOK
  <2>6. req[r].time \in Nat /\ owner' = owner /\ owner[v] \in User
    BY <2>1, <1>3 DEF BaseInv, LocalsFilled, Registered, tables
  <2>7. LocalsFilled(r)'
    BY <2>2, <2>5, <2>6 DEF LocalsFilled
  <2>8. QED
    BY <2>1, <2>5, <2>7, TablesKept, Assemble
<1>4. CASE RetryOcr(r)
  <2>1. /\ pc[r] = "ocr" /\ pc' = [pc EXCEPT ![r] = "sleep"]
        /\ req' = [req EXCEPT ![r].attempt = @ + 1]
        /\ loop' = [loop EXCEPT ![req[r].worker] = IF @ = r THEN NULL ELSE @]
        /\ UNCHANGED tables
    BY <1>4 DEF RetryOcr, LeaveLoop, Goto
  <2>2. req[r].attempt \in Nat /\ req[r].time \in Nat /\ req[r].worker \in Worker
    BY <2>1 DEF BaseInv, LocalsFilled
  <2> DEFINE n == req[r].attempt + 1
             locals == [req[r] EXCEPT !.attempt = n]
  <2>a. n \in Nat
    BY <2>2
  <2>b. req' = [req EXCEPT ![r] = locals]
    BY <2>1
  <2> HIDE DEF n
  <2>3. locals \in Locals /\ locals.time = req[r].time
        /\ locals.worker = req[r].worker /\ locals.attempt \in Nat
    BY <2>2, <2>a, SMTT(30) DEF Locals
  <2>4. req' = [req EXCEPT ![r] = locals]
    BY <2>b
  <2> HIDE DEF locals
  <2>5. /\ pc' \in [Request -> Labels] /\ req' \in [Request -> Locals]
        /\ loop' \in [Worker -> Request \cup {NULL}]
        /\ pc'[r] = "sleep" /\ req'[r] = locals
    BY <2>1, <2>3, <2>4 DEF Labels
  <2>6. ControlOK(r)
    BY <2>1, <2>4, <2>5 DEF ControlOK, OthersKeep
  <2>7. LocalsFilled(r)' /\ HoldsLoop(r)'
    BY <2>2, <2>3, <2>5 DEF LocalsFilled, HoldsLoop, PlateLabels, LoopLabels
  <2>8. QED
    BY <2>1, <2>6, <2>7, TablesKept, Assemble
<1>5. QED
    BY <1>1, <1>2, <1>3, <1>4 DEF OcrStep

LEMMA WakeUpOK ==
    ASSUME BaseInv, NEW r \in Request, WakeUp(r)
    PROVE  StepOK(r)
<1> DEFINE w == req[r].worker
<1>1. /\ pc[r] = "sleep" /\ Goto(r, "ocr") /\ req' = req
      /\ loop[w] = NULL /\ loop' = [loop EXCEPT ![w] = r] /\ UNCHANGED tables
    BY DEF WakeUp, LoopFree
<1>2. req[r].attempt \in Nat /\ req[r].time \in Nat /\ w \in Worker
    BY <1>1 DEF BaseInv, LocalsFilled
<1>3. req' = [req EXCEPT ![r] = req[r]] /\ req[r] \in Locals
    BY <1>1, BaseFacts
<1>4. ControlOK(r) /\ pc'[r] = "ocr" /\ req'[r] = req[r] /\ loop'[w] = r
    BY <1>1, <1>2, <1>3, TakeLoopOK
<1>5. LocalsFilled(r)' /\ HoldsLoop(r)'
    BY <1>2, <1>4 DEF LocalsFilled, HoldsLoop, PlateLabels
<1>6. QED
    BY <1>1, <1>4, <1>5, TablesKept, Assemble

LEMMA EntryStepOK ==
    ASSUME BaseInv, NEW r \in Request, EntryStep(r)
    PROVE  StepOK(r)
<1> USE BaseFacts
<1>0. pc[r] \in PlateLabels => /\ req[r].time \in Nat
                               /\ req[r].vehicle \in Vehicle
                               /\ owner[req[r].vehicle] \in User
    BY DEF BaseInv, LocalsFilled
<1>1. CASE RefuseDoubleEntry(r)
  <2>1. /\ Answer(r, "close") /\ sessions' = sessions
        /\ UNCHANGED <<now, slotStatus, owner, money>>
    BY <1>1 DEF RefuseDoubleEntry, tables
  <2>2. QED
    BY <2>1, RefuseOK
<1>2. CASE CheckNotParked(r)
  <2>1. /\ pc[r] = "check" /\ Goto(r, "find_slot") /\ req' = [req EXCEPT ![r] = req[r]]
        /\ UNCHANGED <<tables, loop>>
    BY <1>2 DEF CheckNotParked
  <2>2. pc[r] \in PlateLabels /\ pc[r] \in LoopLabels /\ "find_slot" \in LoopLabels
    BY <2>1 DEF LoopLabels, PlateLabels
  <2>3. ControlOK(r) /\ pc'[r] = "find_slot" /\ req'[r] = req[r] /\ HoldsLoop(r)'
    BY <2>1, <2>2, AdvanceOK
  <2>4. LocalsFilled(r)'
    BY <1>0, <2>1, <2>2, <2>3 DEF LocalsFilled, tables
  <2>5. QED
    BY <2>1, <2>3, <2>4, TablesKept, Assemble
<1>3. CASE RefuseFull(r)
  <2>1. /\ Answer(r, "close") /\ Insert(DeniedRow(req[r].vehicle, req[r].vehicle))
        /\ UNCHANGED <<now, slotStatus, owner, money>>
    BY <1>3 DEF RefuseFull
  <2>2. req[r].vehicle \in Vehicle
    BY <1>0, <1>3 DEF RefuseFull, PlateLabels, LoopLabels
  <2>3. QED
    BY <2>1, <2>2, RefuseOK
<1>4. CASE FindSlot(r)
  <2>1. PICK p \in Slot :
            /\ pc[r] = "find_slot" /\ req' = [req EXCEPT ![r].slot = p]
            /\ Goto(r, "open_session") /\ UNCHANGED <<tables, loop>>
    BY <1>4 DEF FindSlot
  <2> DEFINE locals == [req[r] EXCEPT !.slot = p]
  <2>2. /\ locals \in Locals /\ locals.slot = p /\ locals.time = req[r].time
        /\ locals.worker = req[r].worker /\ locals.vehicle = req[r].vehicle
    BY SMTT(30) DEF Locals
  <2>3. req' = [req EXCEPT ![r] = locals]
    BY <2>1
  <2>4. pc[r] \in PlateLabels /\ pc[r] \in LoopLabels /\ "open_session" \in LoopLabels
    BY <2>1 DEF LoopLabels, PlateLabels
  <2> HIDE DEF locals
  <2>5. ControlOK(r) /\ pc'[r] = "open_session" /\ req'[r] = locals /\ HoldsLoop(r)'
    BY <2>1, <2>2, <2>3, <2>4, AdvanceOK
  <2>6. LocalsFilled(r)'
    BY <1>0, <2>1, <2>2, <2>4, <2>5 DEF LocalsFilled, tables
  <2>7. QED
    BY <2>1, <2>5, <2>6, TablesKept, Assemble
<1>5. CASE OpenSession(r)
  <2>1. /\ pc[r] = "open_session"
        /\ slotStatus' = [slotStatus EXCEPT ![req[r].slot] = "occupied"]
        /\ Insert(ActiveRow(req[r].vehicle, req[r].slot, req[r].time))
        /\ Answer(r, "open")
        /\ UNCHANGED <<now, owner, money>>
    BY <1>5 DEF OpenSession
  <2>2. req[r].vehicle \in Vehicle /\ req[r].slot \in Slot /\ req[r].time \in Nat
    BY <1>0, <2>1 DEF BaseInv, LocalsFilled, PlateLabels, LoopLabels
  <2>3. sessions' \in [SessionId -> SessionRow] /\ RowsFilled' /\ OnlyEnds
    BY <2>1, <2>2, OpenEffect
  <2>4. slotStatus' \in [Slot -> SlotStatus]
    BY <2>1 DEF SlotStatus
  <2>5. ControlOK(r) /\ LocalsFilled(r)' /\ HoldsLoop(r)'
    BY <2>1, AnswerOK DEF Answers
  <2>6. QED
    BY <2>1, <2>3, <2>4, <2>5, TablesRows, Assemble
<1>6. QED
    BY <1>1, <1>2, <1>3, <1>4, <1>5 DEF EntryStep

LEMMA SlotAfterCloseType ==
    ASSUME BaseInv, NEW r \in Request
    PROVE  SlotAfterClose(r) \in [Slot -> SlotStatus]
BY BaseFacts DEF SlotAfterClose, Freed, SlotStatus

LEMMA ExitStepOK ==
    ASSUME BaseInv, NEW r \in Request, ExitStep(r)
    PROVE  StepOK(r)
<1> USE BaseFacts
<1>0. pc[r] \in PlateLabels => /\ req[r].time \in Nat
                               /\ req[r].vehicle \in Vehicle
                               /\ owner[req[r].vehicle] \in User
    BY DEF BaseInv, LocalsFilled
<1>1. CASE RefuseNoSession(r)
  <2>1. /\ Answer(r, "close") /\ Insert(DeniedRow(req[r].vehicle, req[r].vehicle))
        /\ UNCHANGED <<now, slotStatus, owner, money>>
    BY <1>1 DEF RefuseNoSession
  <2>2. req[r].vehicle \in Vehicle
    BY <1>0, <1>1 DEF RefuseNoSession, PlateLabels, LoopLabels
  <2>3. QED
    BY <2>1, <2>2, RefuseOK
<1>2. CASE FindSession(r)
  <2>1. PICK s \in ActiveSessions(req[r].vehicle) :
            /\ pc[r] = "check"
            /\ req' = [req EXCEPT ![r].session = s, ![r].slot = sessions[s].slot,
                                  ![r].amount = Fee(sessions[s].entry, req[r].time)]
            /\ Goto(r, "read_wallet") /\ UNCHANGED <<tables, loop>>
    BY <1>2 DEF FindSession
  <2>2. pc[r] \in PlateLabels /\ pc[r] \in LoopLabels /\ "read_wallet" \in LoopLabels
    BY <2>1 DEF LoopLabels, PlateLabels
  <2>3. /\ s \in SessionId /\ sessions[s].status = "active"
        /\ sessions[s].slot \in Slot /\ sessions[s].entry \in Nat
    BY <2>1 DEF ActiveSessions, BaseInv, RowsFilled
  <2> DEFINE fee == Fee(sessions[s].entry, req[r].time)
  <2>4. fee \in Nat
    BY <1>0, <2>2, <2>3, FeeType
  <2> DEFINE locals == [req[r] EXCEPT !.session = s, !.slot = sessions[s].slot, !.amount = fee]
  <2>5. req' = [req EXCEPT ![r] = locals]
    BY <2>1
  <2> HIDE DEF fee
  <2>6. /\ locals \in Locals /\ locals.session = s /\ locals.slot = sessions[s].slot
        /\ locals.amount = fee /\ locals.time = req[r].time
        /\ locals.worker = req[r].worker /\ locals.vehicle = req[r].vehicle
    BY <2>3, <2>4, ZenonT(60) DEF Locals
  <2> HIDE DEF locals
  <2>7. ControlOK(r) /\ pc'[r] = "read_wallet" /\ req'[r] = locals /\ HoldsLoop(r)'
    BY <2>1, <2>2, <2>5, <2>6, AdvanceOK
  <2>8. sessions' = sessions /\ owner' = owner
    BY <2>1 DEF tables
  <2>9. LocalsFilled(r)'
    BY <1>0, <2>2, <2>3, <2>4, <2>6, <2>7, <2>8 DEF LocalsFilled, HasSession
  <2>10. QED
    BY <2>1, <2>7, <2>9, TablesKept, Assemble
<1>3. CASE RefuseUnpaid(r)
  <2>1. /\ Answer(r, "close")
        /\ sessions' = sessions \/ Insert(DeniedRow(req[r].vehicle, req[r].vehicle))
        /\ UNCHANGED <<now, slotStatus, owner, money>>
    BY <1>3 DEF RefuseUnpaid
  <2>2. req[r].vehicle \in Vehicle
    BY <1>0, <1>3 DEF RefuseUnpaid, PlateLabels, LoopLabels
  <2>3. QED
    BY <2>1, <2>2, RefuseOK
<1>4. CASE ReadWallet(r)
  <2> DEFINE u == owner[req[r].vehicle]
  <2>1. /\ pc[r] = "read_wallet" /\ balance[u] >= req[r].amount
        /\ req' = [req EXCEPT ![r].user = u, ![r].funds = balance[u]]
        /\ Goto(r, "read_exit_slot") /\ UNCHANGED <<tables, loop>>
    BY <1>4 DEF ReadWallet, Wallet, CanPay
  <2>2. pc[r] \in PlateLabels /\ pc[r] \in LoopLabels /\ "read_exit_slot" \in LoopLabels
    BY <2>1 DEF LoopLabels, PlateLabels
  <2>3. u \in User /\ balance[u] \in Int
    BY <1>0, <2>2
  <2>4. HasSession(r) /\ req[r].amount \in Nat
    BY <2>1 DEF BaseInv, LocalsFilled
  <2> DEFINE locals == [req[r] EXCEPT !.user = u, !.funds = balance[u]]
  <2>5. req' = [req EXCEPT ![r] = locals]
    BY <2>1
  <2> HIDE DEF u
  <2>6. /\ locals \in Locals /\ locals.user = u /\ locals.funds = balance[u]
        /\ locals.session = req[r].session /\ locals.slot = req[r].slot
        /\ locals.amount = req[r].amount /\ locals.time = req[r].time
        /\ locals.worker = req[r].worker /\ locals.vehicle = req[r].vehicle
    BY <2>3, ZenonT(60) DEF Locals
  <2> HIDE DEF locals
  <2>7. ControlOK(r) /\ pc'[r] = "read_exit_slot" /\ req'[r] = locals /\ HoldsLoop(r)'
    BY <2>1, <2>2, <2>5, <2>6, AdvanceOK
  <2>8. sessions' = sessions /\ owner' = owner
    BY <2>1 DEF tables
  <2>9. LocalsFilled(r)'
    BY <1>0, <2>1, <2>2, <2>3, <2>4, <2>6, <2>7, <2>8 DEF LocalsFilled, HasSession
  <2>10. QED
    BY <2>1, <2>7, <2>9, TablesKept, Assemble
<1>5. CASE ReadExitSlot(r)
  <2>1. /\ pc[r] = "read_exit_slot"
        /\ req' = [req EXCEPT ![r].seen = slotStatus[req[r].slot]]
        /\ Goto(r, "close_session") /\ UNCHANGED <<tables, loop>>
    BY <1>5 DEF ReadExitSlot
  <2>2. pc[r] \in PlateLabels /\ pc[r] \in LoopLabels /\ "close_session" \in LoopLabels
    BY <2>1 DEF LoopLabels, PlateLabels
  <2>3. /\ HasSession(r) /\ req[r].amount \in Nat
        /\ req[r].user \in User /\ req[r].funds \in Int /\ req[r].funds >= req[r].amount
    BY <2>1 DEF BaseInv, LocalsFilled
  <2>4. slotStatus[req[r].slot] \in SlotStatus
    BY <2>3 DEF HasSession
  <2> DEFINE locals == [req[r] EXCEPT !.seen = slotStatus[req[r].slot]]
  <2>5. req' = [req EXCEPT ![r] = locals]
    BY <2>1
  <2>6. /\ locals \in Locals /\ locals.user = req[r].user /\ locals.funds = req[r].funds
        /\ locals.session = req[r].session /\ locals.slot = req[r].slot
        /\ locals.amount = req[r].amount /\ locals.time = req[r].time
        /\ locals.worker = req[r].worker /\ locals.vehicle = req[r].vehicle
    BY <2>4, ZenonT(60) DEF Locals
  <2> HIDE DEF locals
  <2>7. ControlOK(r) /\ pc'[r] = "close_session" /\ req'[r] = locals /\ HoldsLoop(r)'
    BY <2>1, <2>2, <2>5, <2>6, AdvanceOK
  <2>8. sessions' = sessions /\ owner' = owner
    BY <2>1 DEF tables
  <2>9. LocalsFilled(r)'
    BY <1>0, <2>2, <2>3, <2>6, <2>7, <2>8 DEF LocalsFilled, HasSession
  <2>10. QED
    BY <2>1, <2>7, <2>9, TablesKept, Assemble
<1>6. CASE CloseSession(r)
  <2> DEFINE x == req[r].session
             u == req[r].user
             fee == req[r].amount
  <2>1. /\ pc[r] = "close_session"
        /\ balance' = [balance EXCEPT ![u] = req[r].funds - fee]
        /\ sessions' = [sessions EXCEPT ![x] = Completed(@, fee)]
        /\ slotStatus' = SlotAfterClose(r)
        /\ charged' = [charged EXCEPT ![u] = @ + fee]
        /\ debitRows' = [debitRows EXCEPT ![x] = @ + 1]
        /\ Answer(r, "open")
        /\ UNCHANGED <<now, owner, credited>>
    BY <1>6 DEF CloseSession
  <2>2. /\ x \in SessionId /\ sessions[x].status \in {"active", "completed"}
        /\ fee \in Nat /\ u \in User /\ req[r].funds \in Int /\ req[r].funds >= fee
    BY <2>1 DEF BaseInv, LocalsFilled, HasSession
  <2> HIDE DEF x, u, fee
  <2>3. sessions' \in [SessionId -> SessionRow] /\ RowsFilled' /\ OnlyEnds
    BY <2>1, <2>2, CloseEffect
  <2>4. slotStatus' \in [Slot -> SlotStatus]
    BY <2>1, SlotAfterCloseType
  <2>5. /\ balance' \in [User -> Int] /\ charged' \in [User -> Nat]
        /\ debitRows' \in [SessionId -> Nat]
    BY <2>1, <2>2
  <2>6. WalletNonNegative'
    BY <2>1, <2>2 DEF WalletNonNegative, BaseInv
  <2>7. TablesTypeOK'
    BY <2>1, <2>3, <2>4, <2>5 DEF TablesTypeOK
  <2>8. ControlOK(r) /\ LocalsFilled(r)' /\ HoldsLoop(r)'
    BY <2>1, AnswerOK DEF Answers
  <2>9. QED
    BY <2>1, <2>3, <2>6, <2>7, <2>8, Assemble
<1>7. QED
    BY <1>1, <1>2, <1>3, <1>4, <1>5, <1>6 DEF ExitStep

-----------------------------------------------------------------------------
(* Requests of the web clients, crashes and the clock *)

LEMMA WebStepOK ==
    ASSUME BaseInv, NEW r \in Request, WebStep(r)
    PROVE  StepOK(r)
<1> USE BaseFacts
<1>1. CASE CheckVehicle(r)
  <2>1. pc[r] = "check_vehicle" /\ UNCHANGED tables
    BY <1>1 DEF CheckVehicle
  <2>2. CASE Goto(r, "book_slot") /\ UNCHANGED <<req, loop>>
    <3>1. "book_slot" \in Labels /\ req' = [req EXCEPT ![r] = req[r]]
      BY <2>2 DEF Labels, WebLabels
    <3>2. ControlOK(r) /\ pc'[r] = "book_slot" /\ req'[r] = req[r]
      BY <2>2, <3>1, GotoOK
    <3>3. req[r].vehicle \in Vehicle /\ req[r].slot \in Slot
      BY <2>1 DEF BaseInv, LocalsFilled
    <3>4. LocalsFilled(r)' /\ HoldsLoop(r)'
      BY <3>2, <3>3 DEF LocalsFilled, HoldsLoop, PlateLabels, LoopLabels
    <3>5. QED
      BY <2>1, <3>2, <3>4, TablesKept, Assemble
  <2>3. CASE Finish(r)
    BY <2>1, <2>3, FinishOK, TablesKept, Assemble
  <2>4. QED
    BY <1>1, <2>2, <2>3 DEF CheckVehicle
<1>2. CASE BookSlot(r)
  <2>1. /\ pc[r] = "book_slot"
        /\ slotStatus' = [slotStatus EXCEPT ![req[r].slot] = "reserved"]
        /\ Insert(ActiveRow(req[r].vehicle, req[r].slot, now))
        /\ Finish(r) /\ UNCHANGED <<now, owner, money>>
    BY <1>2 DEF BookSlot
  <2>2. req[r].vehicle \in Vehicle /\ req[r].slot \in Slot
    BY <2>1 DEF BaseInv, LocalsFilled
  <2>3. sessions' \in [SessionId -> SessionRow] /\ RowsFilled' /\ OnlyEnds
    BY <2>1, <2>2, OpenEffect
  <2>4. slotStatus' \in [Slot -> SlotStatus]
    BY <2>1 DEF SlotStatus
  <2>5. QED
    BY <2>1, <2>3, <2>4, FinishOK, TablesRows, Assemble
<1>3. CASE AddFunds(r)
  <2> DEFINE u == req[r].user
             amount == req[r].amount
  <2>1. /\ pc[r] = "add_funds"
        /\ balance' = [balance EXCEPT ![u] = req[r].funds + amount]
        /\ credited' = [credited EXCEPT ![u] = @ + amount]
        /\ Finish(r)
        /\ UNCHANGED <<now, slotStatus, sessions, owner, charged, debitRows>>
    BY <1>3 DEF AddFunds
  <2>2. u \in User /\ amount \in Nat /\ req[r].funds \in Nat
    BY <2>1 DEF BaseInv, LocalsFilled
  <2> HIDE DEF u, amount
  <2>3. balance' \in [User -> Int] /\ credited' \in [User -> Nat] /\ WalletNonNegative'
    BY <2>1, <2>2 DEF WalletNonNegative, BaseInv
  <2>4. TablesTypeOK'
    BY <2>1, <2>3 DEF TablesTypeOK
  <2>5. RowsFilled' /\ OnlyEnds
    BY <2>1 DEF BaseInv, RowsFilled, OnlyEnds
  <2>6. QED
    BY <2>1, <2>3, <2>4, <2>5, FinishOK, Assemble
<1>4. CASE ReadCloseSlot(r)
  <2>1. /\ pc[r] = "read_close_slot"
        /\ req' = [req EXCEPT ![r].seen = slotStatus[req[r].slot]]
        /\ Goto(r, "force_close") /\ loop' = loop /\ UNCHANGED tables
    BY <1>4 DEF ReadCloseSlot
  <2>2. HasSession(r)
    BY <2>1 DEF BaseInv, LocalsFilled
  <2>3. slotStatus[req[r].slot] \in SlotStatus
    BY <2>2 DEF HasSession
  <2> DEFINE locals == [req[r] EXCEPT !.seen = slotStatus[req[r].slot]]
  <2>4. req' = [req EXCEPT ![r] = locals]
    BY <2>1
  <2>5. /\ locals \in Locals
        /\ locals.session = req[r].session /\ locals.slot = req[r].slot
    BY <2>3, ZenonT(60) DEF Locals
  <2> HIDE DEF locals
  <2>6. "force_close" \in Labels
    BY DEF Labels, WebLabels
  <2>7. ControlOK(r) /\ pc'[r] = "force_close" /\ req'[r] = locals
    BY <2>1, <2>4, <2>5, <2>6, GotoOK
  <2>8. sessions' = sessions
    BY <2>1 DEF tables
  <2>9. LocalsFilled(r)' /\ HoldsLoop(r)'
    BY <2>2, <2>5, <2>7, <2>8 DEF LocalsFilled, HoldsLoop, PlateLabels, LoopLabels, HasSession
  <2>10. QED
    BY <2>1, <2>7, <2>9, TablesKept, Assemble
<1>5. CASE ForceClose(r)
  <2> DEFINE x == req[r].session
  <2>1. /\ pc[r] = "force_close"
        /\ sessions' = [sessions EXCEPT ![x] = Completed(@, 0)]
        /\ slotStatus' = SlotAfterClose(r)
        /\ Finish(r) /\ UNCHANGED <<now, owner, money>>
    BY <1>5 DEF ForceClose
  <2>2. x \in SessionId /\ sessions[x].status \in {"active", "completed"} /\ 0 \in Nat
    BY <2>1 DEF BaseInv, LocalsFilled, HasSession
  <2> HIDE DEF x
  <2>3. sessions' \in [SessionId -> SessionRow] /\ RowsFilled' /\ OnlyEnds
    BY <2>1, <2>2, CloseEffect
  <2>4. slotStatus' \in [Slot -> SlotStatus]
    BY <2>1, SlotAfterCloseType
  <2>5. QED
    BY <2>1, <2>3, <2>4, FinishOK, TablesRows, Assemble
<1>6. CASE Override(r)
  <2>1. /\ pc[r] = "override"
        /\ \/ slotStatus' = slotStatus
           \/ slotStatus' = [slotStatus EXCEPT ![req[r].slot] = req[r].status]
        /\ Finish(r) /\ UNCHANGED <<now, sessions, owner, money>>
    BY <1>6 DEF Override
  <2>2. req[r].slot \in Slot /\ req[r].status \in SlotStatus
    BY <2>1, SlotAssumption DEF BaseInv, LocalsFilled
  <2>3. slotStatus' \in [Slot -> SlotStatus]
    BY <2>1, <2>2
  <2>4. sessions' \in [SessionId -> SessionRow] /\ RowsFilled' /\ OnlyEnds
    BY <2>1 DEF BaseInv, RowsFilled, OnlyEnds
  <2>5. QED
    BY <2>1, <2>3, <2>4, FinishOK, TablesRows, Assemble
<1>7. QED
    BY <1>1, <1>2, <1>3, <1>4, <1>5, <1>6 DEF WebStep

(* A step of one request keeps what the others rely on. *)
LEMMA StepKeepsInv ==
    ASSUME BaseInv, NEW r \in Request, StepOK(r)
    PROVE  BaseInv' /\ OnlyEnds
<1>1. ASSUME NEW q \in Request \ {r}
      PROVE  LocalsFilled(q)' /\ HoldsLoop(q)'
  <2>1. pc'[q] = pc[q] /\ req'[q] = req[q] /\ LocalsFilled(q) /\ HoldsLoop(q)
    BY DEF BaseInv, StepOK, OthersKeep
  <2>2. HasSession(q) => HasSession(q)'
    BY <2>1 DEF HasSession, StepOK, OnlyEnds
  <2>3. LocalsFilled(q)'
    BY <2>1, <2>2 DEF LocalsFilled, StepOK
  <2>4. q # NULL
    BY RequestAssumption
  <2>5. HoldsLoop(q)'
    BY <2>1, <2>4 DEF HoldsLoop, StepOK, OthersKeep
  <2>6. QED
    BY <2>3, <2>5
<1>2. QED
    BY <1>1 DEF BaseInv, StepOK

LEMMA CrashOK ==
    ASSUME BaseInv, NEW w \in Worker, Crash(w)
    PROVE  BaseInv' /\ OnlyEnds
<1>1. /\ pc' = [r \in Request |-> IF req[r].worker = w THEN "idle" ELSE pc[r]]
      /\ req' = [r \in Request |-> IF req[r].worker = w THEN NoLocals ELSE req[r]]
      /\ loop' = [loop EXCEPT ![w] = NULL]
      /\ UNCHANGED tables
    BY DEF Crash
<1>2. TablesTypeOK' /\ RowsFilled' /\ WalletNonNegative' /\ OnlyEnds /\ owner' = owner
    BY <1>1, TablesKept
<1>3. TypeOK'
    BY <1>1, <1>2, BaseFacts, NoLocalsType DEF TypeOK, Labels
<1>4. ASSUME NEW r \in Request
      PROVE  LocalsFilled(r)' /\ HoldsLoop(r)'
  <2>1. CASE req[r].worker = w
    <3>1. pc'[r] = "idle"
      BY <1>1, <2>1
    <3>2. QED
      BY <3>1 DEF LocalsFilled, HoldsLoop, PlateLabels, LoopLabels
  <2>2. CASE req[r].worker # w
    <3>1. pc'[r] = pc[r] /\ req'[r] = req[r] /\ sessions' = sessions /\ owner' = owner
      BY <1>1, <2>2 DEF tables
    <3>2. LocalsFilled(r) /\ HoldsLoop(r)
      BY DEF BaseInv
    <3>3. QED
      BY <1>1, <2>2, <3>1, <3>2, BaseFacts DEF LocalsFilled, HoldsLoop, HasSession
  <2>3. QED
    BY <2>1, <2>2
<1>5. QED
    BY <1>2, <1>3, <1>4 DEF BaseInv

LEMMA TickOK ==
    ASSUME BaseInv, Tick \/ UNCHANGED vars
    PROVE  BaseInv' /\ OnlyEnds
<1>1. now' \in Nat /\ UNCHANGED <<slotStatus, sessions, owner, money, pc, req, loop>>
    BY BaseFacts DEF Tick, vars, tables
<1>2. TypeOK' /\ RowsFilled' /\ WalletNonNegative' /\ OnlyEnds
    BY <1>1 DEF BaseInv, TypeOK, TablesTypeOK, RowsFilled, WalletNonNegative, OnlyEnds, money
<1>3. \A r \in Request : LocalsFilled(r)' /\ HoldsLoop(r)'
    BY <1>1 DEF BaseInv, LocalsFilled, HoldsLoop, HasSession
<1>4. QED
    BY <1>2, <1>3 DEF BaseInv

LEMMA BaseStep ==
    ASSUME BaseInv, [Next]_vars
    PROVE  BaseInv' /\ OnlyEnds
<1>1. ASSUME NEW r \in Request,
             Receive(r) \/ WakeUp(r) \/ OcrStep(r) \/ EntryStep(r) \/ ExitStep(r) \/ WebStep(r)
      PROVE  BaseInv' /\ OnlyEnds
    BY <1>1, ReceiveStep, WakeUpOK, OcrStepOK, EntryStepOK, ExitStepOK, WebStepOK, StepKeepsInv
<1>2. QED
    BY <1>1, CrashOK, TickOK DEF Next

LEMMA BaseInit == Init => BaseInv
<1> SUFFICES ASSUME Init PROVE BaseInv
    OBVIOUS
<1>1. NoRow \in SessionRow /\ NoRow.status = "none"
    BY DEF NoRow, SessionRow, SessionStatus
<1>2. \A u \in User : credited[u] \in Nat /\ balance[u] \in Nat
    BY MoneyAssumption DEF Init, TablesInit
<1>3. credited \in [User -> Nat] /\ balance \in [User -> Int]
  <2>1. credited \in [User -> Opening] /\ balance = credited
    BY DEF Init, TablesInit
  <2>2. QED
    BY <1>2, <2>1
<1>4. TablesTypeOK /\ RowsFilled /\ WalletNonNegative
    BY <1>1, <1>2, <1>3
       DEF Init, TablesInit, TablesTypeOK, RowsFilled, SlotStatus, WalletNonNegative
<1>5. /\ pc \in [Request -> Labels] /\ req \in [Request -> Locals]
      /\ loop \in [Worker -> Request \cup {NULL}]
    BY NoLocalsType DEF Init, Labels
<1>6. \A r \in Request : LocalsFilled(r) /\ HoldsLoop(r)
    BY DEF Init, LocalsFilled, HoldsLoop, PlateLabels, LoopLabels
<1>7. QED
    BY <1>4, <1>5, <1>6 DEF BaseInv, TypeOK

LEMMA BaseCorrect == Spec => []BaseInv
<1>1. BaseInv /\ [Next]_vars => BaseInv'
    BY BaseStep
<1>2. QED
    BY BaseInit, <1>1, PTL DEF Spec

(* Tables and handler variables are well typed in every reachable state. *)
THEOREM TypeCorrect == Spec => []TypeOK
<1>1. BaseInv => TypeOK
    BY DEF BaseInv
<1>2. QED
    BY <1>1, BaseCorrect, PTL

(* No interleaving of exits, top-ups and force-closes overdraws a wallet, with
   any number of workers. *)
THEOREM WalletCorrect == Spec => []WalletNonNegative
<1>1. BaseInv => WalletNonNegative
    BY DEF BaseInv
<1>2. QED
    BY <1>1, BaseCorrect, PTL

(* No interleaving reopens a session or gives it another plate or slot. *)
THEOREM SessionsOnlyEndCorrect == Spec => SessionsOnlyEnd
<1>1. BaseInv /\ [Next]_vars => [OnlyEnds]_vars
    BY BaseStep
<1>2. QED
    BY <1>1, BaseCorrect, PTL DEF Spec, SessionsOnlyEnd

-----------------------------------------------------------------------------
(* One DEBIT row per session, on one worker.  The argument: a session that a
   coroutine is about to charge has not been charged, because the coroutine
   found it active and has held the only event loop since; a charged session
   is completed and stays so. *)

ExitLabels == {"read_wallet", "read_exit_slot", "close_session"}

DebitInv ==
    /\ \A s \in SessionId :
          debitRows[s] <= 1 /\ (debitRows[s] = 1 => sessions[s].status = "completed")
    /\ \A r \in Request : pc[r] \in ExitLabels => debitRows[req[r].session] = 0

(* A step of r after which no session is newly about to be charged. *)
Quiet(r) ==
    /\ debitRows' = debitRows
    /\ pc'[r] \in ExitLabels => pc[r] \in ExitLabels /\ req'[r].session = req[r].session

LEMMA AnswerLabel ==
    ASSUME BaseInv, NEW r \in Request, NEW action \in Answers, Answer(r, action)
    PROVE  pc'[r] \notin ExitLabels
<1>1. pc' = [pc EXCEPT ![r] = action] /\ pc \in [Request -> Labels]
    BY BaseFacts DEF Answer, Goto
<1>2. QED
    BY <1>1 DEF ExitLabels, Answers

LEMMA FinishLabel ==
    ASSUME BaseInv, NEW r \in Request, Finish(r)
    PROVE  pc'[r] = "idle"
BY BaseFacts DEF Finish, Goto

LEMMA QuietReceive ==
    ASSUME BaseInv, NEW r \in Request, Receive(r)
    PROVE  Quiet(r)
<1>1. PICK label \in {"ocr", "check_vehicle", "add_funds", "read_close_slot", "override"} :
        Goto(r, label) /\ UNCHANGED tables
    BY DEF Receive, Arrive, StartBook, StartTopUp, StartForceClose, StartOverride,
           StartThread, Start
<1>2. pc'[r] = label /\ debitRows' = debitRows
    BY <1>1, BaseFacts DEF Goto, tables, money
<1>3. QED
    BY <1>2 DEF Quiet, ExitLabels

LEMMA QuietGate ==
    ASSUME BaseInv, NEW r \in Request, WakeUp(r) \/ OcrStep(r) \/ EntryStep(r)
    PROVE  Quiet(r)
<1>1. debitRows' = debitRows
    BY DEF WakeUp, OcrStep, EntryStep, RetryOcr, OcrFails, ReadPlate, RefuseDoubleEntry,
           CheckNotParked, RefuseFull, FindSlot, OpenSession, tables, money
<1>2. \/ \E action \in Answers : Answer(r, action)
      \/ \E label \in {"ocr", "sleep", "check", "find_slot", "open_session"} : Goto(r, label)
    BY DEF WakeUp, OcrStep, EntryStep, RetryOcr, OcrFails, ReadPlate, RefuseDoubleEntry,
           CheckNotParked, RefuseFull, FindSlot, OpenSession, Answers
<1>3. CASE \E action \in Answers : Answer(r, action)
    BY <1>1, <1>3, AnswerLabel DEF Quiet
<1>4. CASE \E label \in {"ocr", "sleep", "check", "find_slot", "open_session"} : Goto(r, label)
    BY <1>1, <1>4, BaseFacts DEF Quiet, Goto, ExitLabels
<1>5. QED
    BY <1>2, <1>3, <1>4

LEMMA QuietWeb ==
    ASSUME BaseInv, NEW r \in Request, WebStep(r)
    PROVE  Quiet(r)
<1>1. debitRows' = debitRows
    BY DEF WebStep, CheckVehicle, BookSlot, AddFunds, ReadCloseSlot, ForceClose, Override,
           tables, money
<1>2. Finish(r) \/ \E label \in {"book_slot", "force_close"} : Goto(r, label)
    BY DEF WebStep, CheckVehicle, BookSlot, AddFunds, ReadCloseSlot, ForceClose, Override
<1>3. CASE Finish(r)
    BY <1>1, <1>3, FinishLabel DEF Quiet, ExitLabels
<1>4. CASE \E label \in {"book_slot", "force_close"} : Goto(r, label)
    BY <1>1, <1>4, BaseFacts DEF Quiet, Goto, ExitLabels
<1>5. QED
    BY <1>2, <1>3, <1>4

LEMMA QuietExit ==
    ASSUME BaseInv, NEW r \in Request, ExitStep(r), ~FindSession(r), ~CloseSession(r)
    PROVE  Quiet(r)
<1>1. debitRows' = debitRows
    BY DEF ExitStep, RefuseNoSession, RefuseUnpaid, ReadWallet, ReadExitSlot, tables, money
<1>2. CASE Answer(r, "close")
    BY <1>1, <1>2, AnswerLabel DEF Quiet, Answers
<1>3. CASE ReadWallet(r) \/ ReadExitSlot(r)
  <2>1. pc[r] \in ExitLabels
    BY <1>3 DEF ReadWallet, ReadExitSlot, ExitLabels
  <2>2. req'[r].session = req[r].session
    BY <1>3, BaseFacts DEF ReadWallet, ReadExitSlot, Locals
  <2>3. QED
    BY <1>1, <2>1, <2>2 DEF Quiet
<1>4. QED
    BY <1>2, <1>3 DEF ExitStep, RefuseNoSession, RefuseUnpaid

OneWorker == \A v, w \in Worker : v = w

LEMMA OthersOutOfLoop ==
    ASSUME OneWorker, BaseInv, NEW r \in Request, pc[r] \in LoopLabels,
           NEW q \in Request \ {r}
    PROVE  pc[q] \notin ExitLabels
BY DEF OneWorker, BaseInv, HoldsLoop, LoopLabels, ExitLabels

LEMMA DebitStep ==
    ASSUME OneWorker, BaseInv, DebitInv, [Next]_vars
    PROVE  DebitInv'
<1>1. OnlyEnds /\ BaseInv'
    BY BaseStep
<1>2. \A s \in SessionId : debitRows[s] \in Nat
    BY BaseFacts
<1>3. ASSUME debitRows' = debitRows,
             \A r \in Request : pc'[r] \in ExitLabels =>
                pc[r] \in ExitLabels /\ req'[r].session = req[r].session
      PROVE  DebitInv'
    BY <1>1, <1>3 DEF DebitInv, OnlyEnds
<1>4. ASSUME NEW r \in Request, StepOK(r), Quiet(r)
      PROVE  DebitInv'
    BY <1>3, <1>4 DEF StepOK, OthersKeep, Quiet
<1>5. ASSUME NEW r \in Request, FindSession(r)
      PROVE  DebitInv'
  <2>1. StepOK(r)
    BY <1>5, ExitStepOK DEF ExitStep
  <2>2. PICK s \in ActiveSessions(req[r].vehicle) :
            req' = [req EXCEPT ![r].session = s, ![r].slot = sessions[s].slot,
                               ![r].amount = Fee(sessions[s].entry, req[r].time)]
    BY <1>5 DEF FindSession
  <2>3. debitRows' = debitRows /\ sessions' = sessions
    BY <1>5 DEF FindSession, tables, money
  <2>4. req'[r].session = s
    BY <2>2, BaseFacts DEF Locals
  <2>5. s \in SessionId /\ debitRows[s] = 0
    BY <1>2 DEF ActiveSessions, DebitInv
  <2>6. \A q \in Request \ {r} : pc'[q] = pc[q] /\ req'[q] = req[q]
    BY <2>1 DEF StepOK, OthersKeep
  <2>7. QED
    BY <2>3, <2>4, <2>5, <2>6 DEF DebitInv
<1>6. ASSUME NEW r \in Request, CloseSession(r)
      PROVE  DebitInv'
  <2> DEFINE x == req[r].session
  <2>1. StepOK(r)
    BY <1>6, ExitStepOK DEF ExitStep
  <2>2. /\ pc[r] = "close_session"
        /\ sessions' = [sessions EXCEPT ![x] = Completed(@, req[r].amount)]
        /\ debitRows' = [debitRows EXCEPT ![x] = @ + 1]
        /\ Answer(r, "open")
    BY <1>6 DEF CloseSession
  <2>3. x \in SessionId /\ debitRows[x] = 0
    BY <2>2 DEF BaseInv, LocalsFilled, HasSession, DebitInv, ExitLabels
  <2>4. sessions'[x].status = "completed"
    <3>1. sessions[x] \in SessionRow
      BY <2>3, BaseFacts
    <3>2. QED
      BY <2>2, <2>3, <3>1, BaseFacts DEF Completed, SessionRow
  <2>5. pc'[r] \notin ExitLabels
    BY <2>2, AnswerLabel DEF Answers
  <2>6. \A q \in Request \ {r} : pc'[q] \notin ExitLabels
    BY <2>1, <2>2, OthersOutOfLoop DEF StepOK, OthersKeep, LoopLabels
  <2> HIDE DEF x
  <2>7. \A s \in SessionId : s # x => debitRows'[s] = debitRows[s]
    BY <2>2, BaseFacts
  <2>8. debitRows'[x] = 1
    BY <2>2, <2>3, BaseFacts
  <2>9. QED
    BY <1>1, <2>4, <2>5, <2>6, <2>7, <2>8 DEF DebitInv, OnlyEnds
<1>7. ASSUME NEW r \in Request,
             Receive(r) \/ WakeUp(r) \/ OcrStep(r) \/ EntryStep(r) \/ ExitStep(r) \/ WebStep(r)
      PROVE  DebitInv'
  <2>1. StepOK(r)
    BY <1>7, ReceiveStep, WakeUpOK, OcrStepOK, EntryStepOK, ExitStepOK, WebStepOK
  <2>2. Quiet(r) \/ FindSession(r) \/ CloseSession(r)
    BY <1>7, QuietReceive, QuietGate, QuietWeb, QuietExit
  <2>3. QED
    BY <1>4, <1>5, <1>6, <2>1, <2>2
<1>8. ASSUME NEW w \in Worker, Crash(w)
      PROVE  DebitInv'
  <2>1. debitRows' = debitRows
    BY <1>8 DEF Crash, tables, money
  <2>2. \A r \in Request : pc'[r] = "idle" \/ (pc'[r] = pc[r] /\ req'[r] = req[r])
    BY <1>8 DEF Crash
  <2>3. QED
    BY <1>3, <2>1, <2>2 DEF ExitLabels
<1>9. CASE Tick \/ UNCHANGED vars
    BY <1>3, <1>9 DEF Tick, vars, tables, money
<1>10. QED
    BY <1>7, <1>8, <1>9 DEF Next

(* On one worker a session is charged once, however often the exit gate or the
   legacy endpoint repeats the request. *)
THEOREM OneDebitCorrect ==
    ASSUME \A v, w \in Worker : v = w
    PROVE  Spec => []OneDebitPerSession
<1>0. OneWorker
    BY DEF OneWorker
<1>1. Init => DebitInv
    BY DEF Init, TablesInit, DebitInv, ExitLabels
<1>2. BaseInv /\ DebitInv /\ [Next]_vars => DebitInv'
    BY <1>0, DebitStep
<1>3. DebitInv => OneDebitPerSession
    BY DEF DebitInv, OneDebitPerSession
<1>4. QED
    BY <1>1, <1>2, <1>3, BaseCorrect, PTL DEF Spec

-----------------------------------------------------------------------------
(* No slot that admins leave alone stays taken without a session.  The
   argument: a taken slot has a witness, an active session on it whose closers
   have all seen the slot taken.  Closing the witness therefore writes the
   slot; closing another session of the slot without writing it leaves the
   witness open. *)

CloseLabels == {"read_wallet", "read_exit_slot", "close_session",
                "read_close_slot", "force_close"}

WriteLabels == {"close_session", "force_close"}

Taken == {"occupied", "reserved"}

Witness(p, s) ==
    /\ sessions[s].status = "active" /\ sessions[s].slot = p
    /\ \A r \in Request : pc[r] \in WriteLabels /\ req[r].session = s
                          => req[r].seen # "available"

SlotKnown(r) == pc[r] \in CloseLabels => req[r].slot = sessions[req[r].session].slot

LeakInv ==
    /\ \A r \in Request : SlotKnown(r)
    /\ \A p \in Kept : slotStatus[p] \in Taken => \E s \in SessionId : Witness(p, s)

(* A step of r that closes nothing and reads no slot. *)
Calm(r) ==
    /\ \A s \in SessionId : sessions[s].status = "active" => sessions'[s].status = "active"
    /\ pc'[r] \notin WriteLabels
    /\ SlotKnown(r)'

LEMMA KnownByOthers ==
    ASSUME BaseInv, LeakInv, NEW r \in Request, StepOK(r), NEW q \in Request \ {r}
    PROVE  SlotKnown(q)'
<1>1. pc'[q] = pc[q] /\ req'[q] = req[q] /\ SlotKnown(q) /\ OnlyEnds
    BY DEF LeakInv, StepOK, OthersKeep
<1>2. pc[q] \in CloseLabels => HasSession(q)
    BY DEF BaseInv, LocalsFilled, CloseLabels
<1>3. QED
    BY <1>1, <1>2 DEF SlotKnown, HasSession, OnlyEnds

LEMMA CalmWitness ==
    ASSUME BaseInv, NEW r \in Request, StepOK(r), Calm(r), NEW p,
           NEW s \in SessionId, Witness(p, s)
    PROVE  Witness(p, s)'
<1>1. sessions'[s].status = "active" /\ sessions'[s].slot = p
    BY DEF Calm, Witness, StepOK, OnlyEnds
<1>2. QED
    BY <1>1 DEF Witness, Calm, StepOK, OthersKeep

(* A calm step that leaves the kept slots alone. *)
LEMMA CalmStep ==
    ASSUME BaseInv, LeakInv, NEW r \in Request, StepOK(r), Calm(r),
           \A p \in Kept : slotStatus'[p] = slotStatus[p]
    PROVE  LeakInv'
<1>1. \A q \in Request : SlotKnown(q)'
    BY KnownByOthers DEF Calm
<1>2. ASSUME NEW p \in Kept, slotStatus'[p] \in Taken
      PROVE  \E s \in SessionId : Witness(p, s)'
    BY <1>2, CalmWitness DEF LeakInv
<1>3. QED
    BY <1>1, <1>2 DEF LeakInv

(* open_session and book_slot: the new session is the witness of its slot. *)
LEMMA OpenedStep ==
    ASSUME BaseInv, LeakInv, NEW r \in Request, StepOK(r), pc'[r] \notin CloseLabels,
           NEW p \in Slot, NEW status \in SlotStatus,
           slotStatus' = [slotStatus EXCEPT ![p] = status],
           NEW v \in Vehicle, NEW t \in Nat, Insert(ActiveRow(v, p, t))
    PROVE  LeakInv'
<1> DEFINE row == ActiveRow(v, p, t)
<1>1. row.status = "active" /\ row.slot = p /\ Insert(row)
    BY RowTypes
<1> HIDE DEF row
<1>2. PICK n \in SessionId : /\ sessions[n].status = "none"
                             /\ sessions' = [sessions EXCEPT ![n] = row]
    BY <1>1 DEF Insert
<1>3. sessions'[n] = row /\ \A s \in SessionId : s # n => sessions'[s] = sessions[s]
    BY <1>2, BaseFacts
<1>4. Calm(r)
  <2>1. pc'[r] \notin WriteLabels /\ SlotKnown(r)'
    BY DEF WriteLabels, CloseLabels, SlotKnown
  <2>2. QED
    BY <1>2, <1>3, <2>1 DEF Calm
<1>5. \A q \in Request : SlotKnown(q)'
    BY <1>4, KnownByOthers DEF Calm
<1>6. Witness(p, n)'
  <2>1. ASSUME NEW q \in Request, pc'[q] \in WriteLabels
        PROVE  req'[q].session # n
    <3>1. q # r
      BY <1>4, <2>1 DEF Calm
    <3>2. pc[q] \in WriteLabels /\ req'[q] = req[q]
      BY <2>1, <3>1 DEF StepOK, OthersKeep
    <3>3. HasSession(q)
      BY <3>2 DEF BaseInv, LocalsFilled, WriteLabels
    <3>4. QED
      BY <1>2, <3>2, <3>3 DEF HasSession
  <2>2. QED
    BY <1>1, <1>3, <2>1 DEF Witness
<1>7. ASSUME NEW q \in Kept, slotStatus'[q] \in Taken
      PROVE  \E s \in SessionId : Witness(q, s)'
  <2>1. CASE q = p
    BY <1>6, <2>1
  <2>2. CASE q # p
    <3>1. slotStatus[q] \in Taken
      BY <1>7, <2>2, BaseFacts DEF Kept
    <3>2. QED
      BY <1>4, <3>1, CalmWitness DEF LeakInv
  <2>3. QED
    BY <2>1, <2>2
<1>8. QED
    BY <1>5, <1>7 DEF LeakInv

(* slot = query(...).first(): the closer has seen its slot. *)
LEMMA SlotReadStep ==
    ASSUME BaseInv, LeakInv, NEW r \in Request, StepOK(r), pc[r] \in CloseLabels,
           req' = [req EXCEPT ![r].seen = slotStatus[req[r].slot]], UNCHANGED tables
    PROVE  LeakInv'
<1>1. sessions' = sessions /\ slotStatus' = slotStatus
    BY DEF tables
<1>2. /\ req'[r].session = req[r].session /\ req'[r].slot = req[r].slot
      /\ req'[r].seen = slotStatus[req[r].slot]
    BY BaseFacts DEF Locals
<1>3. SlotKnown(r)' /\ SlotKnown(r)
    BY <1>1, <1>2 DEF SlotKnown, LeakInv
<1>4. \A q \in Request : SlotKnown(q)'
    BY <1>3, KnownByOthers
<1>5. ASSUME NEW p \in Kept, slotStatus'[p] \in Taken
      PROVE  \E s \in SessionId : Witness(p, s)'
  <2>1. PICK s \in SessionId : Witness(p, s)
    BY <1>1, <1>5 DEF LeakInv
  <2>2. req[r].session = s => req'[r].seen # "available"
    BY <1>1, <1>2, <1>3, <1>5, <2>1 DEF Witness, SlotKnown, Taken
  <2>3. Witness(p, s)'
    BY <1>1, <1>2, <2>1, <2>2 DEF Witness, StepOK, OthersKeep
  <2>4. QED
    BY <2>3
<1>6. QED
    BY <1>4, <1>5 DEF LeakInv

(* close_session and force_close_session at their commit *)
LEMMA ClosedStep ==
    ASSUME BaseInv, LeakInv, NEW r \in Request, StepOK(r), pc[r] \in WriteLabels,
           pc'[r] \notin CloseLabels, NEW fee \in Nat,
           sessions' = [sessions EXCEPT ![req[r].session] = Completed(@, fee)],
           slotStatus' = SlotAfterClose(r)
    PROVE  LeakInv'
<1> DEFINE x == req[r].session
           mine == req[r].slot
<1>1. x \in SessionId /\ mine \in Slot /\ mine = sessions[x].slot
    BY DEF BaseInv, LocalsFilled, WriteLabels, CloseLabels, HasSession, LeakInv, SlotKnown
<1>2. \A s \in SessionId : s # x => sessions'[s] = sessions[s]
    BY BaseFacts
<1>3. SlotKnown(r)' /\ pc'[r] \notin WriteLabels
    BY DEF SlotKnown, WriteLabels, CloseLabels
<1>4. \A q \in Request : SlotKnown(q)'
    BY <1>3, KnownByOthers
<1>5. ASSUME NEW p \in Kept, slotStatus'[p] \in Taken
      PROVE  \E s \in SessionId : Witness(p, s)'
  <2>1. slotStatus[p] \in Taken /\ (p = mine => req[r].seen = "available")
    BY <1>1, <1>5, BaseFacts DEF SlotAfterClose, Freed, Taken, Kept
  <2>2. PICK s \in SessionId : Witness(p, s)
    BY <2>1 DEF LeakInv
  <2>3. s # x
    BY <1>1, <2>1, <2>2 DEF Witness
  <2>4. Witness(p, s)'
    BY <1>2, <1>3, <2>2, <2>3 DEF Witness, StepOK, OthersKeep
  <2>5. QED
    BY <2>4
<1>6. QED
    BY <1>4, <1>5 DEF LeakInv

-----------------------------------------------------------------------------
(* Steps that are calm because no session row changes. *)
LEMMA CalmIfRowsKept ==
    ASSUME BaseInv, LeakInv, NEW r \in Request, StepOK(r), sessions' = sessions,
           slotStatus' = slotStatus, pc'[r] \notin WriteLabels, SlotKnown(r)'
    PROVE  LeakInv'
BY CalmStep DEF Calm

(* Refusals: at most a denied row is added, and the request is answered. *)
LEMMA CalmIfRefused ==
    ASSUME BaseInv, LeakInv, NEW r \in Request, StepOK(r), slotStatus' = slotStatus,
           Answer(r, "close"), NEW row, sessions' = sessions \/ Insert(row)
    PROVE  LeakInv'
<1>1. pc'[r] = "close"
    BY BaseFacts DEF Answer, Goto
<1>2. pc'[r] \notin WriteLabels /\ SlotKnown(r)'
    BY <1>1 DEF WriteLabels, CloseLabels, SlotKnown
<1>3. \A s \in SessionId : sessions[s].status = "active" => sessions'[s].status = "active"
    BY BaseFacts DEF Insert
<1>4. QED
    BY <1>2, <1>3, CalmStep DEF Calm

LEMMA LeakReceive ==
    ASSUME BaseInv, LeakInv, NEW r \in Request, Receive(r)
    PROVE  LeakInv'
<1>1. StepOK(r) /\ sessions' = sessions /\ slotStatus' = slotStatus
    BY ReceiveStep DEF Receive, Arrive, StartBook, StartTopUp, StartForceClose, StartOverride,
                       StartThread, tables
<1>2. CASE \E label \in {"ocr", "check_vehicle", "add_funds", "override"} : Goto(r, label)
    BY <1>1, <1>2, BaseFacts, CalmIfRowsKept DEF Goto, WriteLabels, CloseLabels, SlotKnown
<1>3. ASSUME NEW w \in Worker, NEW s \in SessionId, StartForceClose(r, w, s)
      PROVE  LeakInv'
  <2>1. /\ pc' = [pc EXCEPT ![r] = "read_close_slot"]
        /\ req' = [req EXCEPT ![r] =
                     [[NoLocals EXCEPT !.op = "force_close", !.session = s,
                                       !.slot = sessions[s].slot] EXCEPT !.worker = w]]
    BY <1>3 DEF StartForceClose, StartThread, Start, Goto
  <2>2. pc'[r] = "read_close_slot" /\ req'[r].session = s /\ req'[r].slot = sessions[s].slot
    BY <2>1, BaseFacts DEF NoLocals
  <2>3. pc'[r] \notin WriteLabels /\ SlotKnown(r)'
    BY <1>1, <2>2 DEF WriteLabels, SlotKnown
  <2>4. QED
    BY <1>1, <2>3, CalmIfRowsKept
<1>4. QED
    BY <1>2, <1>3, ZenonT(60) DEF Receive, Arrive, StartBook, StartTopUp, StartOverride,
        StartThread, Start

LEMMA LeakGate ==
    ASSUME BaseInv, LeakInv, NEW r \in Request, WakeUp(r) \/ OcrStep(r) \/ EntryStep(r)
    PROVE  LeakInv'
<1>1. StepOK(r)
    BY WakeUpOK, OcrStepOK, EntryStepOK
<1>2. ASSUME Answer(r, "close"), slotStatus' = slotStatus,
             sessions' = sessions \/ \E row \in SessionRow : Insert(row)
      PROVE  LeakInv'
    BY <1>1, <1>2, CalmIfRefused
<1>3. CASE RefuseDoubleEntry(r)
    BY <1>2, <1>3 DEF RefuseDoubleEntry, tables
<1>4. CASE RefuseFull(r)
  <2>1. req[r].vehicle \in Vehicle
    BY <1>4 DEF RefuseFull, BaseInv, LocalsFilled, PlateLabels, LoopLabels
  <2>2. QED
    BY <1>2, <1>4, <2>1, RowTypes DEF RefuseFull
<1>5. CASE OcrFails(r)
    BY <1>2, <1>5, RowTypes DEF OcrFails
<1>6. ASSUME NEW v \in Vehicle, ReadPlate(r, v), ~Registered(v)
      PROVE  LeakInv'
    BY <1>2, <1>6, RowTypes DEF ReadPlate
<1>7. ASSUME sessions' = sessions, slotStatus' = slotStatus,
             NEW label \in {"ocr", "sleep", "check", "find_slot", "open_session"}, Goto(r, label)
      PROVE  LeakInv'
  <2>1. pc'[r] = label
    BY <1>7, BaseFacts DEF Goto
  <2>2. pc'[r] \notin WriteLabels /\ SlotKnown(r)'
    BY <2>1 DEF WriteLabels, CloseLabels, SlotKnown
  <2>3. QED
    BY <1>1, <1>7, <2>2, CalmIfRowsKept
<1>8. CASE OpenSession(r)
  <2>1. /\ pc[r] = "open_session"
        /\ slotStatus' = [slotStatus EXCEPT ![req[r].slot] = "occupied"]
        /\ Insert(ActiveRow(req[r].vehicle, req[r].slot, req[r].time))
        /\ Answer(r, "open")
    BY <1>8 DEF OpenSession
  <2>2. req[r].vehicle \in Vehicle /\ req[r].slot \in Slot /\ req[r].time \in Nat
    BY <2>1 DEF BaseInv, LocalsFilled, PlateLabels, LoopLabels
  <2>3. pc'[r] \notin CloseLabels /\ "occupied" \in SlotStatus
    BY <2>1, BaseFacts DEF Answer, Goto, CloseLabels, SlotStatus
  <2>4. QED
    BY <1>1, <2>1, <2>2, <2>3, OpenedStep
<1>9. CASE WakeUp(r) \/ RetryOcr(r) \/ CheckNotParked(r) \/ FindSlot(r)
    BY <1>7, <1>9 DEF WakeUp, RetryOcr, CheckNotParked, FindSlot, tables
<1>10. ASSUME NEW v \in Vehicle, ReadPlate(r, v), Registered(v)
      PROVE  LeakInv'
    BY <1>7, <1>10 DEF ReadPlate
<1>11. QED
    BY <1>3, <1>4, <1>5, <1>6, <1>8, <1>9, <1>10 DEF OcrStep, EntryStep

LEMMA LeakExit ==
    ASSUME BaseInv, LeakInv, NEW r \in Request, ExitStep(r)
    PROVE  LeakInv'
<1>1. StepOK(r)
    BY ExitStepOK
<1>2. CASE RefuseNoSession(r) \/ RefuseUnpaid(r)
  <2>1. Answer(r, "close") /\ slotStatus' = slotStatus
    BY <1>2 DEF RefuseNoSession, RefuseUnpaid
  <2>2. \E row : sessions' = sessions \/ Insert(row)
    BY <1>2 DEF RefuseNoSession, RefuseUnpaid
  <2>3. QED
    BY <1>1, <2>1, <2>2, CalmIfRefused
<1>3. CASE FindSession(r)
  <2>1. PICK s \in ActiveSessions(req[r].vehicle) :
            req' = [req EXCEPT ![r].session = s, ![r].slot = sessions[s].slot,
                               ![r].amount = Fee(sessions[s].entry, req[r].time)]
    BY <1>3 DEF FindSession
  <2>2. sessions' = sessions /\ slotStatus' = slotStatus /\ pc' = [pc EXCEPT ![r] = "read_wallet"]
    BY <1>3 DEF FindSession, Goto, tables
  <2>3. req'[r].session = s /\ req'[r].slot = sessions[s].slot /\ pc'[r] = "read_wallet"
    BY <2>1, <2>2, BaseFacts DEF Locals
  <2>4. pc'[r] \notin WriteLabels /\ SlotKnown(r)'
    BY <2>2, <2>3 DEF WriteLabels, SlotKnown
  <2>5. QED
    BY <1>1, <2>2, <2>4, CalmIfRowsKept
<1>4. CASE ReadWallet(r)
  <2>1. /\ pc[r] = "read_wallet" /\ pc' = [pc EXCEPT ![r] = "read_exit_slot"]
        /\ sessions' = sessions /\ slotStatus' = slotStatus
    BY <1>4 DEF ReadWallet, Goto, tables
  <2>2. /\ req'[r].session = req[r].session /\ req'[r].slot = req[r].slot
        /\ pc'[r] = "read_exit_slot"
    BY <1>4, <2>1, BaseFacts DEF ReadWallet, Locals
  <2>3. pc'[r] \notin WriteLabels /\ SlotKnown(r)'
    BY <2>1, <2>2 DEF WriteLabels, SlotKnown, CloseLabels, LeakInv
  <2>4. QED
    BY <1>1, <2>1, <2>3, CalmIfRowsKept
<1>5. CASE ReadExitSlot(r)
    BY <1>1, <1>5, SlotReadStep DEF ReadExitSlot, CloseLabels
<1>6. CASE CloseSession(r)
  <2>1. /\ pc[r] \in WriteLabels
        /\ sessions' = [sessions EXCEPT ![req[r].session] = Completed(@, req[r].amount)]
        /\ slotStatus' = SlotAfterClose(r)
        /\ Answer(r, "open")
    BY <1>6 DEF CloseSession, WriteLabels
  <2>2. req[r].amount \in Nat
    BY <1>6 DEF CloseSession, BaseInv, LocalsFilled
  <2>3. pc'[r] \notin CloseLabels
    BY <2>1, BaseFacts DEF Answer, Goto, CloseLabels
  <2>4. QED
    BY <1>1, <2>1, <2>2, <2>3, ClosedStep
<1>7. QED
    BY <1>2, <1>3, <1>4, <1>5, <1>6 DEF ExitStep

LEMMA LeakWeb ==
    ASSUME BaseInv, LeakInv, NEW r \in Request, WebStep(r)
    PROVE  LeakInv'
<1>1. StepOK(r)
    BY WebStepOK
<1>2. CASE CheckVehicle(r) \/ AddFunds(r)
  <2>1. sessions' = sessions /\ slotStatus' = slotStatus
    BY <1>2 DEF CheckVehicle, AddFunds, tables
  <2>2. pc'[r] \in {"idle", "book_slot"}
    BY <1>2, BaseFacts DEF CheckVehicle, AddFunds, Finish, Goto
  <2>3. pc'[r] \notin WriteLabels /\ SlotKnown(r)'
    BY <2>2 DEF WriteLabels, CloseLabels, SlotKnown
  <2>4. QED
    BY <1>1, <2>1, <2>3, CalmIfRowsKept
<1>3. CASE BookSlot(r)
  <2>1. /\ pc[r] = "book_slot"
        /\ slotStatus' = [slotStatus EXCEPT ![req[r].slot] = "reserved"]
        /\ Insert(ActiveRow(req[r].vehicle, req[r].slot, now))
        /\ Finish(r)
    BY <1>3 DEF BookSlot
  <2>2. req[r].vehicle \in Vehicle /\ req[r].slot \in Slot /\ now \in Nat
    BY <2>1, BaseFacts DEF BaseInv, LocalsFilled
  <2>3. pc'[r] \notin CloseLabels /\ "reserved" \in SlotStatus
    BY <2>1, FinishLabel DEF CloseLabels, SlotStatus
  <2>4. QED
    BY <1>1, <2>1, <2>2, <2>3, OpenedStep
<1>4. CASE ReadCloseSlot(r)
    BY <1>1, <1>4, SlotReadStep DEF ReadCloseSlot, CloseLabels
<1>5. CASE ForceClose(r)
  <2>1. /\ pc[r] \in WriteLabels /\ 0 \in Nat
        /\ sessions' = [sessions EXCEPT ![req[r].session] = Completed(@, 0)]
        /\ slotStatus' = SlotAfterClose(r)
        /\ Finish(r)
    BY <1>5 DEF ForceClose, WriteLabels
  <2>2. pc'[r] \notin CloseLabels
    BY <2>1, FinishLabel DEF CloseLabels
  <2>3. QED
    BY <1>1, <2>1, <2>2, ClosedStep
<1>6. CASE Override(r)
  <2>1. /\ pc[r] = "override" /\ sessions' = sessions /\ Finish(r)
        /\ \/ slotStatus' = slotStatus
           \/ slotStatus' = [slotStatus EXCEPT ![req[r].slot] = req[r].status]
    BY <1>6 DEF Override
  <2>2. req[r].slot \in Overridable
    BY <2>1 DEF BaseInv, LocalsFilled
  <2>3. \A p \in Kept : slotStatus'[p] = slotStatus[p]
    BY <2>1, <2>2, BaseFacts DEF Kept
  <2>4. pc'[r] = "idle"
    BY <2>1, FinishLabel
  <2>5. Calm(r)
    BY <2>1, <2>4 DEF Calm, WriteLabels, CloseLabels, SlotKnown
  <2>6. QED
    BY <1>1, <2>3, <2>5, CalmStep
<1>7. QED
    BY <1>2, <1>3, <1>4, <1>5, <1>6 DEF WebStep

LEMMA LeakStep ==
    ASSUME BaseInv, LeakInv, [Next]_vars
    PROVE  LeakInv'
<1>1. ASSUME NEW r \in Request,
             Receive(r) \/ WakeUp(r) \/ OcrStep(r) \/ EntryStep(r) \/ ExitStep(r) \/ WebStep(r)
      PROVE  LeakInv'
    BY <1>1, LeakReceive, LeakGate, LeakExit, LeakWeb
<1>2. ASSUME NEW w \in Worker, Crash(w)
      PROVE  LeakInv'
  <2>1. sessions' = sessions /\ slotStatus' = slotStatus
    BY <1>2 DEF Crash, tables
  <2>2. \A r \in Request : pc'[r] = "idle" \/ (pc'[r] = pc[r] /\ req'[r] = req[r])
    BY <1>2 DEF Crash
  <2>3. \A r \in Request : SlotKnown(r)'
    BY <2>1, <2>2 DEF SlotKnown, LeakInv, CloseLabels
  <2>4. \A p \in Kept, s \in SessionId : Witness(p, s) => Witness(p, s)'
    BY <2>1, <2>2 DEF Witness, WriteLabels
  <2>5. QED
    BY <2>1, <2>3, <2>4 DEF LeakInv
<1>3. CASE Tick \/ UNCHANGED vars
    BY <1>3 DEF Tick, vars, tables, LeakInv, SlotKnown, Witness
<1>4. QED
    BY <1>1, <1>2, <1>3 DEF Next

(* No interleaving of exits, force-closes, bookings and entries, and of
   overrides of other slots, leaves a slot taken that no active session holds:
   the lot does not shrink. *)
THEOREM NoLeakCorrect == Spec => []NoLeakedSlot
<1>1. Init => LeakInv
    BY DEF Init, TablesInit, LeakInv, SlotKnown, CloseLabels, Taken, Kept
<1>2. BaseInv /\ LeakInv /\ [Next]_vars => LeakInv'
    BY LeakStep
<1>3. LeakInv => NoLeakedSlot
    BY DEF LeakInv, Witness, Taken, NoLeakedSlot
<1>4. QED
    BY <1>1, <1>2, <1>3, BaseCorrect, PTL DEF Spec

-----------------------------------------------------------------------------
(* Each request of the web clients is under way only where it is made at all. *)
InUse(r) ==
    /\ pc[r] \in {"check_vehicle", "book_slot"} => "book" \in Endpoints
    /\ pc[r] = "add_funds" => "top_up" \in Endpoints
    /\ pc[r] \in {"read_close_slot", "force_close"} => "force_close" \in Endpoints

UseInv == \A r \in Request : InUse(r)

LEMMA UseAnswered ==
    ASSUME BaseInv, NEW r \in Request,
           NEW label \in LoopLabels \cup Answers \cup {"idle", "sleep", "override"},
           Goto(r, label)
    PROVE  InUse(r)'
<1>1. pc'[r] = label
    BY BaseFacts DEF Goto
<1>2. QED
    BY <1>1 DEF InUse, LoopLabels, Answers

LEMMA UseReceive ==
    ASSUME BaseInv, NEW r \in Request, Receive(r)
    PROVE  InUse(r)'
<1>1. CASE \E w \in Worker, op \in GateOps : Arrive(r, w, op)
    BY <1>1, UseAnswered DEF Arrive, Start, LoopLabels
<1>2. CASE \E w \in Worker, v \in Vehicle, p \in Slot : StartBook(r, w, v, p)
    BY <1>2, BaseFacts DEF StartBook, StartThread, Start, Goto, InUse
<1>3. CASE \E w \in Worker, u \in User, amount \in TopUp : StartTopUp(r, w, u, amount)
    BY <1>3, BaseFacts DEF StartTopUp, StartThread, Start, Goto, InUse
<1>4. CASE \E w \in Worker, s \in SessionId : StartForceClose(r, w, s)
    BY <1>4, BaseFacts DEF StartForceClose, StartThread, Start, Goto, InUse
<1>5. CASE \E w \in Worker, p \in Slot, status \in SlotStatus : StartOverride(r, w, p, status)
    BY <1>5, UseAnswered DEF StartOverride, StartThread, Start
<1>6. QED
    BY <1>1, <1>2, <1>3, <1>4, <1>5 DEF Receive

LEMMA UseGate ==
    ASSUME BaseInv, NEW r \in Request, WakeUp(r) \/ OcrStep(r) \/ EntryStep(r) \/ ExitStep(r)
    PROVE  InUse(r)'
<1>1. \/ \E action \in Answers : Goto(r, action)
      \/ \E label \in {"ocr", "sleep", "check", "find_slot", "open_session", "read_wallet",
                        "read_exit_slot", "close_session"} : Goto(r, label)
  <2>1. CASE WakeUp(r) \/ OcrStep(r)
    BY <2>1 DEF WakeUp, OcrStep, RetryOcr, OcrFails, ReadPlate, Answer, Answers
  <2>2. CASE EntryStep(r)
    BY <2>2 DEF EntryStep, RefuseDoubleEntry, CheckNotParked, RefuseFull, FindSlot,
                OpenSession, Answer, Answers
  <2>3. CASE RefuseNoSession(r) \/ RefuseUnpaid(r) \/ CloseSession(r)
    BY <2>3 DEF RefuseNoSession, RefuseUnpaid, CloseSession, Answer, Answers
  <2>4. CASE FindSession(r) \/ ReadWallet(r) \/ ReadExitSlot(r)
    <3>1. Goto(r, "read_wallet") \/ Goto(r, "read_exit_slot") \/ Goto(r, "close_session")
      BY <2>4, Zenon DEF FindSession, ReadWallet, ReadExitSlot
    <3>2. QED
      BY <3>1
  <2>5. QED
    BY <2>1, <2>2, <2>3, <2>4 DEF ExitStep
<1>2. QED
    BY <1>1, UseAnswered DEF LoopLabels

LEMMA UseWeb ==
    ASSUME BaseInv, UseInv, NEW r \in Request, WebStep(r)
    PROVE  InUse(r)'
<1>1. CASE Finish(r)
    BY <1>1, UseAnswered DEF Finish
<1>2. CASE CheckVehicle(r) /\ Goto(r, "book_slot")
    BY <1>2, BaseFacts DEF CheckVehicle, Goto, UseInv, InUse
<1>3. CASE ReadCloseSlot(r)
    BY <1>3, BaseFacts DEF ReadCloseSlot, Goto, UseInv, InUse
<1>4. QED
    BY <1>1, <1>2, <1>3 DEF WebStep, CheckVehicle, BookSlot, AddFunds, ForceClose, Override

LEMMA UseCorrect == Spec => []UseInv
<1>1. Init => UseInv
    BY DEF Init, UseInv, InUse
<1>2. BaseInv /\ UseInv /\ [Next]_vars => UseInv'
  <2> SUFFICES ASSUME BaseInv, UseInv, [Next]_vars
               PROVE  UseInv'
    OBVIOUS
  <2>1. ASSUME NEW r \in Request,
               Receive(r) \/ WakeUp(r) \/ OcrStep(r) \/ EntryStep(r) \/ ExitStep(r) \/ WebStep(r)
        PROVE  UseInv'
    <3>1. InUse(r)'
      BY <2>1, UseReceive, UseGate, UseWeb
    <3>2. StepOK(r)
      BY <2>1, ReceiveStep, WakeUpOK, OcrStepOK, EntryStepOK, ExitStepOK, WebStepOK
    <3>3. QED
      BY <3>1, <3>2 DEF StepOK, OthersKeep, UseInv, InUse
  <2>2. CASE \E w \in Worker : Crash(w)
    <3>1. \A r \in Request : pc'[r] = "idle" \/ pc'[r] = pc[r]
      BY <2>2 DEF Crash
    <3>2. QED
      BY <3>1 DEF UseInv, InUse
  <2>3. CASE Tick \/ UNCHANGED vars
    BY <2>3 DEF Tick, vars, UseInv, InUse
  <2>4. QED
    BY <2>1, <2>2, <2>3 DEF Next
<1>3. QED
    BY <1>1, <1>2, BaseCorrect, PTL DEF Spec

-----------------------------------------------------------------------------
(* Handlers that run alone do what ParkingLot says.  As long as no other
   handler is between its first query and its commit, what a handler has read
   is still what the tables hold when it writes; a coroutine at the OCR has
   read nothing yet, and the row it writes when it gives up or does not know
   the plate is a denied one, which no query of a handler returns. *)

Reading(r) == pc[r] \in PlateLabels \cup WebLabels

Alone == \A q, r \in Request : Reading(q) /\ Reading(r) => q = r

(* The request was taken at some time up to now, at a gate that is in use. *)
TookRequest(r) ==
    /\ req[r].op \in GateOps
    /\ req[r].op \in {"legacy_entry", "legacy_exit"} => "legacy" \in Endpoints
    /\ req[r].time <= now

(* What a coroutine has read so far is what it would read now. *)
GateReads(r) ==
    /\ pc[r] \in {"find_slot", "open_session"} => ActiveSessions(req[r].vehicle) = {}
    /\ pc[r] = "open_session" => FirstAvailable(req[r].slot)
    /\ pc[r] \in ExitLabels =>
          /\ req[r].op \in ExitOps
          /\ req[r].session \in ActiveSessions(req[r].vehicle)
          /\ req[r].slot = sessions[req[r].session].slot
          /\ req[r].amount = Fee(sessions[req[r].session].entry, req[r].time)
    /\ pc[r] \in {"read_exit_slot", "close_session"} =>
          req[r].user = owner[req[r].vehicle] /\ req[r].funds = balance[req[r].user]
    /\ pc[r] = "close_session" => req[r].seen = slotStatus[req[r].slot]

(* What a thread has read so far is what it would read now. *)
WebReads(r) ==
    /\ pc[r] \in {"check_vehicle", "book_slot"} =>
          Registered(req[r].vehicle) /\ slotStatus[req[r].slot] = "available"
    /\ pc[r] = "book_slot" => ActiveSessions(req[r].vehicle) = {}
    /\ pc[r] = "add_funds" =>
          /\ req[r].amount \in TopUp
          /\ req[r].funds = balance[req[r].user]
          /\ credited[req[r].user] + req[r].amount <= MaxCredit
    /\ pc[r] \in {"read_close_slot", "force_close"} =>
          /\ sessions[req[r].session].status = "active"
          /\ req[r].slot = sessions[req[r].session].slot
    /\ pc[r] \in {"force_close", "override"} => req[r].seen = slotStatus[req[r].slot]

SerialOK(r) ==
    /\ pc[r] \in LoopLabels \cup {"sleep"} => TookRequest(r)
    /\ GateReads(r)
    /\ WebReads(r)

SerialInv == \A r \in Request : SerialOK(r)

(* A denied row is returned by no query of a handler. *)
Returned == {"active", "completed"}

LEMMA DeniedUnseen ==
    ASSUME BaseInv, NEW v \in Vehicle \cup {NULL}, NEW q \in Vehicle \cup {NULL},
           Insert(DeniedRow(v, q)), NEW s \in SessionId,
           sessions[s].status \in Returned \/ sessions'[s].status \in Returned
    PROVE  sessions'[s] = sessions[s]
<1> DEFINE row == DeniedRow(v, q)
<1>1. row.status = "denied" /\ Insert(row)
    BY RowTypes
<1> HIDE DEF row
<1>2. QED
    BY <1>1, BaseFacts DEF Insert, Returned

(* A step after which every query answers as before. *)
QueriesKept ==
    /\ \A s \in SessionId :
          sessions[s].status \in Returned \/ sessions'[s].status \in Returned
          => sessions'[s] = sessions[s]
    /\ UNCHANGED <<now, slotStatus, owner, money>>

(* A step of r writes while no other handler is reading, or nothing that
   another one has read. *)
LEMMA SerialOthers ==
    ASSUME Alone, BaseInv, SerialInv, NEW r \in Request, StepOK(r), now' = now,
           Reading(r) \/ QueriesKept, NEW q \in Request \ {r}
    PROVE  SerialOK(q)'
<1>1. pc'[q] = pc[q] /\ req'[q] = req[q] /\ SerialOK(q)
    BY DEF StepOK, OthersKeep, SerialInv
<1>2. TookRequest(q) => TookRequest(q)'
    BY <1>1 DEF TookRequest
<1>3. CASE Reading(r)
  <2>1. pc'[q] \notin PlateLabels \cup WebLabels
    BY <1>1, <1>3 DEF Alone, Reading
  <2>2. GateReads(q)' /\ WebReads(q)'
    BY <2>1 DEF PlateLabels, LoopLabels, WebLabels, ExitLabels, GateReads, WebReads
  <2>3. QED
    BY <1>1, <1>2, <2>2 DEF SerialOK
<1>4. CASE QueriesKept
  <2>1. \A v : ActiveSessions(v)' = ActiveSessions(v)
    BY <1>4 DEF QueriesKept, Returned, ActiveSessions
  <2>2. /\ slotStatus' = slotStatus /\ owner' = owner /\ balance' = balance
        /\ credited' = credited
    BY <1>4 DEF QueriesKept, money
  <2>3. \A p : FirstAvailable(p)' <=> FirstAvailable(p)
    BY <2>2 DEF FirstAvailable, AvailableSlots
  <2>4. \A s \in SessionId : sessions[s].status = "active" => sessions'[s] = sessions[s]
    BY <1>4 DEF QueriesKept, Returned
  <2>5. GateReads(q)'
    <3>1. pc[q] \in ExitLabels =>
            sessions'[req[q].session] = sessions[req[q].session]
      BY <1>1, <2>4 DEF SerialOK, GateReads, ActiveSessions
    <3>2. \A a, b : Fee(a, b)' = Fee(a, b)
      BY DEF Fee
    <3>3. GateReads(q)
      BY <1>1 DEF SerialOK
    <3> HIDE DEF ActiveSessions, FirstAvailable, Fee
    <3>4. QED
      BY <1>1, <2>1, <2>2, <2>3, <3>1, <3>2, <3>3 DEF GateReads, ExitLabels
  <2>6. WebReads(q)'
    <3>1. pc[q] \in {"read_close_slot", "force_close"} =>
            sessions'[req[q].session] = sessions[req[q].session]
      BY <1>1, <2>4 DEF SerialOK, WebReads, BaseInv, LocalsFilled, HasSession
    <3>2. WebReads(q)
      BY <1>1 DEF SerialOK
    <3>3. QED
      BY <1>1, <2>1, <2>2, <3>1, <3>2 DEF WebReads, Registered
  <2>7. QED
    BY <1>1, <1>2, <2>5, <2>6 DEF SerialOK
<1>5. QED
    BY <1>3, <1>4

LEMMA TablesUnseen ==
    ASSUME UNCHANGED tables
    PROVE  QueriesKept /\ now' = now
BY DEF tables, QueriesKept

LEMMA OneInLoop ==
    ASSUME OneWorker, BaseInv, NEW r \in Request, pc[r] \in LoopLabels,
           NEW q \in Request \ {r}
    PROVE  pc[q] \notin LoopLabels
BY DEF OneWorker, BaseInv, HoldsLoop

(* A step of ParkingLot on the same tables. *)
LotStep == [Lot!Next]_(Lot!vars)

LEMMA LotStutters ==
    ASSUME UNCHANGED tables
    PROVE  LotStep
BY DEF LotStep, Lot!vars, Lot!tables, Lot!money, tables, money

LEMMA SerialAnswered ==
    ASSUME BaseInv, NEW r \in Request, NEW label \in Answers \cup {"idle"}, Goto(r, label)
    PROVE  SerialOK(r)'
<1>1. pc'[r] = label
    BY BaseFacts DEF Goto
<1>2. QED
    BY <1>1 DEF SerialOK, GateReads, WebReads, Answers, LoopLabels, ExitLabels

(* A step of r that changes no table. *)
LEMMA SerialReads ==
    ASSUME Alone, BaseInv, SerialInv, NEW r \in Request, StepOK(r), UNCHANGED tables,
           SerialOK(r)'
    PROVE  SerialInv' /\ LotStep
BY SerialOthers, TablesUnseen, LotStutters DEF SerialInv

LEMMA SerialArrive ==
    ASSUME Alone, BaseInv, SerialInv, NEW r \in Request, NEW w \in Worker,
           NEW op \in GateOps, Arrive(r, w, op)
    PROVE  SerialInv' /\ LotStep
<1>1. StepOK(r)
    BY ReceiveStep DEF Receive
<1>2. /\ pc' = [pc EXCEPT ![r] = "ocr"]
      /\ req' = [req EXCEPT ![r] = [[NoLocals EXCEPT !.op = op, !.attempt = 1, !.time = now]
                                    EXCEPT !.worker = w]]
      /\ op \in {"legacy_entry", "legacy_exit"} => "legacy" \in Endpoints
      /\ UNCHANGED tables
    BY DEF Arrive, Start, Goto
<1>3. pc'[r] = "ocr" /\ req'[r].op = op /\ req'[r].time = now
    BY <1>2, BaseFacts DEF NoLocals
<1>4. now' = now /\ now \in Nat
    BY <1>2, BaseFacts DEF tables
<1>5. SerialOK(r)'
    BY <1>2, <1>3, <1>4 DEF SerialOK, TookRequest, GateReads, WebReads, ExitLabels
<1>6. QED
    BY <1>1, <1>2, <1>5, SerialReads

LEMMA SerialStartBook ==
    ASSUME Alone, BaseInv, SerialInv, NEW r \in Request, NEW w \in Worker,
           NEW v \in Vehicle, NEW p \in Slot, StartBook(r, w, v, p)
    PROVE  SerialInv' /\ LotStep
<1>1. StepOK(r)
    BY ReceiveStep DEF Receive
<1>2. /\ pc' = [pc EXCEPT ![r] = "check_vehicle"]
      /\ req' = [req EXCEPT ![r] = [[NoLocals EXCEPT !.op = "book", !.vehicle = v, !.slot = p]
                                    EXCEPT !.worker = w]]
      /\ Registered(v) /\ slotStatus[p] = "available" /\ UNCHANGED tables
    BY DEF StartBook, StartThread, Start, Goto
<1>3. pc'[r] = "check_vehicle" /\ req'[r].vehicle = v /\ req'[r].slot = p
    BY <1>2, BaseFacts DEF NoLocals
<1>4. owner' = owner /\ slotStatus' = slotStatus
    BY <1>2 DEF tables
<1>5. SerialOK(r)'
    BY <1>2, <1>3, <1>4 DEF SerialOK, GateReads, WebReads, Registered, LoopLabels, ExitLabels
<1>6. QED
    BY <1>1, <1>2, <1>5, SerialReads

LEMMA SerialStartTopUp ==
    ASSUME Alone, BaseInv, SerialInv, NEW r \in Request, NEW w \in Worker,
           NEW u \in User, NEW amount \in TopUp, StartTopUp(r, w, u, amount)
    PROVE  SerialInv' /\ LotStep
<1>1. StepOK(r)
    BY ReceiveStep DEF Receive
<1>2. /\ pc' = [pc EXCEPT ![r] = "add_funds"]
      /\ req' = [req EXCEPT ![r] =
                   [[NoLocals EXCEPT !.op = "top_up", !.user = u, !.funds = balance[u],
                                     !.amount = amount] EXCEPT !.worker = w]]
      /\ credited[u] + amount <= MaxCredit /\ UNCHANGED tables
    BY DEF StartTopUp, StartThread, Start, Goto
<1>3. /\ pc'[r] = "add_funds" /\ req'[r].user = u /\ req'[r].amount = amount
      /\ req'[r].funds = balance[u]
    BY <1>2, BaseFacts DEF NoLocals
<1>4. balance' = balance /\ credited' = credited
    BY <1>2 DEF tables, money
<1>5. SerialOK(r)'
    BY <1>2, <1>3, <1>4 DEF SerialOK, GateReads, WebReads, LoopLabels, ExitLabels
<1>6. QED
    BY <1>1, <1>2, <1>5, SerialReads

LEMMA SerialStartForceClose ==
    ASSUME Alone, BaseInv, SerialInv, NEW r \in Request, NEW w \in Worker,
           NEW s \in SessionId, StartForceClose(r, w, s)
    PROVE  SerialInv' /\ LotStep
<1>1. StepOK(r)
    BY ReceiveStep DEF Receive
<1>2. /\ pc' = [pc EXCEPT ![r] = "read_close_slot"]
      /\ req' = [req EXCEPT ![r] =
                   [[NoLocals EXCEPT !.op = "force_close", !.session = s,
                                     !.slot = sessions[s].slot] EXCEPT !.worker = w]]
      /\ sessions[s].status = "active" /\ UNCHANGED tables
    BY DEF StartForceClose, ForceClosable, StartThread, Start, Goto
<1>3. pc'[r] = "read_close_slot" /\ req'[r].session = s /\ req'[r].slot = sessions[s].slot
    BY <1>2, BaseFacts DEF NoLocals
<1>4. sessions' = sessions
    BY <1>2 DEF tables
<1>5. SerialOK(r)'
    BY <1>2, <1>3, <1>4 DEF SerialOK, GateReads, WebReads, LoopLabels, ExitLabels
<1>6. QED
    BY <1>1, <1>2, <1>5, SerialReads

LEMMA SerialStartOverride ==
    ASSUME Alone, BaseInv, SerialInv, NEW r \in Request, NEW w \in Worker,
           NEW p \in Slot, NEW status \in SlotStatus, StartOverride(r, w, p, status)
    PROVE  SerialInv' /\ LotStep
<1>1. StepOK(r)
    BY ReceiveStep DEF Receive
<1>2. /\ pc' = [pc EXCEPT ![r] = "override"]
      /\ req' = [req EXCEPT ![r] =
                   [[NoLocals EXCEPT !.op = "override", !.slot = p, !.status = status,
                                     !.seen = slotStatus[p]] EXCEPT !.worker = w]]
      /\ UNCHANGED tables
    BY DEF StartOverride, StartThread, Start, Goto
<1>3. pc'[r] = "override" /\ req'[r].slot = p /\ req'[r].seen = slotStatus[p]
    BY <1>2, BaseFacts DEF NoLocals
<1>4. slotStatus' = slotStatus
    BY <1>2 DEF tables
<1>5. SerialOK(r)'
    BY <1>2, <1>3, <1>4 DEF SerialOK, GateReads, WebReads, LoopLabels, ExitLabels
<1>6. QED
    BY <1>1, <1>2, <1>5, SerialReads

(* A statement that only reads: the coroutine moves on within the loop, or to
   its sleep and back. *)
LEMMA GateMoves ==
    ASSUME Alone, BaseInv, SerialInv, NEW r \in Request, StepOK(r), UNCHANGED tables,
           pc[r] \in LoopLabels \cup {"sleep"}, pc'[r] \in LoopLabels \cup {"sleep"},
           req'[r].op = req[r].op, req'[r].time = req[r].time, GateReads(r)'
    PROVE  SerialInv' /\ LotStep
<1>1. now' = now
    BY DEF tables
<1>2. WebReads(r)'
    BY DEF WebReads, LoopLabels
<1>3. SerialOK(r)'
    BY <1>1, <1>2 DEF SerialInv, SerialOK, TookRequest
<1>4. QED
    BY <1>3, SerialReads

LEMMA GateWakeUp ==
    ASSUME Alone, BaseInv, SerialInv, NEW r \in Request, WakeUp(r) \/ RetryOcr(r)
    PROVE  SerialInv' /\ LotStep
<1>1. StepOK(r)
    BY WakeUpOK, OcrStepOK DEF OcrStep
<1>2. /\ pc[r] \in {"ocr", "sleep"} /\ pc'[r] \in {"ocr", "sleep"}
      /\ req'[r].op = req[r].op /\ req'[r].time = req[r].time /\ UNCHANGED tables
    BY BaseFacts DEF WakeUp, RetryOcr, Goto, Locals
<1>3. GateReads(r)'
    BY <1>2 DEF GateReads, ExitLabels
<1>4. QED
    BY <1>1, <1>2, <1>3, GateMoves DEF LoopLabels

LEMMA GateReadPlate ==
    ASSUME Alone, BaseInv, SerialInv, NEW r \in Request, NEW v \in Vehicle,
           ReadPlate(r, v), Registered(v)
    PROVE  SerialInv' /\ LotStep
<1>1. StepOK(r)
    BY OcrStepOK DEF OcrStep
<1>2. /\ pc[r] = "ocr" /\ Goto(r, "check") /\ req' = [req EXCEPT ![r].vehicle = v]
      /\ UNCHANGED tables
    BY DEF ReadPlate, tables
<1>3. pc'[r] = "check" /\ req'[r].op = req[r].op /\ req'[r].time = req[r].time
    BY <1>2, BaseFacts DEF Goto, Locals
<1>4. GateReads(r)'
    BY <1>3 DEF GateReads, ExitLabels
<1>5. QED
    BY <1>1, <1>2, <1>3, <1>4, GateMoves DEF LoopLabels

LEMMA GateEntryReads ==
    ASSUME Alone, BaseInv, SerialInv, NEW r \in Request, CheckNotParked(r) \/ FindSlot(r)
    PROVE  SerialInv' /\ LotStep
<1>1. StepOK(r) /\ UNCHANGED tables
    BY EntryStepOK DEF EntryStep, CheckNotParked, FindSlot
<1>2. CASE CheckNotParked(r)
  <2>1. /\ pc[r] = "check" /\ pc'[r] = "find_slot" /\ req' = req
        /\ ActiveSessions(req[r].vehicle) = {}
    BY <1>2, BaseFacts DEF CheckNotParked, Goto
  <2>2. GateReads(r)'
    BY <1>1, <2>1 DEF GateReads, ExitLabels, ActiveSessions, tables
  <2>3. QED
    BY <1>1, <2>1, <2>2, GateMoves DEF LoopLabels
<1>3. CASE FindSlot(r)
  <2>1. PICK p \in Slot : FirstAvailable(p) /\ req' = [req EXCEPT ![r].slot = p]
    BY <1>3 DEF FindSlot
  <2>2. pc[r] = "find_slot" /\ pc'[r] = "open_session"
    BY <1>3, BaseFacts DEF FindSlot, Goto
  <2>3. /\ req'[r].slot = p /\ req'[r].vehicle = req[r].vehicle
        /\ req'[r].op = req[r].op /\ req'[r].time = req[r].time
    BY <2>1, BaseFacts DEF Locals
  <2>4. ActiveSessions(req[r].vehicle) = {}
    BY <2>2 DEF SerialInv, SerialOK, GateReads
  <2>5. GateReads(r)'
    BY <1>1, <2>1, <2>2, <2>3, <2>4
       DEF GateReads, ExitLabels, ActiveSessions, FirstAvailable, AvailableSlots, tables
  <2>6. QED
    BY <1>1, <2>2, <2>3, <2>5, GateMoves DEF LoopLabels
<1>4. QED
    BY <1>1, <1>2, <1>3

LEMMA GateExitReads ==
    ASSUME Alone, BaseInv, SerialInv, NEW r \in Request,
           FindSession(r) \/ ReadWallet(r) \/ ReadExitSlot(r)
    PROVE  SerialInv' /\ LotStep
<1>1. StepOK(r) /\ UNCHANGED tables
    BY ExitStepOK DEF ExitStep, FindSession, ReadWallet, ReadExitSlot
<1>2. CASE FindSession(r)
  <2>1. PICK s \in ActiveSessions(req[r].vehicle) :
            req' = [req EXCEPT ![r].session = s, ![r].slot = sessions[s].slot,
                               ![r].amount = Fee(sessions[s].entry, req[r].time)]
    BY <1>2 DEF FindSession
  <2>2. pc[r] = "check" /\ pc'[r] = "read_wallet" /\ req[r].op \in ExitOps
    BY <1>2, BaseFacts DEF FindSession, Goto
  <2>3. /\ req'[r].session = s /\ req'[r].slot = sessions[s].slot
        /\ req'[r].amount = Fee(sessions[s].entry, req[r].time)
        /\ req'[r].op = req[r].op /\ req'[r].time = req[r].time
        /\ req'[r].vehicle = req[r].vehicle
    BY <2>1, BaseFacts DEF Locals
  <2>4. GateReads(r)'
    BY <1>1, <2>1, <2>2, <2>3 DEF GateReads, ExitLabels, ActiveSessions, Fee, tables
  <2>5. QED
    BY <1>1, <2>2, <2>3, <2>4, GateMoves DEF LoopLabels
<1>3. CASE ReadWallet(r)
  <2>1. /\ pc[r] = "read_wallet" /\ pc'[r] = "read_exit_slot"
        /\ req' = [req EXCEPT ![r].user = owner[req[r].vehicle], ![r].funds = Wallet(r)]
    BY <1>3, BaseFacts DEF ReadWallet, Goto
  <2>2. /\ req'[r].user = owner[req[r].vehicle] /\ req'[r].funds = balance[req'[r].user]
        /\ req'[r].session = req[r].session /\ req'[r].slot = req[r].slot
        /\ req'[r].amount = req[r].amount /\ req'[r].op = req[r].op
        /\ req'[r].time = req[r].time /\ req'[r].vehicle = req[r].vehicle
    BY <2>1, BaseFacts DEF Locals, Wallet
  <2>3. GateReads(r)
    BY DEF SerialInv, SerialOK
  <2>4. GateReads(r)'
    BY <1>1, <2>1, <2>2, <2>3 DEF GateReads, ExitLabels, ActiveSessions, Fee, tables, money
  <2>5. QED
    BY <1>1, <2>1, <2>2, <2>4, GateMoves DEF LoopLabels
<1>4. CASE ReadExitSlot(r)
  <2>1. /\ pc[r] = "read_exit_slot" /\ pc'[r] = "close_session"
        /\ req' = [req EXCEPT ![r].seen = slotStatus[req[r].slot]]
    BY <1>4, BaseFacts DEF ReadExitSlot, Goto
  <2>2. /\ req'[r].seen = slotStatus[req[r].slot]
        /\ req'[r].user = req[r].user /\ req'[r].funds = req[r].funds
        /\ req'[r].session = req[r].session /\ req'[r].slot = req[r].slot
        /\ req'[r].amount = req[r].amount /\ req'[r].op = req[r].op
        /\ req'[r].time = req[r].time /\ req'[r].vehicle = req[r].vehicle
    BY <2>1, BaseFacts DEF Locals
  <2>3. GateReads(r)
    BY DEF SerialInv, SerialOK
  <2>4. GateReads(r)'
    BY <1>1, <2>1, <2>2, <2>3 DEF GateReads, ExitLabels, ActiveSessions, Fee, tables, money
  <2>5. QED
    BY <1>1, <2>1, <2>2, <2>4, GateMoves DEF LoopLabels
<1>5. QED
    BY <1>1, <1>2, <1>3, <1>4, SMTT(30)

(* The commits and the refusals. *)
GateAnswer(r) ==
    \/ OcrFails(r)
    \/ \E v \in Vehicle : ReadPlate(r, v) /\ ~Registered(v)
    \/ RefuseDoubleEntry(r) \/ RefuseFull(r) \/ OpenSession(r)
    \/ RefuseNoSession(r) \/ RefuseUnpaid(r) \/ CloseSession(r)

LEMMA GateAnswers ==
    ASSUME Alone, BaseInv, SerialInv, NEW r \in Request, GateAnswer(r)
    PROVE  SerialInv'
<1>1. StepOK(r)
    BY OcrStepOK, EntryStepOK, ExitStepOK DEF GateAnswer, OcrStep, EntryStep, ExitStep
<1>2. now' = now
    BY DEF GateAnswer, OcrFails, ReadPlate, RefuseDoubleEntry, RefuseFull, OpenSession,
           RefuseNoSession, RefuseUnpaid, CloseSession, tables
<1>3. \E action \in Answers : Goto(r, action)
    BY DEF GateAnswer, OcrFails, ReadPlate, RefuseDoubleEntry, RefuseFull, OpenSession,
           RefuseNoSession, RefuseUnpaid, CloseSession, Answer, Answers
<1>4. SerialOK(r)'
    BY <1>3, SerialAnswered
<1>5. Reading(r) \/ QueriesKept
  <2>1. CASE OcrFails(r)
    <3>1. sessions' = sessions \/ Insert(DeniedRow(NULL, NULL))
      BY <2>1 DEF OcrFails
    <3>2. UNCHANGED <<now, slotStatus, owner, money>>
      BY <2>1 DEF OcrFails
    <3>3. QED
      BY <3>1, <3>2, DeniedUnseen DEF QueriesKept
  <2>2. ASSUME NEW v \in Vehicle, ReadPlate(r, v), ~Registered(v)
        PROVE  QueriesKept
    BY <2>2, DeniedUnseen DEF ReadPlate, QueriesKept
  <2>3. CASE RefuseDoubleEntry(r) \/ RefuseFull(r) \/ OpenSession(r) \/ RefuseNoSession(r)
             \/ RefuseUnpaid(r) \/ CloseSession(r)
    BY <2>3 DEF RefuseDoubleEntry, RefuseFull, OpenSession, RefuseNoSession, RefuseUnpaid,
                CloseSession, Reading, PlateLabels, LoopLabels
  <2>4. QED
    BY <2>1, <2>2, <2>3 DEF GateAnswer
<1>6. QED
    BY <1>1, <1>2, <1>4, <1>5, SerialOthers DEF SerialInv

LEMMA SerialCrash ==
    ASSUME BaseInv, SerialInv, NEW w \in Worker, Crash(w)
    PROVE  SerialInv' /\ LotStep
<1>1. UNCHANGED tables
    BY DEF Crash
<1>2. ASSUME NEW r \in Request
      PROVE  SerialOK(r)'
  <2>1. SerialOK(r) /\ (pc'[r] = "idle" \/ (pc'[r] = pc[r] /\ req'[r] = req[r]))
    BY DEF Crash, SerialInv
  <2>2. CASE pc'[r] = "idle"
    BY <2>2 DEF SerialOK, GateReads, WebReads, LoopLabels, ExitLabels
  <2>3. CASE pc'[r] = pc[r] /\ req'[r] = req[r]
    BY <1>1, <2>1, <2>3 DEF SerialOK, TookRequest, GateReads, WebReads, ActiveSessions,
                            FirstAvailable, AvailableSlots, Registered, tables, money
  <2>4. QED
    BY <2>1, <2>2, <2>3
<1>3. QED
    BY <1>1, <1>2, LotStutters DEF SerialInv

LEMMA SerialTick ==
    ASSUME BaseInv, SerialInv, Tick \/ UNCHANGED vars
    PROVE  SerialInv'
<1>1. /\ now' = now \/ now' = now + 1
      /\ UNCHANGED <<slotStatus, sessions, owner, balance, credited, pc, req>>
    BY DEF Tick, vars, tables, money
<1>2. ASSUME NEW r \in Request
      PROVE  SerialOK(r)'
  <2>1. SerialOK(r) /\ pc'[r] = pc[r] /\ req'[r] = req[r]
    BY <1>1 DEF SerialInv
  <2>2. GateReads(r)' /\ WebReads(r)'
    BY <1>1, <2>1 DEF SerialOK, GateReads, WebReads, ActiveSessions, FirstAvailable,
                      AvailableSlots, Registered
  <2>3. pc[r] \in LoopLabels \cup {"sleep"} => req[r].time \in Nat
    BY DEF BaseInv, LocalsFilled, PlateLabels, LoopLabels
  <2>4. pc[r] \in LoopLabels \cup {"sleep"} => TookRequest(r)'
    BY <1>1, <2>1, <2>3, BaseFacts DEF SerialOK, TookRequest
  <2>5. QED
    BY <2>1, <2>2, <2>4 DEF SerialOK
<1>3. QED
    BY <1>2 DEF SerialInv

(* The queries and row values of both modules are the same ones. *)
LEMMA LotQueries ==
    /\ \A v \in Vehicle : Lot!Registered(v) <=> Registered(v)
    /\ \A v \in Vehicle : Lot!ActiveSessions(v) = ActiveSessions(v)
    /\ Lot!AvailableSlots = AvailableSlots
    /\ \A p \in Slot : Lot!FirstAvailable(p) <=> FirstAvailable(p)
    /\ \A p \in Slot : Lot!Freed(p) = Freed(p)
BY DEF Lot!Registered, Registered, Lot!ActiveSessions, ActiveSessions, Lot!AvailableSlots,
       AvailableSlots, Lot!FirstAvailable, FirstAvailable, Lot!Freed, Freed

LEMMA LotRows ==
    /\ \A v, q : Lot!DeniedRow(v, q) = DeniedRow(v, q)
    /\ \A v, p, t : Lot!ActiveRow(v, p, t) = ActiveRow(v, p, t)
    /\ \A row, fee : Lot!Completed(row, fee) = Completed(row, fee)
    /\ \A row : Lot!Insert(row) <=> Insert(row)
    /\ \A a, b : Lot!Fee(a, b) = Fee(a, b)
    /\ \A funds, fee : Lot!CanPay(funds, fee) <=> CanPay(funds, fee)
BY DEF Lot!DeniedRow, DeniedRow, Lot!ActiveRow, ActiveRow, Lot!NoRow, NoRow, Lot!Completed,
       Completed, Lot!Insert, Insert, Lot!Fee, Fee, Lot!ParkingCost, ParkingCost,
       Lot!StartedHours, StartedHours, Lot!AtLeastOne, AtLeastOne, Lot!SecondsPerHour,
       SecondsPerHour, Lot!FIRST_HOUR_RATE, FIRST_HOUR_RATE, Lot!ADDITIONAL_HOUR_RATE,
       ADDITIONAL_HOUR_RATE, Lot!CanPay, CanPay

(* A refusal is the one of ParkingLot, or writes nothing. *)
LEMMA LotDenied ==
    ASSUME NEW v \in Vehicle, UNCHANGED <<now, slotStatus, owner, money>>,
           \/ ~Registered(v) /\ Insert(DeniedRow(NULL, v))
           \/ Registered(v) /\ ActiveSessions(v) = {} /\ Insert(DeniedRow(v, v))
    PROVE  LotStep
<1>1. Lot!DenyExit(v)
    BY LotQueries, LotRows DEF Lot!DenyExit, Lot!money, money
<1>2. QED
    BY <1>1 DEF LotStep, Lot!Next, Lot!Gates

LEMMA LotUnreadable ==
    ASSUME BaseInv, SerialInv, NEW r \in Request, OcrFails(r)
    PROVE  LotStep
<1>1. pc[r] = "ocr" /\ TookRequest(r) /\ UNCHANGED <<now, slotStatus, owner, money>>
    BY DEF OcrFails, SerialInv, SerialOK, LoopLabels
<1>2. CASE req[r].op \in {"entry", "exit"}
    BY <1>1, <1>2, LotStutters DEF OcrFails, tables, money
<1>3. CASE req[r].op \notin {"entry", "exit"}
  <2>1. "legacy" \in Endpoints /\ Insert(DeniedRow(NULL, NULL))
    BY <1>1, <1>3 DEF OcrFails, TookRequest, GateOps
  <2>2. Lot!DenyUnreadable
    BY <1>1, <2>1, LotRows DEF Lot!DenyUnreadable, Lot!money, money
  <2>3. QED
    BY <2>2 DEF LotStep, Lot!Next, Lot!Gates
<1>4. QED
    BY <1>2, <1>3

LEMMA LotFull ==
    ASSUME BaseInv, SerialInv, NEW r \in Request, RefuseFull(r)
    PROVE  LotStep
<1> DEFINE v == req[r].vehicle
<1>1. /\ v \in Vehicle /\ Registered(v) /\ ActiveSessions(v) = {}
      /\ Insert(DeniedRow(v, v)) /\ UNCHANGED <<now, slotStatus, owner, money>>
    BY NullAssumption
       DEF RefuseFull, BaseInv, LocalsFilled, PlateLabels, LoopLabels, Registered, SerialInv,
           SerialOK, GateReads
<1> HIDE DEF v
<1>2. QED
    BY <1>1, LotDenied

LEMMA LotOpened ==
    ASSUME BaseInv, SerialInv, NEW r \in Request, OpenSession(r)
    PROVE  LotStep
<1> DEFINE v == req[r].vehicle
           p == req[r].slot
           t == req[r].time
<1>1. /\ pc[r] = "open_session" /\ UNCHANGED <<now, owner, money>>
      /\ slotStatus' = [slotStatus EXCEPT ![p] = "occupied"]
      /\ Insert(ActiveRow(v, p, t))
    BY DEF OpenSession
<1>2. v \in Vehicle /\ p \in Slot /\ t \in Nat /\ Registered(v)
    BY <1>1, NullAssumption DEF BaseInv, LocalsFilled, PlateLabels, LoopLabels, Registered
<1>3. TookRequest(r) /\ ActiveSessions(v) = {} /\ FirstAvailable(p)
    BY <1>1 DEF SerialInv, SerialOK, GateReads, LoopLabels
<1>a. t \in 0 .. now
    BY <1>2, <1>3, BaseFacts DEF TookRequest
<1> HIDE DEF v, p, t
<1>4. Lot!AllowEntry(v, p, t)
    BY <1>1, <1>2, <1>3, LotQueries, LotRows DEF Lot!AllowEntry, Lot!money, money
<1>5. QED
    BY <1>2, <1>a, <1>4 DEF LotStep, Lot!Next, Lot!Gates

LEMMA LotUnpaid ==
    ASSUME BaseInv, SerialInv, NEW r \in Request, RefuseUnpaid(r)
    PROVE  LotStep
<1> DEFINE v == req[r].vehicle
           s == req[r].session
           t == req[r].time
<1>1. pc[r] = "read_wallet" /\ UNCHANGED <<now, slotStatus, owner, money>>
    BY DEF RefuseUnpaid
<1>2. v \in Vehicle /\ t \in Nat /\ Registered(v)
    BY <1>1, NullAssumption DEF BaseInv, LocalsFilled, PlateLabels, LoopLabels, Registered
<1>3. /\ TookRequest(r) /\ req[r].op \in ExitOps /\ s \in ActiveSessions(v)
      /\ req[r].amount = Fee(sessions[s].entry, t)
    BY <1>1 DEF SerialInv, SerialOK, GateReads, ExitLabels, LoopLabels
<1>4. t \in 0 .. now /\ ~CanPay(balance[owner[v]], Fee(sessions[s].entry, t))
    BY <1>2, <1>3, BaseFacts DEF TookRequest, RefuseUnpaid, Wallet
<1>5. CASE req[r].op = "exit"
    BY <1>1, <1>5, LotStutters DEF RefuseUnpaid, tables, money
<1>6. CASE req[r].op # "exit"
  <2>1. "legacy" \in Endpoints /\ Insert(DeniedRow(v, v))
    BY <1>3, <1>6 DEF RefuseUnpaid, TookRequest, ExitOps
  <2> HIDE DEF v, s, t
  <2>2. Lot!DenyUnpaidExit(v, t)
    BY <1>1, <1>2, <1>3, <1>4, <2>1, LotQueries, LotRows
       DEF Lot!DenyUnpaidExit, Lot!money, money
  <2>3. QED
    BY <1>2, <1>4, <2>2 DEF LotStep, Lot!Next, Lot!Gates
<1>7. QED
    BY <1>5, <1>6

(* The slot seen is the slot written: available already, or freed. *)
LEMMA FreedAfterClose ==
    ASSUME BaseInv, NEW r \in Request, req[r].slot \in Slot,
           req[r].seen = slotStatus[req[r].slot]
    PROVE  SlotAfterClose(r) = Freed(req[r].slot)
BY BaseFacts DEF SlotAfterClose, Freed

LEMMA LotClosed ==
    ASSUME BaseInv, SerialInv, NEW r \in Request, CloseSession(r)
    PROVE  LotStep
<1> DEFINE v == req[r].vehicle
           s == req[r].session
           t == req[r].time
           u == owner[v]
           fee == Fee(sessions[s].entry, t)
<1>1. /\ pc[r] = "close_session"
      /\ balance' = [balance EXCEPT ![req[r].user] = req[r].funds - req[r].amount]
      /\ sessions' = [sessions EXCEPT ![s] = Completed(@, req[r].amount)]
      /\ slotStatus' = SlotAfterClose(r)
      /\ charged' = [charged EXCEPT ![req[r].user] = @ + req[r].amount]
      /\ debitRows' = [debitRows EXCEPT ![s] = @ + 1]
      /\ UNCHANGED <<now, owner, credited>>
    BY DEF CloseSession
<1>2. /\ v \in Vehicle /\ t \in Nat /\ u \in User
      /\ req[r].slot \in Slot /\ req[r].funds >= req[r].amount
    BY <1>1 DEF BaseInv, LocalsFilled, HasSession, PlateLabels, LoopLabels
<1>3. /\ TookRequest(r) /\ s \in ActiveSessions(v) /\ req[r].slot = sessions[s].slot
      /\ req[r].amount = fee /\ req[r].user = u /\ req[r].funds = balance[u]
      /\ req[r].seen = slotStatus[req[r].slot]
    BY <1>1 DEF SerialInv, SerialOK, GateReads, ExitLabels, LoopLabels
<1>4. t \in 0 .. now
    BY <1>2, <1>3, BaseFacts DEF TookRequest
<1>5. Registered(v) /\ CanPay(balance[u], fee) /\ s \in SessionId
    BY <1>2, <1>3, NullAssumption DEF Registered, CanPay, ActiveSessions
<1>6. slotStatus' = Freed(sessions[s].slot) /\ sessions[s].slot \in Slot
    BY <1>1, <1>2, <1>3, FreedAfterClose
<1>7. Lot!AllowExit(v, s, t)
  <2>1. Lot!Registered(v) /\ s \in Lot!ActiveSessions(v)
    BY <1>2, <1>3, <1>5, LotQueries
  <2>2. Lot!Fee(sessions[s].entry, t) = fee /\ Lot!CanPay(balance[u], fee)
    BY <1>5, LotRows
  <2>3. sessions' = [sessions EXCEPT ![s] = Lot!Completed(@, fee)]
    BY <1>1, <1>3, LotRows
  <2>4. slotStatus' = Lot!Freed(sessions[s].slot)
    BY <1>6, LotQueries
  <2>5. balance' = [balance EXCEPT ![u] = @ - fee] /\ charged' = [charged EXCEPT ![u] = @ + fee]
    BY <1>1, <1>2, <1>3, BaseFacts
  <2> HIDE DEF v, s, t, fee
  <2>6. QED
    BY <1>1, <2>1, <2>2, <2>3, <2>4, <2>5 DEF Lot!AllowExit
<1> HIDE DEF v, s, t, u, fee
<1>8. QED
    BY <1>2, <1>4, <1>5, <1>7 DEF LotStep, Lot!Next, Lot!Gates

LEMMA LotAnswered ==
    ASSUME BaseInv, SerialInv, NEW r \in Request, GateAnswer(r)
    PROVE  LotStep
<1>1. ASSUME NEW v \in Vehicle, ReadPlate(r, v), ~Registered(v)
      PROVE  LotStep
    BY <1>1, LotDenied DEF ReadPlate
<1>2. CASE RefuseDoubleEntry(r)
    BY <1>2, LotStutters DEF RefuseDoubleEntry
<1>3. CASE RefuseNoSession(r)
  <2>1. req[r].vehicle \in Vehicle /\ Registered(req[r].vehicle)
    BY <1>3, NullAssumption
       DEF RefuseNoSession, BaseInv, LocalsFilled, PlateLabels, LoopLabels, Registered
  <2>2. QED
    BY <1>3, <2>1, LotDenied DEF RefuseNoSession
<1>4. QED
    BY <1>1, <1>2, <1>3, LotUnreadable, LotFull, LotOpened, LotUnpaid, LotClosed DEF GateAnswer

(* The threads: one query more, or the commit. *)
LEMMA SerialWebReads ==
    ASSUME Alone, BaseInv, SerialInv, NEW r \in Request,
           CheckVehicle(r) \/ ReadCloseSlot(r)
    PROVE  SerialInv' /\ LotStep
<1>1. StepOK(r) /\ UNCHANGED tables
    BY WebStepOK DEF WebStep, CheckVehicle, ReadCloseSlot
<1>2. CASE Finish(r)
    BY <1>1, <1>2, SerialAnswered, SerialReads DEF Finish
<1>3. CASE CheckVehicle(r) /\ ~Finish(r)
  <2>1. /\ pc[r] = "check_vehicle" /\ pc'[r] = "book_slot" /\ req' = req
        /\ ActiveSessions(req[r].vehicle) = {}
    BY <1>3, BaseFacts DEF CheckVehicle, Goto
  <2>2. /\ sessions' = sessions /\ slotStatus' = slotStatus /\ owner' = owner
    BY <1>1 DEF tables
  <2>3. SerialOK(r)
    BY DEF SerialInv
  <2>4. SerialOK(r)'
    BY <2>1, <2>2, <2>3 DEF SerialOK, GateReads, WebReads, ActiveSessions, Registered,
                            LoopLabels, ExitLabels
  <2>5. QED
    BY <1>1, <2>4, SerialReads
<1>4. CASE ReadCloseSlot(r)
  <2>1. /\ pc[r] = "read_close_slot" /\ pc'[r] = "force_close"
        /\ req' = [req EXCEPT ![r].seen = slotStatus[req[r].slot]]
    BY <1>4, BaseFacts DEF ReadCloseSlot, Goto
  <2>2. /\ req'[r].seen = slotStatus[req[r].slot]
        /\ req'[r].session = req[r].session /\ req'[r].slot = req[r].slot
    BY <2>1, BaseFacts DEF Locals
  <2>3. /\ sessions' = sessions /\ slotStatus' = slotStatus
    BY <1>1 DEF tables
  <2>4. SerialOK(r)
    BY DEF SerialInv
  <2>5. SerialOK(r)'
    BY <2>1, <2>2, <2>3, <2>4 DEF SerialOK, GateReads, WebReads, LoopLabels, ExitLabels
  <2>6. QED
    BY <1>1, <2>5, SerialReads
<1>5. QED
    BY <1>2, <1>3, <1>4

WebCommit(r) == BookSlot(r) \/ AddFunds(r) \/ ForceClose(r) \/ Override(r)

LEMMA SerialWebCommits ==
    ASSUME Alone, BaseInv, SerialInv, NEW r \in Request, WebCommit(r)
    PROVE  SerialInv'
<1>1. StepOK(r)
    BY WebStepOK DEF WebCommit, WebStep
<1>2. now' = now /\ Reading(r) /\ Finish(r)
    BY DEF WebCommit, BookSlot, AddFunds, ForceClose, Override, Reading, WebLabels
<1>3. SerialOK(r)'
    BY <1>2, SerialAnswered DEF Finish
<1>4. QED
    BY <1>1, <1>2, <1>3, SerialOthers DEF SerialInv

LEMMA LotBooked ==
    ASSUME BaseInv, SerialInv, UseInv, NEW r \in Request, BookSlot(r)
    PROVE  LotStep
<1> DEFINE v == req[r].vehicle
           p == req[r].slot
           u == owner[v]
<1>1. /\ pc[r] = "book_slot" /\ UNCHANGED <<now, owner, money>>
      /\ slotStatus' = [slotStatus EXCEPT ![p] = "reserved"]
      /\ Insert(ActiveRow(v, p, now))
    BY DEF BookSlot
<1>2. v \in Vehicle /\ p \in Slot
    BY <1>1 DEF BaseInv, LocalsFilled
<1>3. /\ "book" \in Endpoints /\ Registered(v) /\ slotStatus[p] = "available"
      /\ ActiveSessions(v) = {}
    BY <1>1 DEF UseInv, InUse, SerialInv, SerialOK, WebReads
<1>4. u \in User
    BY <1>2, <1>3, BaseFacts DEF Registered
<1> HIDE DEF v, p
<1>5. Lot!BookSlot(u, v, p)
    BY <1>1, <1>2, <1>3, LotQueries, LotRows DEF Lot!BookSlot, Lot!money, money
<1> HIDE DEF u
<1>6. QED
    BY <1>2, <1>4, <1>5 DEF LotStep, Lot!Next, Lot!WebClients

LEMMA LotToppedUp ==
    ASSUME BaseInv, SerialInv, UseInv, NEW r \in Request, AddFunds(r)
    PROVE  LotStep
<1> DEFINE u == req[r].user
           amount == req[r].amount
<1>1. /\ pc[r] = "add_funds"
      /\ balance' = [balance EXCEPT ![u] = req[r].funds + amount]
      /\ credited' = [credited EXCEPT ![u] = @ + amount]
      /\ UNCHANGED <<now, slotStatus, sessions, owner, charged, debitRows>>
    BY DEF AddFunds
<1>2. u \in User
    BY <1>1 DEF BaseInv, LocalsFilled
<1>3. /\ "top_up" \in Endpoints /\ amount \in TopUp /\ req[r].funds = balance[u]
      /\ credited[u] + amount <= MaxCredit
    BY <1>1 DEF UseInv, InUse, SerialInv, SerialOK, WebReads
<1>4. balance' = [balance EXCEPT ![u] = @ + amount]
    BY <1>1, <1>2, <1>3, BaseFacts
<1> HIDE DEF u, amount
<1>5. Lot!AddFunds(u, amount)
    BY <1>1, <1>3, <1>4 DEF Lot!AddFunds
<1>6. QED
    BY <1>2, <1>3, <1>5 DEF LotStep, Lot!Next, Lot!WebClients

LEMMA LotForceClosed ==
    ASSUME BaseInv, SerialInv, UseInv, NEW r \in Request, ForceClose(r)
    PROVE  LotStep
<1> DEFINE s == req[r].session
<1>1. /\ pc[r] = "force_close" /\ UNCHANGED <<now, owner, money>>
      /\ sessions' = [sessions EXCEPT ![s] = Completed(@, 0)]
      /\ slotStatus' = SlotAfterClose(r)
    BY DEF ForceClose
<1>2. s \in SessionId /\ req[r].slot \in Slot
    BY <1>1 DEF BaseInv, LocalsFilled, HasSession
<1>3. /\ "force_close" \in Endpoints /\ sessions[s].status = "active"
      /\ req[r].slot = sessions[s].slot /\ req[r].seen = slotStatus[req[r].slot]
    BY <1>1 DEF UseInv, InUse, SerialInv, SerialOK, WebReads
<1>4. slotStatus' = Freed(sessions[s].slot) /\ sessions[s].slot \in Slot
    BY <1>1, <1>2, <1>3, FreedAfterClose
<1> HIDE DEF s
<1>5. Lot!ForceClose(s)
  <2>1. sessions' = [sessions EXCEPT ![s] = Lot!Completed(@, 0)]
    BY <1>1, LotRows
  <2>2. slotStatus' = Lot!Freed(sessions[s].slot)
    BY <1>4, LotQueries
  <2>3. QED
    BY <1>1, <1>3, <2>1, <2>2 DEF Lot!ForceClose, Lot!ForceClosable, Lot!money, money
<1>6. QED
    BY <1>2, <1>5 DEF LotStep, Lot!Next, Lot!WebClients

LEMMA LotOverridden ==
    ASSUME BaseInv, SerialInv, NEW r \in Request, Override(r)
    PROVE  LotStep
<1> DEFINE p == req[r].slot
           status == req[r].status
<1>1. /\ pc[r] = "override" /\ UNCHANGED <<now, sessions, owner, money>>
      /\ slotStatus' = IF req[r].seen # status THEN [slotStatus EXCEPT ![p] = status]
                       ELSE slotStatus
    BY DEF Override
<1>2. p \in Overridable /\ p \in Slot /\ status \in SlotStatus
    BY <1>1, SlotAssumption DEF BaseInv, LocalsFilled
<1>3. req[r].seen = slotStatus[p]
    BY <1>1 DEF SerialInv, SerialOK, WebReads
<1>4. slotStatus' = [slotStatus EXCEPT ![p] = status]
    BY <1>1, <1>2, <1>3, BaseFacts
<1>5. status \in Lot!SlotStatus
    BY <1>2 DEF SlotStatus, Lot!SlotStatus
<1> HIDE DEF p, status
<1>6. Lot!OverrideSlot(p, status)
    BY <1>1, <1>2, <1>4 DEF Lot!OverrideSlot, Lot!money, money
<1>7. QED
    BY <1>2, <1>5, <1>6 DEF LotStep, Lot!Next, Lot!WebClients

LEMMA SerialStep ==
    ASSUME Alone, BaseInv, SerialInv, UseInv, [Next]_vars
    PROVE  SerialInv' /\ LotStep
<1>1. ASSUME NEW r \in Request, GateAnswer(r)
      PROVE  SerialInv' /\ LotStep
    BY <1>1, GateAnswers, LotAnswered
<1>2. ASSUME NEW r \in Request, Receive(r)
      PROVE  SerialInv' /\ LotStep
    BY <1>2, SerialArrive, SerialStartBook, SerialStartTopUp, SerialStartForceClose,
       SerialStartOverride DEF Receive
<1>3. ASSUME NEW r \in Request, WakeUp(r) \/ OcrStep(r)
      PROVE  SerialInv' /\ LotStep
    BY <1>1, <1>3, GateWakeUp, GateReadPlate DEF OcrStep, GateAnswer
<1>4. ASSUME NEW r \in Request, EntryStep(r) \/ ExitStep(r)
      PROVE  SerialInv' /\ LotStep
    BY <1>1, <1>4, GateEntryReads, GateExitReads DEF EntryStep, ExitStep, GateAnswer
<1>5. ASSUME NEW r \in Request, WebCommit(r)
      PROVE  SerialInv' /\ LotStep
    BY <1>5, SerialWebCommits, LotBooked, LotToppedUp, LotForceClosed, LotOverridden
       DEF WebCommit
<1>6. ASSUME NEW r \in Request, WebStep(r)
      PROVE  SerialInv' /\ LotStep
    BY <1>5, <1>6, SerialWebReads DEF WebStep, WebCommit
<1>7. ASSUME NEW w \in Worker, Crash(w)
      PROVE  SerialInv' /\ LotStep
    BY <1>7, SerialCrash
<1>8. CASE Tick
  <2>1. Lot!Tick
    BY <1>8 DEF Tick, Lot!Tick, Lot!money, money
  <2>2. QED
    BY <1>8, <2>1, SerialTick DEF LotStep, Lot!Next
<1>9. CASE UNCHANGED vars
    BY <1>9, SerialTick, LotStutters DEF vars
<1>10. QED
    BY <1>2, <1>3, <1>4, <1>6, <1>7, <1>8, <1>9 DEF Next

(* Whatever the endpoints and the number of workers: as long as no two handlers
   are between their first query and their commit at once, they do what
   ParkingLot does in one step per request.  Requests may overlap in their
   calls of the OCR, be retried and be cut off by a crash.  So every departure
   from ParkingLot takes two handlers that read and write in each other's
   transaction: the sequence of statements in a handler is right by itself. *)
THEOREM AloneImplementsLot == Spec /\ []Alone => LotSpec
<1>1. Init => Lot!Init
    BY DEF Init, TablesInit, Lot!Init, Lot!TablesInit, Lot!NoRow, NoRow
<1>2. Init => SerialInv
    BY DEF Init, SerialInv, SerialOK, GateReads, WebReads, LoopLabels, ExitLabels
<1>3. Alone /\ BaseInv /\ SerialInv /\ UseInv /\ [Next]_vars
         => SerialInv' /\ [Lot!Next]_(Lot!vars)
    BY SerialStep DEF LotStep
<1>4. QED
    BY <1>1, <1>2, <1>3, BaseCorrect, UseCorrect, PTL DEF Spec, LotSpec, Lot!Spec

(* No web client and no admin writes. *)
OnlyGates == Endpoints \subseteq {"legacy"} /\ Overridable = {}

LEMMA GatesAlone ==
    ASSUME OneWorker, OnlyGates
    PROVE  Spec => []Alone
<1>1. BaseInv /\ UseInv => Alone
  <2> SUFFICES ASSUME BaseInv, UseInv
               PROVE  Alone
    OBVIOUS
  <2>1. \A r \in Request : pc[r] \notin WebLabels
    BY DEF UseInv, InUse, BaseInv, LocalsFilled, OnlyGates, WebLabels
  <2>2. QED
    BY <2>1, OneInLoop DEF Alone, Reading, PlateLabels
<1>2. QED
    BY <1>1, BaseCorrect, UseCorrect, PTL

(* On one worker, while only the gates write, a coroutine holds the event loop
   from its first query to its commit: the handlers do what ParkingLot does.
   What ParkingLotProofs shows of the tables therefore holds of the handlers,
   their retries, their crashes and the overlap of any number of them. *)
THEOREM GatesImplementLot ==
    ASSUME \A v, w \in Worker : v = w,
           Endpoints \subseteq {"legacy"}, Overridable = {}
    PROVE  Spec => LotSpec
<1>1. OneWorker /\ OnlyGates
    BY DEF OneWorker, OnlyGates
<1>2. QED
    BY <1>1, GatesAlone, AloneImplementsLot, PTL

-----------------------------------------------------------------------------
(* What ParkingLotProofs proves, brought to the handlers: its specification is
   the one of LotSpec. *)
LEMMA ProvedSpec == LotSpec => Proved!Spec
<1>1. Lot!Init => Proved!Init
    BY DEF Lot!Init, Lot!TablesInit, Lot!NoRow, Proved!Init, Proved!TablesInit, Proved!NoRow
<1>2. Lot!Gates <=> Proved!Gates
    BY DEF Lot!Gates, Lot!DenyEntry, Lot!AllowEntry, Lot!DenyExit, Lot!DenyUnpaidExit,
       Lot!DenyUnreadable, Lot!AllowExit, Lot!Registered, Lot!ActiveSessions,
       Lot!AvailableSlots, Lot!FirstAvailable, Lot!Fee, Lot!ParkingCost, Lot!StartedHours,
       Lot!AtLeastOne, Lot!SecondsPerHour, Lot!FIRST_HOUR_RATE, Lot!ADDITIONAL_HOUR_RATE,
       Lot!CanPay, Lot!Insert, Lot!ActiveRow, Lot!DeniedRow, Lot!NoRow, Lot!Completed,
       Lot!Freed, Lot!money,
       Proved!Gates, Proved!DenyEntry, Proved!AllowEntry, Proved!DenyExit,
       Proved!DenyUnpaidExit, Proved!DenyUnreadable, Proved!AllowExit, Proved!Registered,
       Proved!ActiveSessions, Proved!AvailableSlots, Proved!FirstAvailable, Proved!Fee,
       Proved!ParkingCost, Proved!StartedHours, Proved!AtLeastOne, Proved!SecondsPerHour,
       Proved!FIRST_HOUR_RATE, Proved!ADDITIONAL_HOUR_RATE, Proved!CanPay, Proved!Insert,
       Proved!ActiveRow, Proved!DeniedRow, Proved!NoRow, Proved!Completed, Proved!Freed,
       Proved!money
<1>3. Lot!WebClients <=> Proved!WebClients
    BY DEF Lot!WebClients, Lot!BookSlot, Lot!AddFunds, Lot!ForceClose, Lot!OverrideSlot,
       Lot!AddVehicle, Lot!DeleteVehicle, Lot!Registered, Lot!ActiveSessions,
       Lot!ForceClosable, Lot!SlotStatus, Lot!Insert, Lot!ActiveRow, Lot!NoRow,
       Lot!Completed, Lot!Freed, Lot!money,
       Proved!WebClients, Proved!BookSlot, Proved!AddFunds, Proved!ForceClose,
       Proved!OverrideSlot, Proved!AddVehicle, Proved!DeleteVehicle, Proved!Registered,
       Proved!ActiveSessions, Proved!ForceClosable, Proved!SlotStatus, Proved!Insert,
       Proved!ActiveRow, Proved!NoRow, Proved!Completed, Proved!Freed, Proved!money
<1>4. [Lot!Next]_(Lot!vars) => [Proved!Next]_(Proved!vars)
    BY <1>2, <1>3 DEF Lot!Next, Lot!Tick, Lot!vars, Lot!tables, Lot!money,
       Proved!Next, Proved!Tick, Proved!vars, Proved!tables, Proved!money
<1>5. QED
    BY <1>1, <1>4, PTL DEF LotSpec, Lot!Spec, Proved!Spec

(* What every behaviour of ParkingLot keeps true of the tables. *)
LotPromises == /\ OneActivePerVehicle /\ SlotsMatchSessions
               /\ ChargedOnce /\ LedgerBalanced

LEMMA LotKeepsPromises == LotSpec => []LotPromises
<1>1. LotSpec => Proved!Spec
    BY ProvedSpec
<1>2. Proved!Spec => []Proved!OneActivePerVehicle
    BY ProvedAssumptions, Proved!OneActiveCorrect, PTL
<1>3. Proved!Spec => []Proved!SlotsMatchSessions
    BY ProvedAssumptions, Proved!SlotsCorrect, PTL
<1>4. Proved!Spec => []Proved!ChargedOnce
    BY ProvedAssumptions, Proved!ChargedOnceCorrect, PTL
<1>5. Proved!Spec => []Proved!LedgerBalanced
    BY ProvedAssumptions, Proved!LedgerCorrect, PTL
<1>6. Proved!OneActivePerVehicle => OneActivePerVehicle
    BY DEF Proved!OneActivePerVehicle, Proved!ActiveSessions, OneActivePerVehicle, ActiveSessions
<1>7. Proved!SlotsMatchSessions => SlotsMatchSessions
    BY DEF Proved!SlotsMatchSessions, Proved!ActiveSlotTaken, Proved!NoSharedSlot,
           Proved!NoLeakedSlot, Proved!Kept, SlotsMatchSessions, ActiveSlotTaken,
           NoSharedSlot, NoLeakedSlot, Kept
<1>8. Proved!ChargedOnce => ChargedOnce
    BY DEF Proved!ChargedOnce, ChargedOnce
<1>9. Proved!LedgerBalanced => LedgerBalanced
    BY DEF Proved!LedgerBalanced, LedgerBalanced
<1>10. QED
    BY <1>1, <1>2, <1>3, <1>4, <1>5, <1>6, <1>7, <1>8, <1>9, PTL DEF LotPromises

(* On one worker, with any number of requests at the gates under way, cut
   short or repeated: no car is parked twice, no slot is given to two cars or
   stays taken without one, every stay is charged once and the wallets agree
   with their transactions. *)
THEOREM GatesKeepLot ==
    ASSUME \A v, w \in Worker : v = w,
           Endpoints \subseteq {"legacy"}, Overridable = {}
    PROVE  Spec => [](/\ OneActivePerVehicle /\ SlotsMatchSessions
                      /\ ChargedOnce /\ LedgerBalanced)
BY GatesImplementLot, LotKeepsPromises, PTL DEF LotPromises

(* The same on any number of workers and for all endpoints, as long as no two
   handlers read and write at once. *)
THEOREM AloneKeepsLot ==
    Spec /\ []Alone => [](/\ OneActivePerVehicle /\ SlotsMatchSessions
                         /\ ChargedOnce /\ LedgerBalanced)
BY AloneImplementsLot, LotKeepsPromises, PTL DEF LotPromises
-----------------------------------------------------------------------------
(* Which endpoint breaks which promise.  On one worker a coroutine holds the
   event loop from its first query to its commit, so only a thread can change
   what it has read, and each kind of thread only some of it. *)

(* What a coroutine has read and no thread that is in use can change. *)
Held(r) ==
    /\ "book" \notin Endpoints =>
          /\ pc[r] \in {"find_slot", "open_session"} => ActiveSessions(req[r].vehicle) = {}
          /\ pc[r] = "open_session" /\ req[r].slot \in Kept =>
                slotStatus[req[r].slot] = "available"
    /\ "force_close" \notin Endpoints =>
          (pc[r] \in ExitLabels =>
              /\ sessions[req[r].session].status = "active"
              /\ req[r].slot = sessions[req[r].session].slot
              /\ req[r].amount > 0)
    /\ "top_up" \notin Endpoints =>
          (pc[r] \in {"read_exit_slot", "close_session"} =>
              req[r].funds = balance[req[r].user])

HeldInv == \A r \in Request : Held(r)

(* The statements that write what a query returns. *)
Commit(r) == OpenSession(r) \/ CloseSession(r) \/ WebCommit(r)

RequestStep(r) ==
    Receive(r) \/ WakeUp(r) \/ OcrStep(r) \/ EntryStep(r) \/ ExitStep(r) \/ WebStep(r)

LEMMA RequestStepOK ==
    ASSUME BaseInv, NEW r \in Request, RequestStep(r)
    PROVE  StepOK(r)
BY ReceiveStep, WakeUpOK, OcrStepOK, EntryStepOK, ExitStepOK, WebStepOK DEF RequestStep

LEMMA OnlyCommitsWrite ==
    ASSUME BaseInv, NEW r \in Request, RequestStep(r), ~Commit(r)
    PROVE  QueriesKept
<1>1. CASE UNCHANGED tables
    BY <1>1, TablesUnseen
<1>2. CASE /\ \E v, q \in Vehicle \cup {NULL} : Insert(DeniedRow(v, q))
           /\ UNCHANGED <<now, slotStatus, owner, money>>
    BY <1>2, DeniedUnseen DEF QueriesKept
<1>3. CASE Receive(r)
    BY <1>1, <1>3, ZenonT(60) DEF Receive, Arrive, StartBook, StartTopUp, StartForceClose,
                      StartOverride, StartThread
<1>4. CASE WakeUp(r) \/ RetryOcr(r) \/ RefuseDoubleEntry(r) \/ CheckNotParked(r)
           \/ FindSlot(r) \/ FindSession(r) \/ ReadWallet(r) \/ ReadExitSlot(r)
           \/ CheckVehicle(r) \/ ReadCloseSlot(r)
    BY <1>1, <1>4 DEF WakeUp, RetryOcr, RefuseDoubleEntry, CheckNotParked, FindSlot,
                      FindSession, ReadWallet, ReadExitSlot, CheckVehicle, ReadCloseSlot
<1>5. CASE OcrFails(r)
    BY <1>1, <1>2, <1>5 DEF OcrFails, tables
<1>6. ASSUME NEW v \in Vehicle, ReadPlate(r, v)
      PROVE  QueriesKept
    BY <1>1, <1>2, <1>6 DEF ReadPlate, tables
<1>7. CASE RefuseFull(r) \/ RefuseNoSession(r) \/ RefuseUnpaid(r)
  <2>1. req[r].vehicle \in Vehicle
    BY <1>7 DEF RefuseFull, RefuseNoSession, RefuseUnpaid, BaseInv, LocalsFilled, PlateLabels,
                LoopLabels
  <2>2. QED
    BY <1>1, <1>2, <1>7, <2>1 DEF RefuseFull, RefuseNoSession, RefuseUnpaid, tables
<1>8. QED
    BY <1>3, <1>4, <1>5, <1>6, <1>7
       DEF RequestStep, OcrStep, EntryStep, ExitStep, WebStep, Commit, WebCommit

(* A step other than an opening leaves no new active row. *)
LEMMA OnlyOpeningsOpen ==
    ASSUME BaseInv, NEW r \in Request, RequestStep(r), ~OpenSession(r), ~BookSlot(r),
           NEW s \in SessionId, sessions'[s].status = "active"
    PROVE  sessions'[s] = sessions[s]
<1>1. CASE ~Commit(r)
    BY <1>1, OnlyCommitsWrite DEF QueriesKept, Returned
<1>2. CASE AddFunds(r) \/ Override(r)
    BY <1>2 DEF AddFunds, Override
<1>3. CASE CloseSession(r) \/ ForceClose(r)
  <2>1. PICK fee : sessions' = [sessions EXCEPT ![req[r].session] = Completed(@, fee)]
    BY <1>3 DEF CloseSession, ForceClose
  <2>2. CASE s = req[r].session
    <3>1. sessions'[s].status = "completed"
      BY <2>1, <2>2, BaseFacts DEF Completed, SessionRow
    <3>2. QED
      BY <3>1
  <2>3. CASE s # req[r].session
    BY <2>1, <2>3, BaseFacts
  <2>4. QED
    BY <2>2, <2>3
<1>4. QED
    BY <1>1, <1>2, <1>3 DEF Commit, WebCommit

(* What r itself has read in the step. *)
LEMMA HeldAnswered ==
    ASSUME BaseInv, NEW r \in Request,
           NEW label \in Answers \cup WebLabels \cup {"idle", "ocr", "sleep", "check"},
           Goto(r, label)
    PROVE  Held(r)'
<1>1. pc'[r] = label
    BY BaseFacts DEF Goto
<1>2. QED
    BY <1>1 DEF Held, Answers, WebLabels, ExitLabels

LEMMA HeldEntry ==
    ASSUME BaseInv, HeldInv, NEW r \in Request, CheckNotParked(r) \/ FindSlot(r)
    PROVE  Held(r)'
<1>1. UNCHANGED tables
    BY DEF CheckNotParked, FindSlot
<1>2. sessions' = sessions /\ slotStatus' = slotStatus
    BY <1>1 DEF tables
<1>3. CASE CheckNotParked(r)
  <2>1. pc'[r] = "find_slot" /\ req' = req /\ ActiveSessions(req[r].vehicle) = {}
    BY <1>3, BaseFacts DEF CheckNotParked, Goto
  <2>2. QED
    BY <1>2, <2>1 DEF Held, ActiveSessions, ExitLabels
<1>4. CASE FindSlot(r)
  <2>1. PICK p \in Slot : FirstAvailable(p) /\ req' = [req EXCEPT ![r].slot = p]
    BY <1>4 DEF FindSlot
  <2>2. pc[r] = "find_slot" /\ pc'[r] = "open_session"
    BY <1>4, BaseFacts DEF FindSlot, Goto
  <2>3. req'[r].slot = p /\ req'[r].vehicle = req[r].vehicle
    BY <2>1, BaseFacts DEF Locals
  <2>4. slotStatus[p] = "available"
    BY <2>1 DEF FirstAvailable, AvailableSlots
  <2>5. "book" \notin Endpoints => ActiveSessions(req[r].vehicle) = {}
    BY <2>2 DEF HeldInv, Held
  <2>6. QED
    BY <1>2, <2>2, <2>3, <2>4, <2>5 DEF Held, ActiveSessions, ExitLabels
<1>5. QED
    BY <1>3, <1>4

LEMMA HeldExit ==
    ASSUME BaseInv, HeldInv, NEW r \in Request,
           FindSession(r) \/ ReadWallet(r) \/ ReadExitSlot(r)
    PROVE  Held(r)'
<1>1. UNCHANGED tables
    BY DEF FindSession, ReadWallet, ReadExitSlot
<1>2. sessions' = sessions /\ balance' = balance
    BY <1>1 DEF tables, money
<1>3. CASE FindSession(r)
  <2>1. PICK s \in ActiveSessions(req[r].vehicle) :
            req' = [req EXCEPT ![r].session = s, ![r].slot = sessions[s].slot,
                               ![r].amount = Fee(sessions[s].entry, req[r].time)]
    BY <1>3 DEF FindSession
  <2>2. pc[r] = "check" /\ pc'[r] = "read_wallet"
    BY <1>3, BaseFacts DEF FindSession, Goto
  <2>3. /\ req'[r].session = s /\ req'[r].slot = sessions[s].slot
        /\ req'[r].amount = Fee(sessions[s].entry, req[r].time)
    BY <2>1, BaseFacts DEF Locals
  <2>4. s \in SessionId /\ sessions[s].status = "active"
    BY DEF ActiveSessions
  <2>5. sessions[s].entry \in Nat /\ req[r].time \in Nat
    BY <2>2, <2>4 DEF BaseInv, RowsFilled, LocalsFilled, PlateLabels, LoopLabels
  <2>6. req'[r].amount > 0
    BY <2>3, <2>5, FeeType
  <2>7. QED
    BY <1>2, <2>2, <2>3, <2>4, <2>6 DEF Held
<1>4. CASE ReadWallet(r)
  <2>1. /\ pc[r] = "read_wallet" /\ pc'[r] = "read_exit_slot"
        /\ req' = [req EXCEPT ![r].user = owner[req[r].vehicle], ![r].funds = Wallet(r)]
    BY <1>4, BaseFacts DEF ReadWallet, Goto
  <2>2. /\ req'[r].funds = balance[req'[r].user]
        /\ req'[r].session = req[r].session /\ req'[r].slot = req[r].slot
        /\ req'[r].amount = req[r].amount
    BY <2>1, BaseFacts DEF Locals, Wallet
  <2>3. QED
    BY <1>2, <2>1, <2>2 DEF HeldInv, Held, ExitLabels
<1>5. CASE ReadExitSlot(r)
  <2>1. /\ pc[r] = "read_exit_slot" /\ pc'[r] = "close_session"
        /\ req' = [req EXCEPT ![r].seen = slotStatus[req[r].slot]]
    BY <1>5, BaseFacts DEF ReadExitSlot, Goto
  <2>2. /\ req'[r].user = req[r].user /\ req'[r].funds = req[r].funds
        /\ req'[r].session = req[r].session /\ req'[r].slot = req[r].slot
        /\ req'[r].amount = req[r].amount
    BY <2>1, BaseFacts DEF Locals
  <2>3. QED
    BY <1>2, <2>1, <2>2 DEF HeldInv, Held, ExitLabels
<1>6. QED
    BY <1>3, <1>4, <1>5, SMTT(30)

LEMMA HeldOwn ==
    ASSUME BaseInv, HeldInv, NEW r \in Request, RequestStep(r)
    PROVE  Held(r)'
<1>1. CASE \E label \in Answers \cup WebLabels \cup {"idle", "ocr", "sleep", "check"} :
              Goto(r, label)
    BY <1>1, HeldAnswered, SMTT(30)
<1>2. CASE Receive(r)
    BY <1>1, <1>2 DEF Receive, Arrive, StartBook, StartTopUp, StartForceClose, StartOverride,
                      StartThread, Start, WebLabels
<1>3. CASE WakeUp(r) \/ OcrStep(r)
    BY <1>1, <1>3 DEF WakeUp, OcrStep, RetryOcr, OcrFails, ReadPlate, Answer, Answers
<1>4. CASE EntryStep(r)
    BY <1>1, <1>4, HeldEntry DEF EntryStep, RefuseDoubleEntry, RefuseFull, OpenSession, Answer,
                                 Answers
<1>5. CASE ExitStep(r)
    BY <1>1, <1>5, HeldExit DEF ExitStep, RefuseNoSession, RefuseUnpaid, CloseSession, Answer,
                                Answers
<1>6. CASE WebStep(r)
    BY <1>1, <1>6 DEF WebStep, CheckVehicle, BookSlot, AddFunds, ReadCloseSlot, ForceClose,
                      Override, Finish, WebLabels
<1>7. QED
    BY <1>2, <1>3, <1>4, <1>5, <1>6 DEF RequestStep

(* A thread changes only what Held leaves out for its endpoint. *)
LEMMA HeldOthers ==
    ASSUME OneWorker, BaseInv, UseInv, HeldInv, NEW r \in Request, RequestStep(r),
           NEW q \in Request \ {r}
    PROVE  Held(q)'
<1>1. pc'[q] = pc[q] /\ req'[q] = req[q] /\ Held(q) /\ StepOK(r)
    BY RequestStepOK DEF StepOK, OthersKeep, HeldInv
<1>2. CASE pc[q] \notin LoopLabels
    BY <1>1, <1>2 DEF Held, LoopLabels, ExitLabels
<1>3. ASSUME pc[q] \in LoopLabels
      PROVE  pc[r] \notin LoopLabels
    BY <1>3, OneInLoop
<1>4. pc[q] \in ExitLabels => req[q].session \in SessionId
    BY DEF BaseInv, LocalsFilled, HasSession, ExitLabels
<1>5. pc[q] = "open_session" => req[q].slot \in Slot
    BY DEF BaseInv, LocalsFilled
<1>6. ASSUME \A s \in SessionId : sessions'[s].status = "active" => sessions'[s] = sessions[s],
             \A p \in Kept : slotStatus[p] = "available" => slotStatus'[p] = "available",
             "force_close" \in Endpoints \/
                \A s \in SessionId : sessions[s].status = "active" => sessions'[s] = sessions[s],
             "top_up" \in Endpoints \/ balance' = balance
      PROVE  Held(q)'
  <2>1. \A v : ActiveSessions(v)' \subseteq ActiveSessions(v)
    BY <1>6 DEF ActiveSessions
  <2> HIDE DEF ActiveSessions
  <2>2. QED
    BY <1>1, <1>4, <1>5, <1>6, <2>1 DEF Held
<1>7. CASE ~Commit(r)
    BY <1>6, <1>7, OnlyCommitsWrite DEF QueriesKept, Returned, money
<1>8. CASE OpenSession(r) \/ CloseSession(r)
    BY <1>2, <1>3, <1>8 DEF OpenSession, CloseSession, LoopLabels
<1>9. CASE BookSlot(r)
  <2>1. pc[r] = "book_slot" /\ "book" \in Endpoints /\ balance' = balance
    BY <1>9 DEF BookSlot, UseInv, InUse, money
  <2>2. \A s \in SessionId : sessions[s].status = "active" => sessions'[s] = sessions[s]
    BY <1>9, BaseFacts DEF BookSlot, Insert
  <2>3. QED
    BY <1>1, <1>4, <2>1, <2>2 DEF Held
<1>10. CASE AddFunds(r)
  <2>1. "top_up" \in Endpoints /\ sessions' = sessions /\ slotStatus' = slotStatus
    BY <1>10 DEF AddFunds, UseInv, InUse
  <2>2. QED
    BY <1>6, <2>1
<1>11. CASE ForceClose(r)
  <2>1. "force_close" \in Endpoints /\ balance' = balance /\ slotStatus' = SlotAfterClose(r)
    BY <1>11 DEF ForceClose, UseInv, InUse, money
  <2>2. \A p \in Kept : slotStatus[p] = "available" => slotStatus'[p] = "available"
    BY <2>1, BaseFacts DEF SlotAfterClose, Freed, Kept
  <2>3. ~OpenSession(r) /\ ~BookSlot(r)
    BY <1>11 DEF ForceClose, OpenSession, BookSlot
  <2>4. QED
    BY <1>6, <2>1, <2>2, <2>3, OnlyOpeningsOpen
<1>12. CASE Override(r)
  <2>1. /\ pc[r] = "override" /\ sessions' = sessions /\ balance' = balance
        /\ \/ slotStatus' = slotStatus
           \/ slotStatus' = [slotStatus EXCEPT ![req[r].slot] = req[r].status]
    BY <1>12 DEF Override, money
  <2>2. req[r].slot \in Overridable
    BY <2>1 DEF BaseInv, LocalsFilled
  <2>3. \A p \in Kept : slotStatus'[p] = slotStatus[p]
    BY <2>1, <2>2, BaseFacts DEF Kept
  <2>4. QED
    BY <1>6, <2>1, <2>3
<1>13. QED
    BY <1>7, <1>8, <1>9, <1>10, <1>11, <1>12 DEF Commit, WebCommit

LEMMA HeldCorrect ==
    ASSUME OneWorker
    PROVE  Spec => []HeldInv
<1>1. Init => HeldInv
    BY DEF Init, HeldInv, Held, ExitLabels
<1>2. BaseInv /\ UseInv /\ HeldInv /\ [Next]_vars => HeldInv'
  <2> SUFFICES ASSUME BaseInv, UseInv, HeldInv, [Next]_vars
               PROVE  HeldInv'
    OBVIOUS
  <2>1. ASSUME NEW r \in Request, RequestStep(r)
        PROVE  HeldInv'
    BY <2>1, HeldOwn, HeldOthers DEF HeldInv
  <2>2. CASE \E w \in Worker : Crash(w)
    <3>1. /\ \A r \in Request : pc'[r] = "idle" \/ (pc'[r] = pc[r] /\ req'[r] = req[r])
          /\ UNCHANGED tables
      BY <2>2 DEF Crash
    <3>2. QED
      BY <3>1 DEF HeldInv, Held, ExitLabels, ActiveSessions, tables, money
  <2>3. CASE Tick \/ UNCHANGED vars
    BY <2>3 DEF Tick, vars, tables, money, HeldInv, Held, ActiveSessions
  <2>4. QED
    BY <2>1, <2>2, <2>3 DEF Next, RequestStep
<1>3. QED
    BY <1>1, <1>2, BaseCorrect, UseCorrect, PTL DEF Spec

(* An opening adds one active row and leaves the others. *)
LEMMA OpeningAdds ==
    ASSUME BaseInv, NEW v \in Vehicle, NEW p \in Slot, NEW t \in Nat,
           Insert(ActiveRow(v, p, t))
    PROVE  \E n \in SessionId :
              /\ sessions[n].status = "none"
              /\ sessions'[n].status = "active"
              /\ sessions'[n].vehicle = v /\ sessions'[n].slot = p
              /\ \A s \in SessionId \ {n} : sessions'[s] = sessions[s]
<1> DEFINE row == ActiveRow(v, p, t)
<1>1. row.status = "active" /\ row.vehicle = v /\ row.slot = p /\ Insert(row)
    BY RowTypes
<1> HIDE DEF row
<1>2. QED
    BY <1>1, BaseFacts DEF Insert

(* The rows that no request touches in the step. *)
LEMMA IdleStep ==
    ASSUME (\E w \in Worker : Crash(w)) \/ Tick \/ UNCHANGED vars
    PROVE  UNCHANGED <<slotStatus, sessions, owner, balance, credited, charged, debitRows>>
BY DEF Crash, Tick, vars, tables, money

(* On one worker only book_slot can give a vehicle a second active session: it
   looks for one before it books and holds nothing until it commits. *)
THEOREM OneActiveWithoutBooking ==
    ASSUME \A v, w \in Worker : v = w, "book" \notin Endpoints
    PROVE  Spec => []OneActivePerVehicle
<1>0. OneWorker
    BY DEF OneWorker
<1>1. Init => OneActivePerVehicle
    BY DEF Init, TablesInit, NoRow, OneActivePerVehicle, ActiveSessions
<1>2. BaseInv /\ UseInv /\ HeldInv /\ OneActivePerVehicle /\ [Next]_vars => OneActivePerVehicle'
  <2> SUFFICES ASSUME BaseInv, UseInv, HeldInv, OneActivePerVehicle, [Next]_vars
               PROVE  OneActivePerVehicle'
    OBVIOUS
  <2>1. ASSUME NEW r \in Request, OpenSession(r)
        PROVE  OneActivePerVehicle'
    <3> DEFINE v == req[r].vehicle
               p == req[r].slot
               t == req[r].time
    <3>1. pc[r] = "open_session" /\ Insert(ActiveRow(v, p, t))
      BY <2>1 DEF OpenSession
    <3>2. v \in Vehicle /\ p \in Slot /\ t \in Nat
      BY <3>1 DEF BaseInv, LocalsFilled, PlateLabels, LoopLabels
    <3>3. ActiveSessions(v) = {}
      BY <3>1 DEF HeldInv, Held
    <3> HIDE DEF v, p, t
    <3>4. PICK n \in SessionId :
              /\ sessions'[n].vehicle = v
              /\ \A s \in SessionId \ {n} : sessions'[s] = sessions[s]
      BY <3>1, <3>2, OpeningAdds
    <3>5. QED
      BY <3>3, <3>4 DEF OneActivePerVehicle, ActiveSessions
  <2>2. ASSUME NEW r \in Request, RequestStep(r), ~OpenSession(r)
        PROVE  OneActivePerVehicle'
    <3>1. ~BookSlot(r)
      BY DEF BookSlot, UseInv, InUse
    <3>2. \A s \in SessionId : sessions'[s].status = "active" => sessions'[s] = sessions[s]
      BY <2>2, <3>1, OnlyOpeningsOpen
    <3>3. QED
      BY <3>2 DEF OneActivePerVehicle, ActiveSessions
  <2>3. CASE (\E w \in Worker : Crash(w)) \/ Tick \/ UNCHANGED vars
    BY <2>3, IdleStep DEF OneActivePerVehicle, ActiveSessions
  <2>4. QED
    BY <2>1, <2>2, <2>3 DEF Next, RequestStep
<1>3. QED
    BY <1>0, <1>1, <1>2, HeldCorrect, BaseCorrect, UseCorrect, PTL DEF Spec

(* On one worker only a top-up can make a wallet disagree with its
   transactions: the exit gate and it write balances they have read before. *)
THEOREM LedgerWithoutTopUps ==
    ASSUME \A v, w \in Worker : v = w, "top_up" \notin Endpoints
    PROVE  Spec => []LedgerBalanced
<1>0. OneWorker
    BY DEF OneWorker
<1>1. Init => LedgerBalanced
  <2> SUFFICES ASSUME Init PROVE LedgerBalanced
    OBVIOUS
  <2>1. \A u \in User : credited[u] \in Nat /\ balance[u] = credited[u] /\ charged[u] = 0
    BY MoneyAssumption DEF Init, TablesInit
  <2>2. QED
    BY <2>1 DEF LedgerBalanced
<1>2. BaseInv /\ UseInv /\ HeldInv /\ LedgerBalanced /\ [Next]_vars => LedgerBalanced'
  <2> SUFFICES ASSUME BaseInv, UseInv, HeldInv, LedgerBalanced, [Next]_vars
               PROVE  LedgerBalanced'
    OBVIOUS
  <2>1. ASSUME UNCHANGED <<balance, credited, charged>>
        PROVE  LedgerBalanced'
    BY <2>1 DEF LedgerBalanced
  <2>2. ASSUME NEW r \in Request, CloseSession(r)
        PROVE  LedgerBalanced'
    <3> DEFINE u == req[r].user
               fee == req[r].amount
    <3>1. /\ pc[r] = "close_session" /\ credited' = credited
          /\ balance' = [balance EXCEPT ![u] = req[r].funds - fee]
          /\ charged' = [charged EXCEPT ![u] = @ + fee]
      BY <2>2 DEF CloseSession
    <3>2. u \in User /\ fee \in Nat /\ req[r].funds >= fee
      BY <3>1 DEF BaseInv, LocalsFilled
    <3>3. req[r].funds = balance[u]
      BY <3>1 DEF HeldInv, Held
    <3> HIDE DEF u, fee
    <3>4. QED
      BY <3>1, <3>2, <3>3, BaseFacts DEF LedgerBalanced
  <2>3. ASSUME NEW r \in Request, RequestStep(r), ~CloseSession(r)
        PROVE  LedgerBalanced'
    <3>1. CASE ~Commit(r)
      BY <2>1, <2>3, <3>1, OnlyCommitsWrite DEF QueriesKept, money
    <3>2. CASE OpenSession(r) \/ BookSlot(r) \/ ForceClose(r) \/ Override(r)
      BY <2>1, <3>2 DEF OpenSession, BookSlot, ForceClose, Override, money
    <3>3. ~AddFunds(r)
      BY DEF AddFunds, UseInv, InUse
    <3>4. QED
      BY <2>3, <3>1, <3>2, <3>3 DEF Commit, WebCommit
  <2>4. CASE (\E w \in Worker : Crash(w)) \/ Tick \/ UNCHANGED vars
    BY <2>1, <2>4, IdleStep
  <2>5. QED
    BY <2>2, <2>3, <2>4 DEF Next, RequestStep
<1>3. QED
    BY <1>0, <1>1, <1>2, HeldCorrect, BaseCorrect, UseCorrect, PTL DEF Spec

(* On one worker only force_close_session can make the fee of a session and its
   DEBIT row disagree: it checks the status when it begins and writes the cost
   when it commits. *)
THEOREM ChargedOnceWithoutForceClose ==
    ASSUME \A v, w \in Worker : v = w, "force_close" \notin Endpoints
    PROVE  Spec => []ChargedOnce
<1>0. OneWorker
    BY DEF OneWorker
<1>1. Init => ChargedOnce
    BY DEF Init, TablesInit, NoRow, ChargedOnce
<1>2. BaseInv /\ UseInv /\ HeldInv /\ ChargedOnce /\ [Next]_vars => ChargedOnce'
  <2> SUFFICES ASSUME BaseInv, UseInv, HeldInv, ChargedOnce, [Next]_vars
               PROVE  ChargedOnce'
    OBVIOUS
  <2>1. ASSUME NEW r \in Request, CloseSession(r)
        PROVE  ChargedOnce'
    <3> DEFINE x == req[r].session
               fee == req[r].amount
    <3>1. /\ pc[r] = "close_session"
          /\ sessions' = [sessions EXCEPT ![x] = Completed(@, fee)]
          /\ debitRows' = [debitRows EXCEPT ![x] = @ + 1]
      BY <2>1 DEF CloseSession
    <3>2. x \in SessionId /\ fee \in Nat
      BY <3>1 DEF BaseInv, LocalsFilled, HasSession
    <3>3. sessions[x].status = "active" /\ fee > 0
      BY <3>1 DEF HeldInv, Held, ExitLabels
    <3> HIDE DEF x, fee
    <3>4. sessions'[x].status = "completed" /\ sessions'[x].cost = fee
      <4>1. sessions[x] \in SessionRow
        BY <3>2, BaseFacts
      <4>2. sessions'[x] = Completed(sessions[x], fee)
        BY <3>1, <3>2, BaseFacts
      <4>3. QED
        BY <3>2, <4>1, <4>2, CompletedRow
    <3>5. debitRows[x] = 0
      BY <3>2, <3>3 DEF ChargedOnce
    <3>6. debitRows'[x] = 1
      BY <3>1, <3>2, <3>5, BaseFacts
    <3>7. \A s \in SessionId \ {x} : sessions'[s] = sessions[s] /\ debitRows'[s] = debitRows[s]
      BY <3>1, BaseFacts
    <3>8. QED
      BY <3>3, <3>4, <3>6, <3>7 DEF ChargedOnce
  <2>2. ASSUME NEW r \in Request, OpenSession(r) \/ BookSlot(r)
        PROVE  ChargedOnce'
    <3>1. PICK v \in Vehicle, p \in Slot, t \in Nat : Insert(ActiveRow(v, p, t))
      BY <2>2, BaseFacts DEF OpenSession, BookSlot, BaseInv, LocalsFilled, PlateLabels, LoopLabels
    <3>2. PICK n \in SessionId :
              /\ sessions[n].status = "none" /\ sessions'[n].status = "active"
              /\ \A s \in SessionId \ {n} : sessions'[s] = sessions[s]
      BY <3>1, OpeningAdds
    <3>3. debitRows' = debitRows
      BY <2>2 DEF OpenSession, BookSlot, money
    <3>4. QED
      BY <3>2, <3>3 DEF ChargedOnce
  <2>3. ASSUME NEW r \in Request, RequestStep(r), ~CloseSession(r), ~OpenSession(r), ~BookSlot(r)
        PROVE  ChargedOnce'
    <3>1. CASE ~Commit(r)
      BY <2>3, <3>1, OnlyCommitsWrite DEF QueriesKept, Returned, ChargedOnce, money
    <3>2. CASE AddFunds(r) \/ Override(r)
      BY <3>2 DEF AddFunds, Override, ChargedOnce, money
    <3>3. ~ForceClose(r)
      BY DEF ForceClose, UseInv, InUse
    <3>4. QED
      BY <2>3, <3>1, <3>2, <3>3 DEF Commit, WebCommit
  <2>4. CASE (\E w \in Worker : Crash(w)) \/ Tick \/ UNCHANGED vars
    BY <2>4, IdleStep DEF ChargedOnce
  <2>5. QED
    BY <2>1, <2>2, <2>3, <2>4 DEF Next, RequestStep
<1>3. QED
    BY <1>0, <1>1, <1>2, HeldCorrect, BaseCorrect, UseCorrect, PTL DEF Spec

(* On one worker only book_slot and force_close_session can make the grid
   disagree with the sessions, on the slots that no admin overrides. *)
THEOREM SlotsMatchWithoutBookingAndForceClose ==
    ASSUME \A v, w \in Worker : v = w,
           "book" \notin Endpoints, "force_close" \notin Endpoints
    PROVE  Spec => []SlotsMatchSessions
<1>0. OneWorker
    BY DEF OneWorker
<1> DEFINE Apart == ActiveSlotTaken /\ NoSharedSlot
<1>1. Init => Apart
    BY DEF Init, TablesInit, NoRow, ActiveSlotTaken, NoSharedSlot
<1>2. BaseInv /\ UseInv /\ HeldInv /\ Apart /\ [Next]_vars => Apart'
  <2> SUFFICES ASSUME BaseInv, UseInv, HeldInv, ActiveSlotTaken, NoSharedSlot, [Next]_vars
               PROVE  Apart'
    OBVIOUS
  <2>1. ASSUME NEW r \in Request, OpenSession(r)
        PROVE  Apart'
    <3> DEFINE v == req[r].vehicle
               p == req[r].slot
               t == req[r].time
    <3>1. /\ pc[r] = "open_session" /\ Insert(ActiveRow(v, p, t))
          /\ slotStatus' = [slotStatus EXCEPT ![p] = "occupied"]
      BY <2>1 DEF OpenSession
    <3>2. v \in Vehicle /\ p \in Slot /\ t \in Nat
      BY <3>1 DEF BaseInv, LocalsFilled, PlateLabels, LoopLabels
    <3>3. p \in Kept => slotStatus[p] = "available"
      BY <3>1 DEF HeldInv, Held
    <3> HIDE DEF v, p, t
    <3>4. PICK n \in SessionId :
              /\ sessions[n].status = "none" /\ sessions'[n].status = "active"
              /\ sessions'[n].slot = p
              /\ \A s \in SessionId \ {n} : sessions'[s] = sessions[s]
      BY <3>1, <3>2, OpeningAdds
    <3>5. \A s \in SessionId : sessions[s].status = "active" /\ p \in Kept => sessions[s].slot # p
      BY <3>3 DEF ActiveSlotTaken
    <3>6. slotStatus'[p] = "occupied" /\ \A q \in Slot \ {p} : slotStatus'[q] = slotStatus[q]
      BY <3>1, <3>2, BaseFacts
    <3>7. ActiveSlotTaken'
      BY <3>2, <3>4, <3>6 DEF ActiveSlotTaken
    <3>8. NoSharedSlot'
      BY <3>4, <3>5 DEF NoSharedSlot
    <3>9. QED
      BY <3>7, <3>8
  <2>2. ASSUME NEW r \in Request, CloseSession(r)
        PROVE  Apart'
    <3> DEFINE x == req[r].session
               p == req[r].slot
               fee == req[r].amount
    <3>1. /\ pc[r] = "close_session" /\ slotStatus' = SlotAfterClose(r)
          /\ sessions' = [sessions EXCEPT ![x] = Completed(@, fee)]
      BY <2>2 DEF CloseSession
    <3>2. x \in SessionId /\ p \in Slot /\ fee \in Nat
      BY <3>1 DEF BaseInv, LocalsFilled, HasSession
    <3>3. sessions[x].status = "active" /\ sessions[x].slot = p
      BY <3>1 DEF HeldInv, Held, ExitLabels
    <3>4. \A q \in Slot \ {p} : slotStatus'[q] = slotStatus[q]
      BY <3>1, BaseFacts DEF SlotAfterClose, Freed
    <3> HIDE DEF x, p, fee
    <3>5. sessions'[x].status = "completed" /\ \A s \in SessionId \ {x} : sessions'[s] = sessions[s]
      <4>1. sessions[x] \in SessionRow
        BY <3>2, BaseFacts
      <4>2. sessions'[x] = Completed(sessions[x], fee)
        BY <3>1, <3>2, BaseFacts
      <4>3. sessions'[x].status = "completed"
        BY <3>2, <4>1, <4>2, CompletedRow
      <4>4. QED
        BY <3>1, <4>3, BaseFacts
    <3>6. \A s \in SessionId \ {x} :
              sessions[s].status = "active" /\ p \in Kept => sessions[s].slot # p
      BY <3>2, <3>3 DEF NoSharedSlot
    <3>7. ActiveSlotTaken'
      BY <3>4, <3>5, <3>6 DEF ActiveSlotTaken
    <3>8. NoSharedSlot'
      BY <3>5 DEF NoSharedSlot
    <3>9. QED
      BY <3>7, <3>8
  <2>3. ASSUME \A s \in SessionId : sessions'[s].status = "active" => sessions'[s] = sessions[s],
               \A p \in Kept : slotStatus'[p] = slotStatus[p]
        PROVE  Apart'
    BY <2>3 DEF ActiveSlotTaken, NoSharedSlot
  <2>4. ASSUME NEW r \in Request, RequestStep(r), ~OpenSession(r), ~CloseSession(r)
        PROVE  Apart'
    <3>1. CASE ~Commit(r)
      BY <2>3, <2>4, <3>1, OnlyCommitsWrite DEF QueriesKept, Returned
    <3>2. CASE AddFunds(r)
      BY <2>3, <3>2 DEF AddFunds
    <3>3. CASE Override(r)
      <4>1. /\ pc[r] = "override" /\ sessions' = sessions
            /\ \/ slotStatus' = slotStatus
               \/ slotStatus' = [slotStatus EXCEPT ![req[r].slot] = req[r].status]
        BY <3>3 DEF Override
      <4>2. req[r].slot \in Overridable
        BY <4>1 DEF BaseInv, LocalsFilled
      <4>3. QED
        BY <2>3, <4>1, <4>2, BaseFacts DEF Kept
    <3>4. ~BookSlot(r) /\ ~ForceClose(r)
      BY DEF BookSlot, ForceClose, UseInv, InUse
    <3>5. QED
      BY <2>4, <3>1, <3>2, <3>3, <3>4 DEF Commit, WebCommit
  <2>5. CASE (\E w \in Worker : Crash(w)) \/ Tick \/ UNCHANGED vars
    BY <2>3, <2>5, IdleStep
  <2>6. QED
    BY <2>1, <2>2, <2>4, <2>5 DEF Next, RequestStep
<1>3. Apart /\ NoLeakedSlot => SlotsMatchSessions
    BY DEF SlotsMatchSessions
<1> HIDE DEF Apart
<1>4. QED
    BY <1>0, <1>1, <1>2, <1>3, HeldCorrect, BaseCorrect, UseCorrect, NoLeakCorrect, PTL DEF Spec
==============================================================================

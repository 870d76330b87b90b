---------------------------- MODULE ParkingServer ----------------------------
(***************************************************************************)
(* The parking requests as the backend runs them: each handler is the      *)
(* sequence of its SELECTs, each reading the rows committed at that        *)
(* moment, and one COMMIT, which writes the rows its session object        *)
(* changed.  No row carries a version and nothing is locked in between.    *)
(*                                                                         *)
(* The gate handlers (device_trigger, entry_event, exit_event) are         *)
(* coroutines: they hold the event loop of their worker (loop) from their  *)
(* timestamp to their response, the calls of the OCR client included,      *)
(* which is a synchronous one; only the sleep between two attempts of the  *)
(* OCR lets another coroutine in.  The web handlers are plain functions on *)
(* the worker's thread pool and interleave with everything, statement by   *)
(* statement.                                                              *)
(*                                                                         *)
(* The database is the SQLite file of the deployment: a SELECT outside of  *)
(* a write transaction reads the last commit.                              *)
(*                                                                         *)
(* pc[r] is where request r stands; "open" and "close" are the answer its  *)
(* gate got.  req[r] holds the handler's local variables.  The vehicles    *)
(* table does not change here.                                             *)
(***************************************************************************)
EXTENDS ParkingTables, FiniteSets

CONSTANTS
    Request,        \* requests that may be under way at the same time
    Worker,         \* server processes: uvicorn --workers
    MaxRetries      \* attempts at the OCR of an image: 3 in the code

ASSUME RequestAssumption == NULL \notin Request \cup Worker \cup SessionId
ASSUME RetriesAssumption == MaxRetries \in Nat \ {0}

VARIABLES pc, req, loop

vars == <<tables, pc, req, loop>>

GateOps == {"entry", "exit", "legacy_entry", "legacy_exit"}
EntryOps == {"entry", "legacy_entry"}
ExitOps == {"exit", "legacy_exit"}
WebOps == {"book", "top_up", "force_close", "override"}

(* Labels at which a request holds the event loop of its worker. *)
LoopLabels == {"ocr", "check", "find_slot", "open_session", "read_wallet",
               "read_exit_slot", "close_session"}
WebLabels == {"check_vehicle", "book_slot", "add_funds", "read_close_slot",
              "force_close", "override"}
Answers == {"open", "close"}
Labels == {"idle", "sleep"} \cup LoopLabels \cup WebLabels \cup Answers

Locals ==
    [op : GateOps \cup WebOps \cup {NULL}, worker : Worker \cup {NULL},
     attempt : Nat \cup {NULL}, time : Nat \cup {NULL}, vehicle : Vehicle \cup {NULL},
     session : SessionId \cup {NULL}, slot : Slot \cup {NULL},
     seen : SlotStatus \cup {NULL}, status : SlotStatus \cup {NULL},
     user : User \cup {NULL}, funds : Int \cup {NULL}, amount : Nat \cup {NULL}]

NoLocals == [op |-> NULL, worker |-> NULL, attempt |-> NULL, time |-> NULL, vehicle |-> NULL,
             session |-> NULL, slot |-> NULL, seen |-> NULL, status |-> NULL,
             user |-> NULL, funds |-> NULL, amount |-> NULL]

(* The tables are well typed, and so are the handlers' variables. *)
TypeOK ==
    /\ TablesTypeOK
    /\ pc \in [Request -> Labels]
    /\ req \in [Request -> Locals]
    /\ loop \in [Worker -> Request \cup {NULL}]

Init ==
    /\ TablesInit
    /\ pc = [r \in Request |-> "idle"]
    /\ req = [r \in Request |-> NoLocals]
    /\ loop = [w \in Worker |-> NULL]

-----------------------------------------------------------------------------
Free(r) == pc[r] \in {"idle"} \cup Answers

Goto(r, label) == pc' = [pc EXCEPT ![r] = label]

MutantAnswer(r, action) ==
    /\ Goto(r, action)
    /\ req' = [req EXCEPT ![r] = NoLocals]
    /\ UNCHANGED loop

LeaveLoop(r) == loop' = [loop EXCEPT ![req[r].worker] = IF @ = r THEN NULL ELSE @]

(* A coroutine that answers leaves the event loop to the next one. *)
Answer(r, action) ==
    /\ Goto(r, action)
    /\ req' = [req EXCEPT ![r] = NoLocals]
    /\ LeaveLoop(r)

(* A thread that answers, with success or with an HTTP error. *)
Finish(r) ==
    /\ Goto(r, "idle")
    /\ req' = [req EXCEPT ![r] = NoLocals]
    /\ UNCHANGED loop

(* Bound: no request comes in unless a session id is left for each one under
   way, so that no handler is stopped by the bound on the rows. *)
RoomForRows ==
    Cardinality({r \in Request : ~Free(r)})
        < Cardinality({s \in SessionId : sessions[s].status = "none"})

Start(r, w, label, locals) ==
    /\ Free(r)
    /\ RoomForRows
    /\ Goto(r, label)
    /\ req' = [req EXCEPT ![r] = [locals EXCEPT !.worker = w]]

StartThread(r, w, label, locals) == Start(r, w, label, locals) /\ UNCHANGED <<tables, loop>>

MutantLoopFree(w) == TRUE

LoopFree(w) == loop[w] = NULL

MutantSlotAfterClose(r) == slotStatus

(* slot.status = AVAILABLE: the ORM writes the column if the object loaded
   another value, whatever the row holds by now. *)
SlotAfterClose(r) ==
    IF req[r].seen # "available" THEN Freed(req[r].slot) ELSE slotStatus

-----------------------------------------------------------------------------
(* Gate requests *)

(* The image was read; the timestamp is taken and the OCR client called. *)
Arrive(r, w, op) ==
    /\ op \in {"legacy_entry", "legacy_exit"} => "legacy" \in Endpoints
    /\ LoopFree(w)
    /\ Start(r, w, "ocr", [NoLocals EXCEPT !.op = op, !.attempt = 1, !.time = now])
    /\ loop' = [loop EXCEPT ![w] = r]
    /\ UNCHANGED tables

(* The call raised or its text is no plate: asyncio.sleep, then once more. *)
RetryOcr(r) ==
    /\ pc[r] = "ocr" /\ req[r].attempt < MaxRetries
    /\ Goto(r, "sleep")
    /\ req' = [req EXCEPT ![r].attempt = @ + 1]
    /\ LeaveLoop(r)
    /\ UNCHANGED tables

WakeUp(r) ==
    /\ pc[r] = "sleep" /\ LoopFree(req[r].worker)
    /\ Goto(r, "ocr")
    /\ loop' = [loop EXCEPT ![req[r].worker] = r]
    /\ UNCHANGED <<tables, req>>

(* OCRFailedException, on "UNREADABLE" at once: answered without a row by
   device_trigger, with one by entry_event and exit_event. *)
OcrFails(r) ==
    /\ pc[r] = "ocr"
    /\ IF req[r].op \in {"entry", "exit"} THEN UNCHANGED sessions
       ELSE Insert(DeniedRow(NULL, NULL))
    /\ Answer(r, "close")
    /\ UNCHANGED <<now, slotStatus, owner, money>>

(* The plate is known and its vehicle row looked up. *)
ReadPlate(r, v) ==
    /\ pc[r] = "ocr"
    /\ \/ /\ Registered(v)
          /\ Goto(r, "check")
          /\ req' = [req EXCEPT ![r].vehicle = v]
          /\ UNCHANGED <<sessions, loop>>
       \/ /\ ~Registered(v)
          /\ Insert(DeniedRow(NULL, v))
          /\ Answer(r, "close")
    /\ UNCHANGED <<now, slotStatus, owner, money>>

(* "Prevent double-entry for the same vehicle": no row is written. *)
RefuseDoubleEntry(r) ==
    /\ pc[r] = "check" /\ req[r].op \in EntryOps
    /\ ActiveSessions(req[r].vehicle) # {}
    /\ Answer(r, "close")
    /\ UNCHANGED tables

CheckNotParked(r) ==
    /\ pc[r] = "check" /\ req[r].op \in EntryOps
    /\ ActiveSessions(req[r].vehicle) = {}
    /\ Goto(r, "find_slot")
    /\ UNCHANGED <<tables, req, loop>>

RefuseFull(r) ==
    /\ pc[r] = "find_slot"
    /\ AvailableSlots = {}
    /\ Insert(DeniedRow(req[r].vehicle, req[r].vehicle))
    /\ Answer(r, "close")
    /\ UNCHANGED <<now, slotStatus, owner, money>>

FindSlot(r) ==
    /\ pc[r] = "find_slot"
    /\ \E p \in Slot : FirstAvailable(p) /\ req' = [req EXCEPT ![r].slot = p]
    /\ Goto(r, "open_session")
    /\ UNCHANGED <<tables, loop>>

(* open_session and the commit: slot row and session row together *)
OpenSession(r) ==
    /\ pc[r] = "open_session"
    /\ slotStatus' = [slotStatus EXCEPT ![req[r].slot] = "occupied"]
    /\ Insert(ActiveRow(req[r].vehicle, req[r].slot, req[r].time))
    /\ Answer(r, "open")
    /\ UNCHANGED <<now, owner, money>>

RefuseNoSession(r) ==
    /\ pc[r] = "check" /\ req[r].op \in ExitOps
    /\ ActiveSessions(req[r].vehicle) = {}
    /\ Insert(DeniedRow(req[r].vehicle, req[r].vehicle))
    /\ Answer(r, "close")
    /\ UNCHANGED <<now, slotStatus, owner, money>>

(* .first() without an order: any of the active sessions *)
FindSession(r) ==
    /\ pc[r] = "check" /\ req[r].op \in ExitOps
    /\ \E s \in ActiveSessions(req[r].vehicle) :
          req' = [req EXCEPT ![r].session = s, ![r].slot = sessions[s].slot,
                             ![r].amount = Fee(sessions[s].entry, req[r].time)]
    /\ Goto(r, "read_wallet")
    /\ UNCHANGED <<tables, loop>>

Wallet(r) == balance[owner[req[r].vehicle]]

(* InsufficientBalanceError: rolled back by _handle_exit, a denied row in
   exit_event *)
RefuseUnpaid(r) ==
    /\ pc[r] = "read_wallet"
    /\ ~CanPay(Wallet(r), req[r].amount)
    /\ IF req[r].op = "exit" THEN UNCHANGED sessions
       ELSE Insert(DeniedRow(req[r].vehicle, req[r].vehicle))
    /\ Answer(r, "close")
    /\ UNCHANGED <<now, slotStatus, owner, money>>

ReadWallet(r) ==
    /\ pc[r] = "read_wallet"
    /\ CanPay(Wallet(r), req[r].amount)
    /\ req' = [req EXCEPT ![r].user = owner[req[r].vehicle], ![r].funds = Wallet(r)]
    /\ Goto(r, "read_exit_slot")
    /\ UNCHANGED <<tables, loop>>

ReadExitSlot(r) ==
    /\ pc[r] = "read_exit_slot"
    /\ req' = [req EXCEPT ![r].seen = slotStatus[req[r].slot]]
    /\ Goto(r, "close_session")
    /\ UNCHANGED <<tables, loop>>

(* close_session and the commit: the balance written is the one read less the
   fee, not the row's less the fee. *)
CloseSession(r) ==
    LET s == req[r].session
        u == req[r].user
    IN  /\ pc[r] = "close_session"
        /\ balance' = [balance EXCEPT ![u] = req[r].funds - req[r].amount]
        /\ sessions' = [sessions EXCEPT ![s] = Completed(@, req[r].amount)]
        /\ slotStatus' = SlotAfterClose(r)
        /\ charged' = [charged EXCEPT ![u] = @ + req[r].amount]
        /\ debitRows' = [debitRows EXCEPT ![s] = @ + 1]
        /\ Answer(r, "open")
        /\ UNCHANGED <<now, owner, credited>>

-----------------------------------------------------------------------------
(* Requests of the web clients *)

(* book_slot reads the slot first, then the vehicle's sessions. *)
StartBook(r, w, v, p) ==
    /\ "book" \in Endpoints
    /\ Registered(v)
    /\ slotStatus[p] = "available"
    /\ StartThread(r, w, "check_vehicle",
                   [NoLocals EXCEPT !.op = "book", !.vehicle = v, !.slot = p])

CheckVehicle(r) ==
    /\ pc[r] = "check_vehicle"
    /\ IF ActiveSessions(req[r].vehicle) = {}
       THEN Goto(r, "book_slot") /\ UNCHANGED <<req, loop>>
       ELSE Finish(r)
    /\ UNCHANGED tables

BookSlot(r) ==
    /\ pc[r] = "book_slot"
    /\ slotStatus' = [slotStatus EXCEPT ![req[r].slot] = "reserved"]
    /\ Insert(ActiveRow(req[r].vehicle, req[r].slot, now))
    /\ Finish(r)
    /\ UNCHANGED <<now, owner, money>>

(* add_funds, and admin_credit_wallet with its own limit on the amount *)
StartTopUp(r, w, u, amount) ==
    /\ "top_up" \in Endpoints
    /\ credited[u] + amount <= MaxCredit
    /\ StartThread(r, w, "add_funds", [NoLocals EXCEPT !.op = "top_up", !.user = u,
                                       !.funds = balance[u], !.amount = amount])

AddFunds(r) ==
    LET u == req[r].user
    IN  /\ pc[r] = "add_funds"
        /\ balance' = [balance EXCEPT ![u] = req[r].funds + req[r].amount]
        /\ credited' = [credited EXCEPT ![u] = @ + req[r].amount]
        /\ Finish(r)
        /\ UNCHANGED <<now, slotStatus, sessions, owner, charged, debitRows>>

(* force_close_session: the status is checked here and written at the commit *)
StartForceClose(r, w, s) ==
    /\ "force_close" \in Endpoints
    /\ ForceClosable(s)
    /\ StartThread(r, w, "read_close_slot", [NoLocals EXCEPT !.op = "force_close",
                                             !.session = s, !.slot = sessions[s].slot])

ReadCloseSlot(r) ==
    /\ pc[r] = "read_close_slot"
    /\ req' = [req EXCEPT ![r].seen = slotStatus[req[r].slot]]
    /\ Goto(r, "force_close")
    /\ UNCHANGED <<tables, loop>>

ForceClose(r) ==
    /\ pc[r] = "force_close"
    /\ sessions' = [sessions EXCEPT ![req[r].session] = Completed(@, 0)]
    /\ slotStatus' = SlotAfterClose(r)
    /\ Finish(r)
    /\ UNCHANGED <<now, owner, money>>

(* override_slot *)
StartOverride(r, w, p, status) ==
    /\ p \in Overridable
    /\ StartThread(r, w, "override", [NoLocals EXCEPT !.op = "override", !.slot = p,
                                      !.status = status, !.seen = slotStatus[p]])

Override(r) ==
    /\ pc[r] = "override"
    /\ slotStatus' = IF req[r].seen # req[r].status
                     THEN [slotStatus EXCEPT ![req[r].slot] = req[r].status] ELSE slotStatus
    /\ Finish(r)
    /\ UNCHANGED <<now, sessions, owner, money>>

-----------------------------------------------------------------------------
(* A worker process dies or is restarted: what it had not committed is lost. *)
Crash(w) ==
    /\ pc' = [r \in Request |-> IF req[r].worker = w THEN "idle" ELSE pc[r]]
    /\ req' = [r \in Request |-> IF req[r].worker = w THEN NoLocals ELSE req[r]]
    /\ loop' = [loop EXCEPT ![w] = NULL]
    /\ UNCHANGED tables

Tick ==
    /\ now < MaxTick
    /\ now' = now + 1
    /\ UNCHANGED <<slotStatus, sessions, owner, money, pc, req, loop>>

Receive(r) ==
    \E w \in Worker :
        \/ \E op \in GateOps : Arrive(r, w, op)
        \/ \E v \in Vehicle, p \in Slot : StartBook(r, w, v, p)
        \/ \E u \in User, amount \in TopUp : StartTopUp(r, w, u, amount)
        \/ \E s \in SessionId : StartForceClose(r, w, s)
        \/ \E p \in Slot, status \in SlotStatus : StartOverride(r, w, p, status)

EntryStep(r) == RefuseDoubleEntry(r) \/ CheckNotParked(r) \/ RefuseFull(r) \/ FindSlot(r)
                \/ OpenSession(r)
ExitStep(r) == RefuseNoSession(r) \/ FindSession(r) \/ RefuseUnpaid(r) \/ ReadWallet(r)
               \/ ReadExitSlot(r) \/ CloseSession(r)
OcrStep(r) == RetryOcr(r) \/ OcrFails(r) \/ \E v \in Vehicle : ReadPlate(r, v)
WebStep(r) == CheckVehicle(r) \/ BookSlot(r) \/ AddFunds(r) \/ ReadCloseSlot(r)
              \/ ForceClose(r) \/ Override(r)

Next ==
    \/ \E r \in Request : Receive(r) \/ WakeUp(r) \/ OcrStep(r) \/ EntryStep(r)
                          \/ ExitStep(r) \/ WebStep(r)
    \/ \E w \in Worker : Crash(w)
    \/ Tick

Spec == Init /\ [][Next]_vars

(* A statement that was begun ends, and so does a call of the OCR client, by
   its timeout if not before.  A coroutine whose sleep is over waits for the
   event loop, whose ready queue is first come, first served: others may hold
   the loop meanwhile but cannot pass it for ever. *)
Fairness == \A r \in Request : /\ WF_vars(OcrStep(r) \/ EntryStep(r) \/ ExitStep(r) \/ WebStep(r))
                               /\ SF_vars(WakeUp(r))

FairSpec == Spec /\ Fairness

-----------------------------------------------------------------------------
(* Whatever overlaps, a wallet is never overdrawn: close_session writes the
   balance it compared with the fee, and top-ups only add. *)
WalletNonNegative == \A u \in User : balance[u] >= 0

(* A parking session has at most one DEBIT row (ParkingSession.transaction is
   uselist=False), although /trigger and the exit event may be repeated while
   the first one sleeps before it asks the OCR again. *)
OneDebitPerSession == \A s \in SessionId : debitRows[s] <= 1

(* A session is opened once and ended once: no race reopens a row or moves it
   to another plate, slot or entry time. *)
OnlyEnds ==
    \A s \in SessionId :
        /\ sessions'[s].status # sessions[s].status =>
              \/ sessions[s].status = "none" /\ sessions'[s].status \in {"active", "denied"}
              \/ sessions[s].status = "active" /\ sessions'[s].status = "completed"
        /\ sessions[s].status # "none" =>
              /\ sessions'[s].plate = sessions[s].plate
              /\ sessions'[s].slot = sessions[s].slot
              /\ sessions'[s].entry = sessions[s].entry

SessionsOnlyEnd == [][OnlyEnds]_vars

(* Every gate that sent an image gets its answer, or none because the worker
   died: no coroutine retries for ever or waits for ever for the event loop. *)
EveryGateAnswered ==
    \A r \in Request : pc[r] \in {"ocr", "sleep"} ~> pc[r] \in Answers \cup {"idle"}

(* The detailed handlers do what the atomic requests of ParkingLot do: the
   tables are the tables of both, and what the handlers and workers hold
   besides maps to nothing. *)
Lot == INSTANCE ParkingLot WITH
          now <- now, slotStatus <- slotStatus, sessions <- sessions, owner <- owner,
          balance <- balance, credited <- credited, charged <- charged,
          debitRows <- debitRows
LotSpec == Lot!Spec
==============================================================================

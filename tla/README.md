# Smart Parking Lot: models, checks and proofs

TLA+ models of the smart parking lot in this repository: its FastAPI backend,
its database tables, the firmware of its two gates, and its two web apps. TLC
checks them on small instances; TLAPS proves their safety properties for
every value of the constants. `PROJECT.json` maps every definition to the lines it stands for.

    tlasany M.tla                                parses a module
    tlc -workers 2 -config X.cfg M               model-checks M
    tlapm M.tla                                  checks the proofs of M

## The system

| Component | State | Operations | Talks to |
|---|---|---|---|
| Gate firmware, `arduino_code/` | sensor edge, servo, frame buffer, clock marks | `loop`: auto-close, heartbeat, capture and trigger; `/gate`, `/capture`, `/status` | server, over WiFi |
| Gate endpoints, `routes/iot.py`, `routes/esp32.py` | none of their own | `/api/iot/trigger` (entry or exit by the type of the device), two legacy events | OCR, tables |
| Plate recognition, `services/ocr.py` | the client object | up to 3 calls of an outside model, a sleep between them | OpenAI API |
| Parking service, `services/parking_service.py`, `billing.py` | `parking_slots`, `parking_sessions`, `wallet`, `transactions` | find a slot, open, deny and close a session, the fee | database |
| Parking and wallet endpoints, `routes/parking.py`, `wallet.py` | the same tables | book a slot, add funds | database |
| Admin endpoints, `routes/admin.py` | the same tables | force-close, override, credit, gate commands, simulation, users | database, gates |
| Accounts, `routes/auth.py`, `core/deps.py` | `users`, `vehicles` | register, log in, save the profile, add and delete a vehicle; whose token a request bears | database |
| Pre-booking, `routes/prebook.py`, `prebooking_service.py` | `pre_bookings` | create with a conflict query, cancel | database |
| Device registry, `routes/devices.py`, `device_service.py`, `main.py` | `devices` | register, heartbeat, touch by a trigger, the offline watcher | gates |
| User web app, `frontend/src/` | React state of the page shown; `localStorage` (token, user), shared by the tabs | sign in and out, profile and vehicles, dashboard with its polls, dialogs to book and to pre-book, wallet, own pre-bookings, camera | endpoints |
| Admin web app, `admin-app/src/` | the same, with keys of its own | overview and gate buttons, slots, users, sessions, transactions, captures, simulated triggers, pre-bookings | endpoints |
| Deployment | number of workers | start, restart | the server |

What makes it hard:

* **Interleaving.** Handlers declared `def` run on a thread pool and interleave
  statement by statement; `async def` handlers share one event loop. A handler
  reads rows, computes, and writes at a commit, with no version column, no row
  lock and no condition on the update.
* **A blocking call on the event loop.** The comment at `esp32.py:64` says the
  OCR "does not block the event loop"; the client is the synchronous one
  (`ocr.py:140`, called at `ocr.py:179`), so the loop stands still for the call,
  and is given up only by the sleep between two attempts. This serialises the
  gate handlers, which nothing else does.
* **Time.** The timestamp of an event is taken before its OCR; the fee has steps
  at full hours; a gate's loop stands still for a heartbeat (3 s) or for the
  answer to a picture (20 s); a device is offline after 60 s.
* **Delay and loss.** Gates repeat nothing and believe the last answer; a late
  answer is lost though the server acted on it; addresses change with DHCP.
* **Restarts** of the workers and of the gates, between any two steps.
* **Legal but unexpected sequences** of requests by admins and owners.
* **Answers out of order.** A page may have several requests under way: polls
  that overlap, reloads after a write, a filter changed while its rows load. It
  takes the answers in the order in which they come, gives a request up after
  15 s though the server may still carry it out, and is left and visited again
  meanwhile.
* **Tabs** share the stored token and not the user on the screen.

For each part, what makes it correct:

* billing: the published tariff, with no jump;
* tables, one request at a time: wallets equal their transactions, slots and
  active sessions agree, one active session per vehicle, one charge per paid
  session, ended sessions stay as they are;
* handlers, overlapping: whatever of the above survives races and crashes, and
  every gate gets an answer;
* pre-booking: nobody is refused without reason, a slot is held twice at most by
  requests that were in flight together;
* registry: silence is noticed in bounded time, the address is the present one,
  a live device is not listed as offline without cause;
* gates: sessions agree with the vehicles in the lot, gates close;
* signing in: a tab shows the account its requests are made for, each app has
  only its own kind of account, a refused token leads back to the login;
* pages: rows are those of the filter, page and picture chosen, nothing is
  reported done that is not, what was done is shown, an answer acts on the
  dialog that asked for it, spinners end.

## Modules

| Module | Models | Extends |
|---|---|---|
| `Billing` | the fee of a stay | |
| `ParkingTables` | the rows, the queries and row values, what the rows satisfy together | `Billing` |
| `ParkingLot` | abstract specification: one atomic action per request that writes | `ParkingTables` |
| `ParkingServer` | the same handlers, one action per SQL statement, on workers with an event loop each | `ParkingTables`; instantiates `ParkingLot` |
| `PreBooking` | creation and cancellation of pre-bookings, statement by statement | |
| `Devices` | registry, lossy network, event loop and watcher | |
| `Gates` | both controllers' loops, vehicles, late answers | |
| `WebAuth` | signing in and out of both apps, their storage and tabs | |
| `Client` | the HTTP client of both apps: requests, answers, time-outs, pages left | |
| `MyBookings`, `Wallet`, `Profile`, `Dashboard` | the pages of the user app, with the endpoints they call | `Client` |
| `CameraFeed` | the camera picture, refreshed by a timer | |
| `UserApp` | the user app: one page at a time | its pages |
| `AdminHome`, `UsersTab`, `SessionsTab`, `TransactionsTab`, `CapturesTab`, `TestingTab`, `PreBookingsTab` | the tabs of the admin panel, with the endpoints they call | `Client`; the last instantiates `MyBookings` |
| `PageBar` | the buttons under a list of many pages, for any number of pages | |
| `AdminPanel` | the admin panel: one tab at a time | its tabs |
| `MC…` | instances for TLC | the module they check |
| `…Proofs` | theorems | the module they are about |

How they meet: `ParkingServer` says what one request does between its statements;
`ParkingLot` is what it amounts to. `Gates` takes a decision of the server as one
step (which `ParkingServer` shows it to be on one worker) and adds what surrounds
it. `Devices` takes the OCR calls as time during which the loop is held. The web
modules take a request as served in one step, too, and add its way from the page
and back; what other people, gates and tabs do appears in them as changes of the
server's tables. `WebAuth` takes the pages as one screen "inside".

### State and actions against the code

* **`ParkingTables`**. `slotStatus`, `sessions`, `owner`, `balance` are the
  columns that handlers read or write; a row that does not exist has status
  `"none"`. `credited`, `charged` and `debitRows` are the sums and counts over
  `transactions` that the properties need. A slot stands for its position in the
  order of `slot_number`, a vehicle for its plate. Money is whole rupees, as
  the tariff and its arithmetic are.
* **`ParkingLot`**. `AllowEntry`, `AllowExit` and the refusals are the gate
  handlers of both families of endpoints; `BookSlot`, `AddFunds`, `ForceClose`,
  `OverrideSlot`, `AddVehicle` and `DeleteVehicle` the web handlers. The time of
  a gate event is any time up to now, as the code takes it before the OCR.
* **`ParkingServer`**. `pc[r]` names the next statement of request `r`, `req[r]`
  its local variables, `loop[w]` the coroutine that holds worker `w`'s event
  loop. `Arrive … CloseSession` are the gate handlers; `StartBook …`,
  `StartTopUp …`, `StartForceClose …`, `StartOverride …` the threads. `seen` is
  the slot's status when the ORM loaded it: SQLAlchemy writes a column only if
  it differs from the loaded value, so a stale object may leave it out
  (`SlotAfterClose`). `Crash` loses what was not committed.
* **`PreBooking`**. Times are pairs `<<HH, MM>>` compared as the texts are.
  `CheckConflict` and `CreateBooking` are the query at `prebook.py:51` and the
  INSERT at `prebooking_service.py:32`; `StartCancel` and `CancelBooking` read
  and write in two statements.
* **`Devices`**. A request of a controller is a member of `Call`: `Send` and
  `Boot` create it, `Lose` drops it, `Dispatch`, `ReadRow` and `CommitRow` are
  its handler. `Upsert` and `Touch` say what is committed, with the same rule on
  unchanged columns. `FindStale` and `MarkOffline` are the two statements of
  the watcher, which runs when `wait` reached `Period` and the loop is free.
* **`Gates`**. One action per thing `loop()` does, in the order of a pass:
  commands (`HandleGate`) and the test of the open gate (`AutoClose`) at its top,
  then a heartbeat, then the sensor (`Detect`, `ZoneCleared`). `beating[g]` is a
  `sendHeartbeat` and `sent[g]` the request of a `sendTrigger` that hold the loop,
  during which nothing else in it happens: a gate tested just before its time is
  over may be held by the one and then by the other before it is tested again.
  Any pass may send a heartbeat; their period is `Devices`' concern.
  `Decide` delivers an answer if the gate still waits, and drops it otherwise.
  Vehicles and the road are external.

* **`Client`**. `wire[c]` is a request from the click to the `await` that ends:
  `"sent"`, then answered (the server's tables change there), then taken by the
  page. `heard` says that the page still waits: it turns `FALSE` at the time-out
  of `client.js:5` and when the component is unmounted, and the request goes on.
  `SendAll` is `Promise.allSettled` over several reads.
* **Pages and tabs**. Variables have the names of the React state; `handle…`,
  `fetch…`, `onSuccess` and the `…Failed` actions are the code before and after
  an `await`. `…Screen` and `…Table` are what is rendered where several states
  look alike. A list is loaded, filtered and paged on whichever side the code
  does it. Variables that remember (`told`, `crowded`, `strayLoad`, `doubt`, …)
  are marked as history; they name the overlaps in which the code lets an older
  answer win, so that the properties say exactly when it does not. `Profile` reads
  its list once and then edits it from the answers, by the rows' ids; those are
  SQLite's, which gives the id of a deleted newest row again (`NewIds`).
  `GarageChangesElsewhere` is another tab or device of the user, and `blurred` holds
  the ids of which its property says nothing: changed elsewhere since the list was
  read, or given again before the deletion of their first vehicle was answered.
* **`WebAuth`**. `token` and `stored` are the two keys of `localStorage`,
  `shown[t]` the user in tab `t`'s React context. A request bears the token that
  is stored when it is sent; a 401 empties the storage and reloads the tab.

### Assumptions of the models

* The database is the SQLite file of the deployment: a SELECT reads the last
  commit and a commit is atomic. A server database with repeatable reads would
  give staler reads than these and is not modelled. "database is locked" errors
  are not modelled either; the watcher swallows them and tries again.
* The OCR reads the plate that is in the picture, or none. Who the request is
  from (tokens, roles) has been checked before the handler starts.
* Admins override some slots (`Overridable`), users book and gates fill all. The
  properties about slots speak of the others: what an admin does to an occupied
  slot is the admin's word against the table's.
* Denied rows keep no time or image: nothing but listings reads them.
* What lies under a dialog or a window is not clicked, as its overlay covers it;
  the keyboard's focus could still reach it.
* The accounts of `UsersTab` are those registered before the tab is shown; it has
  no reload, so one registered later is not in it.

## Runs

| Run | Question | Instance | Result |
|---|---|---|---|
| `billing` | Is the fee the tariff, for every stay? | −2 h to 10 h in steps of 100 s, which meet every full hour | `MatchesTariff` holds |
| `lot` | What do requests keep, one at a time? | 2 users, 2 vehicles, 2 slots (1 overridable), 3 sessions, 1 tick, all requests | 6 properties hold |
| `server` | What survives any overlap on one worker? | 2 requests of every kind, 1 user, 1 vehicle, 2 slots, 3 sessions | 5 properties hold |
| `gates` | Are the gate handlers atomic on one worker, and is every gate answered? | 2 requests, 2 vehicles, 1 slot, 3 attempts | `LotSpec` (refinement) and `EveryGateAnswered` hold |
| `two_workers` | One charge per session on two workers? | 2 workers, 2 requests | violated |
| `prebooking` | When is a slot held twice, who is refused? | 2 requests, 3 bookings, 2 days, times 9:58, 10:00, 10:01 | 2 properties hold |
| `double_booking` | Is a slot never held twice? | the same | violated |
| `devices` | Is the registry right about silent, moved and live devices? | 1 controller, 2 addresses, 2 requests under way, threshold 6, period 3, OCR up to 2 (ticks of 10 s) | 3 properties hold |
| `firmware` | Do sessions match the lot, do gates close? | 2 gates, 2 vehicles, 2 requests, 1 slot, a tick each for the opening time, a heartbeat and a picture | 2 properties hold |
| `web_auth` | Who is signed in, in which tab? | 2 tabs, 2 accounts of which one is an admin, 2 requests per tab, 1 mishap | 3 properties hold |
| `user_app` | Do the user's pages tell the truth and recover? | 2 requests under way, 2 pre-bookings, 2 plates, 3 row ids, 1 slot, 4 moves, 2 outages of the camera | 8 properties hold |
| `admin_panel` | Do the tabs of the panel? | 2 requests under way, 1 slot, 1 user with 2 names, 2 sessions, 9 transactions on pages of 1, 2 pictures, captures cut at 2, 4 moves | 8 properties hold |

Why these bounds are enough. A race in this code is between two handlers, one of
which writes between the read and the write of the other: two requests show it,
three sessions leave room for a session before the two that race, one slot fills
the lot and two let a freed one be reused. A tick of `TickSeconds` = 7200 makes a
stay cost 60 or 90, so that wallets of 60 and 90 pay one fee and not the other.
Prebooking's three times make windows that overlap, contain each other and meet
exactly, across the change of the hour, where comparing texts could differ from
comparing minutes. In `devices` two requests under way are enough for one to
overtake the other, and one controller is enough because rows do not affect each
other; the times are the code's own in ticks of 10 s. In `firmware` two vehicles
are one at each gate, or one in front of a gate opened for another; with a tick
for each of the three durations the run shows which of them can follow one
another before a gate closes (a gate is open for three ticks, never for four),
and `GateCloses` has the sum for any durations, the code's 5, 3 and 20 s and what
the camera, the connection and the servo add to the last. In the web runs
two requests under way let one overtake the other, and a page cannot tell more
of them apart, as it takes each answer without looking at the others. Four
moves are a visit, two clicks and a change made elsewhere, in any order; what
takes longer (nine pages of transactions, with an ellipsis on either side of the
bar) is in the initial state instead. Two tabs are one that acts and one that
does not hear of it; an account of each kind is one that the app may show and
one that it may not.

The runs over several modules check conjunctions of the parts' properties:
`OwnChangesShown`, `PagesRecover` (`UserApp`), `RowsAsChosen`, `PagesUsable` and
`RowsTrue` (`AdminPanel`). The type invariants of `PreBooking`, `Devices`,
`Gates` and `WebAuth` are proved and have no run.

Bounds and where they are: `SessionId`, with the guard `RoomForRows` so that no
handler is stopped half-way for want of a row; `MaxTick` (clock); `MaxCredit`
(CREDIT rows); `MaxRetries` (the code's own 3; 2 where liveness is not asked);
`MaxBookings`, with room reserved when a request starts; `MaxDay`; `OldAge` (ages
beyond the last threshold are equal); `MaxBlock` (the longest stretch of OCR
calls, a parameter because the code has no bound of its own: the client's
timeout is the library's default); `MaxMoves` (clicks, visits, losses and
changes made elsewhere; answers, polls and reloads are free), `VehicleId` (the row
ids there may be), `MaxOutages` (of
the camera), `MaxCalls` (requests of a tab), `MaxMishaps` (lost answers and
accounts switched off or on), `MaxTxns`, `MaxCaptures`. `OpenTime`, `Timeout`, `Threshold` and
`Period` are the code's constants in ticks. Four runs do not look for deadlocks:
`billing` stops at its longest stay, and in the web runs a page may rest when
the moves are spent and nothing is under way.

Fairness in `gates` (`FairSpec`). Weak fairness of a handler's next
statement: a thread or a coroutine that runs is scheduled again, and a call of
the OCR client ends, by its timeout if not before. Strong fairness of `WakeUp`:
a coroutine whose sleep is over is put into the ready queue of the event loop,
which is first come first served, so others may take the loop before it but not
for ever. Nothing is assumed of arrivals, crashes or the clock.

Fairness in the web runs. Weak fairness of a promise settling: axios gives up
after 15 s, so every `await` ends (`Answer`); in `UserApp` also of the server
serving the requests of the wallet and the dashboard that have arrived, of the
5 s timers of an open page (`usePolling`, the camera's `refresh`) and of the
browser loading or failing to load a picture; in `WebAuth` also of the polls of
an open tab. Nothing is assumed of clicks, visits and what others do.

## Proofs

All proofs hold for arbitrary sets and numbers under the named assumptions of
the modules: `NULL` and `None` are none of the values they stand beside, bounds
and times are naturals.

* **`ParkingLotProofs`**: types, ledger, one active session, slots against
  sessions, one charge, ended is final. The invariant is `TablesInv`, the types
  with the rows' filled columns, which each operation on a table keeps.
  `StepKinds` sorts the steps by what they write, so each property has a step
  per kind. The slot property is inductive with `TablesInv`; the charge property
  needs that a fee is never 0, a fact of `Billing`. About the tariff itself:
  the hours charged are the least number that covers the stay, a later exit
  costs the same or more (`LeavingLater`), and `TariffCorrect` says of the
  specification of the `billing` run, for every lead, longest stay and step,
  what that run checks (the hours begun are counted there as the members of an
  interval).
* **`ParkingServerProofs`**: `BaseInv` adds to the types and the rows which
  locals a handler has filled at each label (among them, that the funds it read
  cover its fee, whence `WalletNonNegative`) and that a running handler holds
  its loop. `OneDebitPerSession` assumes one worker: by `DebitInv` a session
  charged once is completed, and one a handler is about to charge has not been
  charged, as nothing ran since it was found active. `NoLeakedSlot` holds on any
  number of workers although slots are written from stale objects: by `LeakInv`
  a taken slot has a *witness*, an active session on it all of whose closers saw
  the slot taken, so that whoever closes it frees the slot.
  `AloneImplementsLot` is the refinement, for all endpoints and any number of
  workers: while no two handlers are between their first query and their commit
  at once (`Alone`), every step of the statements is a step of `ParkingLot` or
  leaves its tables alone, with any number of requests at the OCR, retried or
  cut off. `SerialInv` is why: what a handler has read is still what the tables
  say, so its commit is the atomic request made at that moment; the rows that
  others write meanwhile are denied ones, which no query returns. On one worker
  with gates only, `Alone` is an invariant (`GatesAlone`), which gives
  `GatesImplementLot`. `AloneKeepsLot` and `GatesKeepLot` bring the theorems
  about `ParkingLot` over. So whatever goes wrong in `ParkingServer` takes an
  overlap, and the next theorems say whose. On one worker, all other endpoints
  under way: only `book_slot` can park a vehicle twice
  (`OneActiveWithoutBooking`), only a top-up can make a wallet and its
  transactions disagree (`LedgerWithoutTopUps`), only `force_close_session` a
  session and its charge (`ChargedOnceWithoutForceClose`), only the first and
  the last of these the slots and the sessions
  (`SlotsMatchWithoutBookingAndForceClose`). `HeldInv` says what a coroutine has
  read that no thread in use can change; `UseInv`, that the statements of an
  endpoint that is not in use are not reached.
* **`PreBookingProofs`**: `RefusalCorrect` shows that comparing texts is
  comparing minutes; `QueryInv` says that what a request's query excluded stays
  excluded, since rows are only ever cancelled, from which `InFlightCorrect`
  follows; `OneAtATime` shows that without overlap there is no double booking.
* **`DevicesProofs`**: `LoopInv` bounds how long the watcher has waited by what
  holds the loop, which gives `SilenceNoticed`; `AddressInv` says that a
  registration under way carries the present address, is the only one and has
  read what the table still says, unless a boot overlapped; `SilentInv` that a
  request which loaded "online" before the watcher wrote "offline" is one the
  round has noticed.
* **`GatesProofs`**: `RequestInv` ties a request to the one gate that waits for
  it; `OpenInv` adds to the opening time what the heartbeat or the picture under way
  has already held the loop, for `GateCloses`;
  `VehicleInv` says that an undisturbed vehicle's only request is the one its
  gate waits for and that the gate opened for it still sees it, without which
  `SessionsMatchLot` is not inductive.
* **`WebAuthProofs`**: `TypeInv`, `KeysAgreeCorrect` and `ShownCorrect` (every
  step that makes the two keys differ sets `lateSave`, every step that changes
  them under another tab marks that tab), and `OnlyOwnKindCorrect` by `KindInv`:
  the answers under way, too, are for accounts of the app's kind.
* **`WebPagesProofs`**, about `UserApp`, for any number of requests under way.
  Lemmas say what a step may do to `wire`; `ClientInv`: requests are well formed
  and nobody waits for the answers of a page that is left. `BookingsInv`: a row
  that is shown or on its way as cancelled is cancelled. `WalletInv`: no answer
  promises more than the ledger holds, whence `NothingInvented`. `DialogInv`: a
  busy dialog has its own request under way, and numbers tell a dialog from the
  one opened after it, whence `BusyDialogHasRequest` and
  `ClosedByItsOwnAnswer`. `PollInv`: unless reads overlapped, no answer under
  way is older than what is shown, whence `AccountOnlyForward`.
  `OwnChangesCorrect` has an argument per page. Bookings: unless Refresh was
  pressed beside an outstanding answer, a load waits alone (`ReloadAlone`), so
  it cannot bring back a row cancelled meanwhile. Wallet (`TopUpInv`): a load
  that left before a top-up was clicked is a mixed one, any other was read
  after the top-up and holds it. Profile (`ProfileInv`): but for the ids that are
  blurred, the list of the page and the server's rows differ by exactly the edits
  whose answers are under way, and a new row has the id of none of them, or of
  one whose deletion is under way. What `Without` computes is proved by a
  first-order induction, from the well-foundedness of inclusion on intervals.
  `TypeCorrect` is the type invariant of all pages. `SpinnersHaveRequests`
  (`WaitInv`): a page that spins, or a button disabled while it waits, has its
  own request under way and hears its answer, so one answer always remains that
  ends it; a step other than that answer takes nothing from one who waits
  (`HeardKept`).
* **`AdminPanelProofs`**, about `AdminPanel`, with the same kind of lemmas about
  requests: an invariant per tab, and `PanelInv` joins them: the requests under
  way are those of the tab shown, the other tabs are as they start. It proves
  every safety property of the `admin_panel` run: a gate stands as it was last
  clicked; a credit stays shown and no edit reactivates unasked (`UsersInv`: an
  edit on its way bears what its form was opened with, and of the windows only
  the one open now waits for answers); rows belong to the filter and page chosen
  and tell the truth; the page shown can be left. `BarCorrect`: the page bar is
  right for every number of pages. `SpinnersHaveRequests` is for the tabs what it
  is for the user's pages. It assumes of the constants what the tabs'
  modules name (`UsersAssumption`, `AdminHomeAssumption`,
  `TransactionsAssumption`, `CapturesAssumption`, `ClientAssumption`).

Only model-checked: liveness (`EveryGateAnswered`, `DeadSessionEnds`,
`PagesRecover`, `PanelSpinnersStop`), whose fairness and ENABLED are beyond the
prover. The safety half of `PanelSpinnersStop`, and of `SpinnersStop` in
`PagesRecover`, is proved: `SpinnersHaveRequests`.

## What the runs found

* `two_workers`: `deployment/smartparking.service:10` starts two workers, whose
  event loops do not exclude each other: one session, two charges.
* `double_booking`: two pre-bookings in flight both find the window free.

Seen while modelling, without a run of their own. In the backend and the gates:

* `/trigger` refuses an exit for lack of funds without the denied session that
  README.md:191 promises; only the legacy event writes one.
* `book_slot` checks the slot at `parking.py:29` and writes at line 58: a slot
  taken in between is given to two sessions. A top-up (`wallet.py:38`) and an
  exit that overlap lose one of the two updates of the balance. `server`
  therefore asks for neither `SlotsMatchSessions` nor `LedgerBalanced`.
* A car booked on the web (`parking.py:45`) and entering at the gate
  (`esp32.py:103`) at the same time gets two active sessions.
* `force_close_session` (`admin.py:217` and 237) overlapping an exit overwrites
  the cost of a session that has just been paid with 0.
* Deleting the vehicle of a parked car detaches its session (`auth.py:116`); the
  plate, registered again, can enter a second time, and the first session only
  ends by force.
* `find_available_slot` does not look at pre-bookings: the entry gate gives
  pre-booked slots away. It also orders numbers as texts: of the slots P1 to P11
  of `seed.py`, P10 and P11 are given before P2, where its docstring says
  "lowest-numbered" (`parking_service.py:22`).
* The pattern of times (`prebook.py:20`) accepts minutes past 59.
* README.md:348 says "Auto-close gate after 5s if opened"; the loop that closes
  it may wait 3 s for a heartbeat's answer and 20 s for the next vehicle's before
  it tests the gate again, some 28 s in all (`ClosesInTime` has the three).
* `entry_gate.ino:462` says gate commands fail "until device re-registers"; a
  heartbeat is enough. `device_service.py:50` says "the server always has the
  current DHCP IP"; not after a lost registration or a reconnection, which
  does not register again.
* A device is marked offline not 60 s after it fell silent but up to one sleep
  of the watcher and one stretch of OCR calls later (`MarkedInTime`).
* `lastDetectMs` is set when a vehicle arrives and not while it waits: after
  1.5 s a flicker of the sensor counts as a departure, the next sample as a new
  vehicle, and the refusal of its second picture closes the gate on it.

In the web apps (`A` is `admin-app/src/pages/AdminDashboard.jsx`):

* Save sends `is_active` of the row the form was opened on (`A:382`, `A:438`):
  renaming a user undoes a deactivation made elsewhere since.
* Enter in the amount field credits again while a credit is under way
  (`A:330`); the button beside it is disabled.
* The toast of a gate button is a success though the server answered
  `unreachable` (`A:91`).
* The table of parked vehicles offers no Refresh when it loaded empty or failed
  (`A:164`).
* After a force close the sessions are loaded with the filter of the click, not
  the one chosen since (`A:486`).
* The late answer of an older filter is shown under the newer one (`A:474`,
  `A:896`). If it has more pages, the page then chosen may not exist, and the
  bar to leave it is hidden (`A:1003`).
* A late decision of a simulated trigger is shown under the picture chosen
  meanwhile (`A:1316`).
* The success of a booking closes the dialog that is open by then, which may be
  another slot's (`Dashboard.jsx:183`, `Dashboard.jsx:191`).
* After a top-up the older of two loads may be answered last; the page does not
  poll, so the old balance stays (`Wallet.jsx:56`).
* The vehicles of the profile are loaded once (`Profile.jsx:41`): what is added or
  removed in another tab or on another device does not appear.
* A vehicle added while the deletion of the newest one is unanswered may get its id
  from SQLite: the answer to the deletion then filters both out (`Profile.jsx:79`),
  and a second click on the bin of the old row deletes the new vehicle.
* When another tab signs out or in, a tab goes on showing its own user and makes
  its requests with the other's token, or none, until one is refused; a profile
  saved late stores a user that the token is not of.

## Not modelled

* Password hashing, the signature of tokens and their expiry after a day:
  library calls on values that the models keep abstract.
* What `delete_user` leaves in the parking tables: it depends on which foreign
  keys the database in use enforces, and neither the code nor a document says
  what should hold then. The panel's side of a deletion is in `UsersTab`.
* `get_device_ip` where two controllers are of one type: the deployment has one
  of each.
* `frontend/src/pages/AdminDashboard.jsx` and `frontend/src/api/admin.js`, an
  earlier copy of the panel: no route and no import reaches them.
* Wording, layout and toasts of the pages, but for what their properties say.
* Image compression, mirroring and the text of a plate; the frame buffer behind
  `GET /capture`.
* `services/slot_service.py`: no handler calls it. Schemas are the input sets of
  the requests. Migrations run before the server starts. The OCR example is a
  script of its own.

## Plan

Done, in the order of weight: tables and atomic requests; statements and their
refinement; pre-booking; device registry; gates; signing in; the user's pages;
the admin panel.

Left, and why:

1. Deletion of users against the parking tables, once the deployment fixes a
   database and its foreign keys.
2. Names of slots as texts against their numbers, should the order of the slots
   ever matter to another part.

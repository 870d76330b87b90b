------------------------------- MODULE Devices -------------------------------
(***************************************************************************)
(* The registry of the gate controllers: devices.py, device_service.py,    *)
(* the offline watcher of main.py and the first statements of              *)
(* device_trigger.                                                         *)
(*                                                                         *)
(* A controller sends its requests and does not act on the answers of      *)
(* register and heartbeat, so a request is here a call that the network    *)
(* may lose, delay or deliver after a later one.  The handlers of register *)
(* and heartbeat run on the thread pool and interleave with everything,    *)
(* statement by statement; the watcher and device_trigger run on the event *)
(* loop, which dispatches every call and which an OCR call holds.          *)
(*                                                                         *)
(* Time passes in ticks, of 10 s in the code's terms; a handler that has   *)
(* read its row commits within the tick.  age is the time since last_seen, *)
(* up to OldAge.  History variables: registered[d], the registration of    *)
(* d's present address was committed; overlap[d], a registration of an     *)
(* earlier address was under way when d took its present one; watched, the *)
(* watcher has run since the server started; raced[d], a request of d      *)
(* overlapped the round that last marked it.                               *)
(***************************************************************************)
EXTENDS Integers, FiniteSets

CONSTANTS
    Device, Address, NULL,
    Call,           \* requests that may be under way at the same time
    Threshold,      \* OFFLINE_THRESHOLD_SECONDS, in ticks
    Period,         \* the sleep of the watcher, in ticks
    MaxBlock        \* the longest time that OCR calls hold the event loop

ASSUME TimeAssumption == Threshold \in Nat /\ Period \in Nat \ {0} /\ MaxBlock \in Nat

VARIABLES
    address,        \* of each controller, NULL if it is down or off the network
    row,            \* the devices table
    call, loop, busyFor, wait, stale,
    registered, overlap, watched, raced

server == <<loop, busyFor, wait, stale, watched, raced>>
history == <<registered, overlap>>
vars == <<address, row, call, server, history>>

Deadline == Threshold + Period + MaxBlock
OldAge == Deadline + 1

Columns == [ip : Address, status : {"online", "offline"}]
Row == [ip : Address, status : {"online", "offline"}, age : 0..OldAge]
Request == [kind : {"register", "heartbeat", "trigger"}, device : Device, ip : Address \cup {NULL},
            pc : {"sent", "read", "commit"}, loaded : Columns \cup {NULL}]

ASSUME NullAssumption ==
    NULL \notin Address /\ NULL \notin Columns /\ NULL \notin Row /\ NULL \notin Request

TypeOK ==
    /\ address \in [Device -> Address \cup {NULL}]
    /\ row \in [Device -> Row \cup {NULL}]
    /\ call \in [Call -> Request \cup {NULL}]
    /\ loop \in {"free", "trigger", "ocr", "watcher"}
    /\ busyFor \in 0..MaxBlock
    /\ wait \in 0..(Period + MaxBlock)
    /\ stale \subseteq Device
    /\ registered \in [Device -> BOOLEAN] /\ overlap \in [Device -> BOOLEAN]
    /\ watched \in BOOLEAN /\ raced \in [Device -> BOOLEAN]

Init ==
    /\ address = [d \in Device |-> NULL]
    /\ row = [d \in Device |-> NULL]
    /\ call = [c \in Call |-> NULL]
    /\ loop = "free" /\ busyFor = 0
    /\ wait = 0 /\ stale = {} /\ watched = FALSE
    /\ registered = [d \in Device |-> FALSE]
    /\ overlap = [d \in Device |-> FALSE]
    /\ raced = [d \in Device |-> FALSE]

-----------------------------------------------------------------------------
(* Controllers and network *)

Registering(d) ==
    {c \in Call : call[c] # NULL /\ call[c].kind = "register" /\ call[c].device = d}

(* A boot or a new lease: the DHCP server gives an address that no controller
   on the network has. *)
TakeAddress(d, ip) ==
    /\ address[d] = NULL
    /\ \A e \in Device : address[e] # ip
    /\ address' = [address EXCEPT ![d] = ip]
    /\ overlap' = [overlap EXCEPT ![d] = Registering(d) # {}]

(* registerWithServer, once per boot *)
Boot(d, ip, c) ==
    /\ TakeAddress(d, ip)
    /\ call[c] = NULL
    /\ call' = [call EXCEPT ![c] = [kind |-> "register", device |-> d, ip |-> ip,
                                    pc |-> "sent", loaded |-> NULL]]
    /\ UNCHANGED <<row, server, registered>>

(* The WiFi library reconnects by itself; nothing registers again. *)
Reconnect(d, ip) ==
    /\ TakeAddress(d, ip)
    /\ UNCHANGED <<row, call, server, registered>>

(* Power or WiFi is lost. *)
LeaveNetwork(d) ==
    /\ address[d] # NULL
    /\ address' = [address EXCEPT ![d] = NULL]
    /\ registered' = [registered EXCEPT ![d] = FALSE]
    /\ overlap' = [overlap EXCEPT ![d] = FALSE]
    /\ UNCHANGED <<row, call, server>>

(* sendHeartbeat every HEARTBEAT_INTERVAL_MS, sendTrigger at a vehicle; an
   interval may be longer when the loop is held by another request. *)
Send(d, kind, c) ==
    /\ kind \in {"heartbeat", "trigger"}
    /\ address[d] # NULL
    /\ call[c] = NULL
    /\ call' = [call EXCEPT ![c] = [kind |-> kind, device |-> d, ip |-> NULL,
                                    pc |-> "sent", loaded |-> NULL]]
    /\ UNCHANGED <<address, row, server, history>>

Lose(c) ==
    /\ call[c] # NULL /\ call[c].pc = "sent"
    /\ call' = [call EXCEPT ![c] = NULL]
    /\ UNCHANGED <<address, row, server, history>>

-----------------------------------------------------------------------------
(* The handlers *)

(* The watcher's sleep is over.  A trigger may still go first in that tick,
   not later: the loop runs what is ready in its order. *)
WatcherDue == wait >= Period

(* register and heartbeat go to the thread pool, a trigger keeps the loop. *)
Dispatch(c) ==
    /\ call[c] # NULL /\ call[c].pc = "sent"
    /\ loop = "free"
    /\ IF call[c].kind = "trigger"
       THEN wait <= Period /\ loop' = "trigger"
       ELSE UNCHANGED loop
    /\ call' = [call EXCEPT ![c].pc = "read"]
    /\ UNCHANGED <<address, row, busyFor, wait, stale, watched, raced, history>>

(* db.query(Device)...first(); an unknown device gets a 404 unless it is the
   one that registers. *)
ReadRow(c) ==
    LET stored == row[call[c].device] IN
    /\ call[c] # NULL /\ call[c].pc = "read"
    /\ IF stored = NULL /\ call[c].kind # "register"
       THEN /\ call' = [call EXCEPT ![c] = NULL]
            /\ loop' = IF call[c].kind = "trigger" THEN "free" ELSE loop
       ELSE /\ call' = [call EXCEPT ![c].pc = "commit", ![c].loaded =
                   IF stored = NULL THEN NULL ELSE [ip |-> stored.ip, status |-> stored.status]]
            /\ UNCHANGED loop
    /\ UNCHANGED <<address, row, busyFor, wait, stale, watched, raced, history>>

(* Mutants, used by no action: what the properties are there to catch. *)
MutantAddressOnce(r) ==
    LET stored == row[r.device] IN
    IF stored = NULL THEN [ip |-> r.ip, status |-> "online", age |-> 0]
                     ELSE [stored EXCEPT !.status = "online", !.age = 0]

MutantTouchAge(r) == [row[r.device] EXCEPT !.age = 0]

MutantStale(d) == row[d] # NULL /\ row[d].status = "online" /\ row[d].age > Threshold + 1

(* The ORM writes a column only if its value is not the one that was loaded. *)
Written(stored, loaded, new) == IF loaded = new THEN stored ELSE new

(* upsert_device: the INSERT fails on the unique device_id if another call
   has inserted the row in between. *)
Upsert(r) ==
    LET stored == row[r.device] IN
    IF r.loaded = NULL
    THEN IF stored = NULL THEN [ip |-> r.ip, status |-> "online", age |-> 0] ELSE stored
    ELSE [ip |-> Written(stored.ip, r.loaded.ip, r.ip),
          status |-> Written(stored.status, r.loaded.status, "online"), age |-> 0]

(* touch_heartbeat, and the same assignments in device_trigger *)
Touch(r) ==
    LET stored == row[r.device] IN
    [stored EXCEPT !.status = Written(@, r.loaded.status, "online"), !.age = 0]

CommitRow(c) ==
    LET r == call[c] IN
    /\ r # NULL /\ r.pc = "commit"
    /\ row' = [row EXCEPT ![r.device] = IF r.kind = "register" THEN Upsert(r) ELSE Touch(r)]
    /\ registered' = [registered EXCEPT ![r.device] =
                         @ \/ (r.kind = "register" /\ r.ip = address[r.device])]
    /\ call' = [call EXCEPT ![c] = NULL]
    /\ IF r.kind = "trigger"
       THEN loop' = "ocr" /\ busyFor' = 0
       ELSE UNCHANGED <<loop, busyFor>>
    /\ UNCHANGED <<address, wait, stale, watched, raced, overlap>>

(* A legacy endpoint calls the OCR: entry_event or exit_event, which know no
   device. *)
LegacyOcr ==
    /\ loop = "free" /\ wait <= Period
    /\ loop' = "ocr"
    /\ UNCHANGED <<address, row, call, busyFor, wait, stale, watched, raced, history>>

(* extract_license_plate has returned; the gate's answer is ParkingServer's. *)
OcrDone ==
    /\ loop = "ocr"
    /\ loop' = "free" /\ busyFor' = 0
    /\ UNCHANGED <<address, row, call, wait, stale, watched, raced, history>>

-----------------------------------------------------------------------------
(* The watcher *)

Stale(d) == row[d] # NULL /\ row[d].status = "online" /\ row[d].age > Threshold

Committing(d) == \E c \in Call : call[c] # NULL /\ call[c].pc = "commit" /\ call[c].device = d

FindStale ==
    /\ loop = "free" /\ WatcherDue
    /\ loop' = "watcher"
    /\ stale' = {d \in Device : Stale(d)}
    /\ UNCHANGED <<address, row, call, busyFor, wait, watched, raced, history>>

(* d.status = "offline" for the devices found, then the next sleep. *)
MarkOffline ==
    /\ loop = "watcher"
    /\ row' = [d \in Device |-> IF d \in stale THEN [row[d] EXCEPT !.status = "offline"] ELSE row[d]]
    /\ loop' = "free" /\ stale' = {}
    /\ wait' = 0 /\ watched' = TRUE
    /\ raced' = [d \in Device |->
                     IF d \in stale THEN row[d].age = 0 \/ Committing(d) ELSE raced[d]]
    /\ UNCHANGED <<address, call, busyFor, history>>

-----------------------------------------------------------------------------
(* The server stops and starts again. *)
Restart ==
    /\ call' = [c \in Call |-> NULL]
    /\ loop' = "free" /\ busyFor' = 0
    /\ wait' = 0 /\ stale' = {} /\ watched' = FALSE
    /\ UNCHANGED <<address, row, raced, history>>

(* No tick passes while the watcher is due and the loop is free, nor between
   the read and the commit of a handler, nor beyond the longest OCR. *)
Tick ==
    /\ \A c \in Call : call[c] # NULL => call[c].pc = "sent"
    /\ \/ loop = "free" /\ ~WatcherDue /\ UNCHANGED busyFor
       \/ loop = "ocr" /\ busyFor < MaxBlock /\ busyFor' = busyFor + 1
    /\ wait' = wait + 1
    /\ row' = [d \in Device |-> IF row[d] = NULL THEN NULL
                                ELSE [row[d] EXCEPT !.age = IF @ < OldAge THEN @ + 1 ELSE @]]
    /\ UNCHANGED <<address, call, loop, stale, watched, raced, history>>

Next ==
    \/ \E d \in Device :
          \/ \E ip \in Address : Reconnect(d, ip) \/ \E c \in Call : Boot(d, ip, c)
          \/ LeaveNetwork(d)
          \/ \E c \in Call, kind \in {"heartbeat", "trigger"} : Send(d, kind, c)
    \/ \E c \in Call : Lose(c) \/ Dispatch(c) \/ ReadRow(c) \/ CommitRow(c)
    \/ LegacyOcr \/ OcrDone \/ FindStale \/ MarkOffline
    \/ Restart \/ Tick

Spec == Init /\ [][Next]_vars

-----------------------------------------------------------------------------
(* What the watcher promises: a device that fell silent does not stay listed
   as online for longer than the threshold, one sleep and one stretch of OCR
   calls (device_service.py:144, main.py:31), the first sleep of a server that
   has just started left aside. *)
MarkedInTime ==
    \A d \in Device : row[d] # NULL /\ row[d].status = "online" /\ watched
                         => row[d].age <= Deadline

(* A controller on the network whose registration was committed is listed
   under the address it has, however its requests and those of its earlier
   boots were delayed or lost, unless a registration of an earlier boot was
   still under way when it booted (device_service.py:39). *)
AddressIsCurrent ==
    \A d \in Device : address[d] # NULL /\ registered[d] /\ ~overlap[d]
                         => row[d] # NULL /\ row[d].ip = address[d]

(* A controller that was heard within the threshold is listed as offline only
   if a request of its own overlapped the round of the watcher that marked it:
   the watcher writes the status it decided on before that request's commit,
   or that request the columns it loaded before the round
   (device_service.py:144). *)
OfflineOnlyIfSilent ==
    \A d \in Device : row[d] # NULL /\ row[d].status = "offline" /\ row[d].age <= Threshold
                         => raced[d]

=============================================================================

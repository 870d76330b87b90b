-------------------------------- MODULE Gates --------------------------------
(***************************************************************************)
(* The two gates: the firmware of entry_gate.ino and exit_gate.ino, the    *)
(* vehicles in front of them, and what device_trigger decides on their     *)
(* pictures.                                                               *)
(*                                                                         *)
(* A controller runs one loop.  A pass of it serves the commands of admins *)
(* (handleClient), tests whether the gate is to be closed, may send a      *)
(* heartbeat and reads the sensor, in this order; sendHeartbeat waits in   *)
(* the loop for its answer, up to HTTP_TIMEOUT_HEARTBEAT_MS.  sendTrigger  *)
(* posts the picture and waits there too, up to HTTP_TIMEOUT_TRIGGER_MS;   *)
(* an answer that comes later is lost, though the server has acted on the  *)
(* picture.                                                                *)
(*                                                                         *)
(* The server works on one picture at a time (ParkingServer has its        *)
(* statements); of the tables only the vehicles with an active session     *)
(* matter here.  Sessions that start or end with no vehicle at a gate      *)
(* (bookings on the web, admins) are left out, and the OCR reads the right *)
(* plate or none.                                                          *)
(*                                                                         *)
(* Time passes in ticks, and only in the two waits and between passes: a   *)
(* loop goes round at 50 Hz, and what else of it takes time (camera,       *)
(* connection, servo, the commands served before the next test) is counted *)
(* in Timeout.  The period of the heartbeats (Devices has it) is left out: *)
(* any pass may send one.  History variables: grant[g], the vehicle that g *)
(* was opened for and that has not yet passed; disturbed, the vehicles to  *)
(* which something happened that the firmware and the server do not see:   *)
(* an answer lost, an infrared sensor that lost sight of them, a passage   *)
(* behind another vehicle, a return, a gate closed before they moved.      *)
(***************************************************************************)
EXTENDS Integers, FiniteSets

CONSTANTS
    Vehicle, NULL,
    Slots,          \* number of parking slots
    OpenTime,       \* GATE_OPEN_MS, in ticks
    Heartbeat,      \* the longest sendHeartbeat: HTTP_TIMEOUT_HEARTBEAT_MS, in ticks
    Timeout,        \* the longest from a detection to the next pass:
                    \* HTTP_TIMEOUT_TRIGGER_MS and the above, in ticks
    Picture         \* trigger requests that may be under way at the same time

ASSUME TimeAssumption ==
    OpenTime \in Nat /\ Heartbeat \in Nat /\ Timeout \in Nat /\ Slots \in Nat

VARIABLES
    place,          \* of each vehicle
    present,        \* vehiclePresent of each controller
    gateOpen, openFor,
    beating,        \* sendHeartbeat is waiting
    beatFor,
    sent,           \* the picture that sendTrigger waits for, or NULL
    sentFor,
    picture,        \* the requests: who is on it, from which gate, the answer
    active,         \* vehicles with an active session
    grant, disturbed

servo == <<gateOpen, openFor, grant>>
pulse == <<beating, beatFor>>
vars == <<place, present, servo, pulse, sent, sentFor, picture, active, disturbed>>

Gate == {"entry", "exit"}
MaxOpen == OpenTime + Heartbeat + Timeout
Request == [gate : Gate, vehicle : Vehicle, answer : {"none", "open", "close"}]

ASSUME NullAssumption == NULL \notin Vehicle /\ NULL \notin Picture /\ NULL \notin Request

TypeOK ==
    /\ place \in [Vehicle -> {"out", "entry", "lot", "exit"}]
    /\ present \in [Gate -> BOOLEAN]
    /\ gateOpen \in [Gate -> BOOLEAN] /\ openFor \in [Gate -> Nat]
    /\ grant \in [Gate -> Vehicle \cup {NULL}]
    /\ beating \in [Gate -> BOOLEAN] /\ beatFor \in [Gate -> 0..Heartbeat]
    /\ sent \in [Gate -> Picture \cup {NULL}] /\ sentFor \in [Gate -> 0..Timeout]
    /\ picture \in [Picture -> Request \cup {NULL}]
    /\ active \subseteq Vehicle /\ disturbed \subseteq Vehicle

Init ==
    /\ place = [v \in Vehicle |-> "out"]
    /\ present = [g \in Gate |-> FALSE]
    /\ gateOpen = [g \in Gate |-> FALSE] /\ openFor = [g \in Gate |-> 0]
    /\ beating = [g \in Gate |-> FALSE] /\ beatFor = [g \in Gate |-> 0]
    /\ sent = [g \in Gate |-> NULL] /\ sentFor = [g \in Gate |-> 0]
    /\ picture = [p \in Picture |-> NULL]
    /\ active = {}
    /\ grant = [g \in Gate |-> NULL] /\ disturbed = {}

-----------------------------------------------------------------------------
(* The vehicles *)

InZone(g) == {v \in Vehicle : place[v] = g}
Before(g) == IF g = "entry" THEN "out" ELSE "lot"
Beyond(g) == IF g = "entry" THEN "lot" ELSE "out"
Move(v, to) == place' = [place EXCEPT ![v] = to]

Arrive(v, g) ==
    /\ place[v] = Before(g) /\ InZone(g) = {}
    /\ Move(v, g)
    /\ UNCHANGED <<present, servo, pulse, sent, sentFor, picture, active, disturbed>>

(* Through the open gate, its own opening or not *)
Pass(v, g) ==
    /\ place[v] = g /\ gateOpen[g]
    /\ Move(v, Beyond(g))
    /\ grant' = [grant EXCEPT ![g] = IF @ = v THEN NULL ELSE @]
    /\ disturbed' = IF grant[g] = v THEN disturbed ELSE disturbed \cup {v}
    /\ UNCHANGED <<present, gateOpen, openFor, pulse, sent, sentFor, picture, active>>

(* A vehicle that gives up while its picture is judged or its gate is open
   leaves the tables wrong. *)
Pictured(v) == \E p \in Picture : picture[p] # NULL /\ picture[p].vehicle = v

TurnBack(v, g) ==
    /\ place[v] = g
    /\ Move(v, Before(g))
    /\ disturbed' = IF grant[g] = v \/ Pictured(v) THEN disturbed \cup {v} ELSE disturbed
    /\ UNCHANGED <<present, servo, pulse, sent, sentFor, picture, active>>

-----------------------------------------------------------------------------
(* The controllers *)

(* sendTrigger is not waiting. *)
Looping(g) == sent[g] = NULL

(* A pass begins: its commands and its test of the open gate are to come. *)
AtTop(g) == Looping(g) /\ ~beating[g]

(* Mutants, used by no action: what the properties are there to catch. *)
MutantTested(g) == TRUE

(* The test left the gate open.  Clock and loop are not in step: the test may
   have come just before the time was over. *)
Tested(g) == gateOpen[g] => openFor[g] <= OpenTime

(* The sensor is read: after the test or, if the pass has a heartbeat, as soon
   as sendHeartbeat returns *)
AtSensor(g) == Looping(g) /\ (beating[g] \/ Tested(g))

HeartbeatOver(g) ==
    /\ beating' = [beating EXCEPT ![g] = FALSE]
    /\ beatFor' = [beatFor EXCEPT ![g] = 0]

LetThrough(g) == {grant[g]} \ {NULL}

(* controlGate(open), for vehicle v or for nobody: closing the gate on a
   vehicle that was let through and has not moved disturbs that vehicle. *)
ControlGate(g, open, v) ==
    /\ gateOpen' = [gateOpen EXCEPT ![g] = open]
    /\ openFor' = [openFor EXCEPT ![g] = 0]
    /\ grant' = [grant EXCEPT ![g] = IF open THEN v ELSE NULL]

(* sendTrigger returns without an answer: the server may still be at work. *)
Abandon(g) ==
    /\ picture' = [p \in Picture |->
                      IF p = sent[g] /\ picture[p].answer # "none" THEN NULL ELSE picture[p]]
    /\ sent' = [sent EXCEPT ![g] = NULL] /\ sentFor' = [sentFor EXCEPT ![g] = 0]

(* Rising edge of the sensor: the picture is taken and posted.  A camera or a
   network that fails leaves the gate as it is, and the vehicle is not seen
   again before it leaves the zone. *)
Detect(g, v) ==
    /\ AtSensor(g) /\ ~present[g] /\ v \in InZone(g)
    /\ HeartbeatOver(g)
    /\ present' = [present EXCEPT ![g] = TRUE]
    /\ \/ \E p \in Picture :
             /\ picture[p] = NULL
             /\ picture' = [picture EXCEPT ![p] = [gate |-> g, vehicle |-> v, answer |-> "none"]]
             /\ sent' = [sent EXCEPT ![g] = p] /\ sentFor' = [sentFor EXCEPT ![g] = 0]
       \/ UNCHANGED <<picture, sent, sentFor>>
    /\ UNCHANGED <<place, servo, active, disturbed>>

(* sendHeartbeat holds the loop, between the test of the gate and the sensor,
   until it is answered, fails or gives up; nothing depends on which. *)
SendHeartbeat(g) ==
    /\ AtTop(g) /\ Tested(g)
    /\ beating' = [beating EXCEPT ![g] = TRUE]
    /\ UNCHANGED <<place, present, servo, beatFor, sent, sentFor, picture, active, disturbed>>

(* It returns, and the sensor shows no edge. *)
HeartbeatEnds(g) ==
    /\ AtSensor(g) /\ beating[g]
    /\ HeartbeatOver(g)
    /\ UNCHANGED <<place, present, servo, sent, sentFor, picture, active, disturbed>>

(* sendTrigger got its 200: the servo follows the answer. *)
Receive(g) ==
    /\ ~Looping(g)
    /\ LET r == picture[sent[g]] IN
       /\ r.answer # "none"
       /\ ControlGate(g, r.answer = "open", r.vehicle)
       /\ disturbed' = disturbed \cup (LetThrough(g) \ IF r.answer = "open" THEN {r.vehicle} ELSE {})
       /\ picture' = [picture EXCEPT ![sent[g]] = NULL]
    /\ sent' = [sent EXCEPT ![g] = NULL] /\ sentFor' = [sentFor EXCEPT ![g] = 0]
    /\ UNCHANGED <<place, present, pulse, active>>

(* No answer within the timeout, a connection that breaks, an HTTP error: the
   gate is closed. *)
GiveUp(g) ==
    /\ ~Looping(g)
    /\ ControlGate(g, FALSE, NULL)
    /\ Abandon(g)
    /\ disturbed' = disturbed \cup LetThrough(g) \cup {picture[sent[g]].vehicle}
    /\ UNCHANGED <<place, present, pulse, active>>

AutoClose(g) ==
    /\ AtTop(g) /\ gateOpen[g] /\ openFor[g] >= OpenTime
    /\ ControlGate(g, FALSE, NULL)
    /\ disturbed' = disturbed \cup LetThrough(g)
    /\ UNCHANGED <<place, present, pulse, sent, sentFor, picture, active>>

(* Falling edge: the zone is empty, or the majority vote missed the vehicle in
   it; lastDetectMs is the time of its arrival. *)
ZoneCleared(g) ==
    /\ AtSensor(g) /\ present[g]
    /\ HeartbeatOver(g)
    /\ present' = [present EXCEPT ![g] = FALSE]
    /\ disturbed' = disturbed \cup InZone(g)
    /\ UNCHANGED <<place, servo, sent, sentFor, picture, active>>

(* handleGate: the command of an admin (gate_control), which waits for
   handleClient as long as sendTrigger or sendHeartbeat holds the loop *)
HandleGate(g, action) ==
    /\ AtTop(g)
    /\ ControlGate(g, action = "open", NULL)
    /\ disturbed' = disturbed \cup LetThrough(g)
    /\ UNCHANGED <<place, present, pulse, sent, sentFor, picture, active>>

(* A reset: setup closes the gate. *)
Reboot(g) ==
    /\ ControlGate(g, FALSE, NULL)
    /\ Abandon(g)
    /\ HeartbeatOver(g)
    /\ present' = [present EXCEPT ![g] = FALSE]
    /\ disturbed' = disturbed \cup LetThrough(g) \cup InZone(g)
                       \cup (IF Looping(g) THEN {} ELSE {picture[sent[g]].vehicle})
    /\ UNCHANGED <<place, active>>

-----------------------------------------------------------------------------
(* The server *)

Awaited(p) == \E g \in Gate : sent[g] = p

Decide(p, answer) ==
    picture' = [picture EXCEPT ![p] = IF Awaited(p) THEN [@ EXCEPT !.answer = answer] ELSE NULL]

Open(p) == picture[p] # NULL /\ picture[p].answer = "none"

(* _handle_entry: a session for a vehicle that has none, while a slot is free *)
AllowEntry(p) ==
    /\ Open(p) /\ picture[p].gate = "entry"
    /\ picture[p].vehicle \notin active
    /\ Cardinality(active) < Slots
    /\ active' = active \cup {picture[p].vehicle}
    /\ Decide(p, "open")
    /\ UNCHANGED <<place, present, servo, pulse, sent, sentFor, disturbed>>

MutantAllowExit(p) ==
    /\ Open(p) /\ picture[p].gate = "exit"
    /\ picture[p].vehicle \in active
    /\ active' = active
    /\ Decide(p, "open")
    /\ UNCHANGED <<place, present, servo, pulse, sent, sentFor, disturbed>>

(* _handle_exit, with enough in the wallet *)
AllowExit(p) ==
    /\ Open(p) /\ picture[p].gate = "exit"
    /\ picture[p].vehicle \in active
    /\ active' = active \ {picture[p].vehicle}
    /\ Decide(p, "open")
    /\ UNCHANGED <<place, present, servo, pulse, sent, sentFor, disturbed>>

(* Every refusal: no plate, no slot, a session already or none, no money *)
Deny(p) ==
    /\ Open(p)
    /\ Decide(p, "close")
    /\ UNCHANGED <<place, present, servo, pulse, sent, sentFor, active, disturbed>>

(* No tick passes when a loop has something to do by its clock. *)
Tick ==
    /\ \A g \in Gate :
          /\ AtTop(g) /\ gateOpen[g] => openFor[g] < OpenTime
          /\ beating[g] => beatFor[g] < Heartbeat
          /\ ~Looping(g) => sentFor[g] < Timeout
    /\ beatFor' = [g \in Gate |-> IF beating[g] THEN beatFor[g] + 1 ELSE 0]
    /\ openFor' = [g \in Gate |-> IF gateOpen[g] THEN openFor[g] + 1 ELSE 0]
    /\ sentFor' = [g \in Gate |-> IF Looping(g) THEN 0 ELSE sentFor[g] + 1]
    /\ UNCHANGED <<place, present, gateOpen, beating, sent, picture, active, grant, disturbed>>

Next ==
    \/ \E v \in Vehicle, g \in Gate : Arrive(v, g) \/ Pass(v, g) \/ TurnBack(v, g) \/ Detect(g, v)
    \/ \E g \in Gate :
          \/ Receive(g) \/ GiveUp(g) \/ AutoClose(g) \/ ZoneCleared(g) \/ Reboot(g)
          \/ SendHeartbeat(g) \/ HeartbeatEnds(g)
          \/ \E action \in {"open", "close"} : HandleGate(g, action)
    \/ \E p \in Picture : AllowEntry(p) \/ AllowExit(p) \/ Deny(p)
    \/ Tick

Spec == Init /\ [][Next]_vars

-----------------------------------------------------------------------------
(* The active sessions are the vehicles in the lot (iot.py:125, iot.py:167),
   except for a vehicle whose gate is open or about to open for it, and except
   for those that were disturbed: every other difference would be a fault of
   the program. *)
Opening(v, g) ==
    \/ grant[g] = v
    \/ sent[g] # NULL /\ picture[sent[g]].vehicle = v /\ picture[sent[g]].answer = "open"

SessionsMatchLot ==
    \A v \in Vehicle \ disturbed :
        /\ place[v] = "out"   => v \notin active
        /\ place[v] = "lot"   => v \in active
        /\ place[v] = "entry" => (v \in active <=> Opening(v, "entry"))
        /\ place[v] = "exit"  => (v \notin active <=> Opening(v, "exit"))

(* A gate stays open no longer than its opening time, one heartbeat and one
   picture: both may hold the loop after it last tested the gate and before
   it can close it (entry_gate.ino:170-193). *)
ClosesInTime == \A g \in Gate : gateOpen[g] => openFor[g] <= MaxOpen

=============================================================================

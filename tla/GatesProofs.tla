----------------------------- MODULE GatesProofs -----------------------------
(***************************************************************************)
(* The theorems about Gates, for any number of vehicles and requests and   *)
(* any times.                                                              *)
(*                                                                         *)
(* RequestInv ties a request to the controller that waits for it;          *)
(* OpenInv is ClosesInTime with the time that the loop may already have    *)
(* been held since it tested the gate; VehicleInv says of an undisturbed vehicle that its requests are   *)
(* awaited at the gate it stands at, and that the gate opened for it is    *)
(* one that still sees it.                                                 *)
(***************************************************************************)
EXTENDS Gates, TLAPS

RequestInv ==
    /\ \A g \in Gate : sent[g] # NULL =>
          /\ picture[sent[g]] # NULL /\ picture[sent[g]].gate = g
          /\ present[g]
    /\ \A p \in Picture : picture[p] # NULL /\ picture[p].answer # "none" => Awaited(p)

(* Since the last test: the heartbeat under way; or one that may be over, and
   the picture under way. *)
Held(g) == IF beating[g] /\ Looping(g) THEN beatFor[g]
           ELSE Heartbeat + IF Looping(g) THEN 0 ELSE sentFor[g]

OpenInv == \A g \in Gate : gateOpen[g] => openFor[g] <= OpenTime + Held(g)

Requested(v) ==
    \A p \in Picture : picture[p] # NULL /\ picture[p].vehicle = v =>
        Awaited(p) /\ place[v] = picture[p].gate

Granted(v) ==
    \A g \in Gate : grant[g] = v => place[v] = g /\ present[g] /\ ~Pictured(v)

Matches(v) ==
    /\ place[v] = "out"   => v \notin active
    /\ place[v] = "lot"   => v \in active
    /\ place[v] = "entry" => (v \in active <=> Opening(v, "entry"))
    /\ place[v] = "exit"  => (v \notin active <=> Opening(v, "exit"))

Orderly(v) == Requested(v) /\ Granted(v) /\ Matches(v)

VehicleInv == \A v \in Vehicle \ disturbed : Orderly(v)

Base == TypeOK /\ RequestInv

PulseOK == beating \in [Gate -> BOOLEAN] /\ beatFor \in [Gate -> 0..Heartbeat]

LEMMA Times == /\ OpenTime \in Nat /\ Heartbeat \in Nat /\ Timeout \in Nat
               /\ MaxOpen = OpenTime + Heartbeat + Timeout
BY TimeAssumption DEF MaxOpen

(* Of an awaited request its gate is known, so no two gates await the same. *)
LEMMA AwaitedRequest ==
    ASSUME Base, NEW g \in Gate, sent[g] # NULL
    PROVE  /\ sent[g] \in Picture /\ picture[sent[g]] \in Request
           /\ picture[sent[g]].gate = g /\ picture[sent[g]].vehicle \in Vehicle
           /\ present[g]
           /\ \A h \in Gate : sent[h] = sent[g] => h = g
<1>1. sent[g] \in Picture
    BY DEF Base, TypeOK
<1>2. picture[sent[g]] # NULL /\ picture[sent[g]].gate = g /\ present[g]
    BY DEF Base, RequestInv
<1>3. picture[sent[g]] \in Request
    BY <1>1, <1>2 DEF Base, TypeOK
<1>4. ASSUME NEW h \in Gate, sent[h] = sent[g] PROVE h = g
    BY <1>2, <1>4 DEF Base, RequestInv
<1>5. QED
    BY <1>1, <1>2, <1>3, <1>4 DEF Request

LEMMA OpenRequest ==
    ASSUME Base, NEW p \in Picture, Open(p)
    PROVE  /\ picture[p] \in Request /\ picture[p].answer = "none"
           /\ picture[p].vehicle \in Vehicle
BY DEF Base, TypeOK, Open, Request

-----------------------------------------------------------------------------
(* Types *)

LEMMA ServoType ==
    ASSUME TypeOK, NEW g \in Gate, NEW open \in BOOLEAN, NEW v \in Vehicle \cup {NULL},
           ControlGate(g, open, v)
    PROVE  /\ gateOpen' \in [Gate -> BOOLEAN] /\ openFor' \in [Gate -> Nat]
           /\ grant' \in [Gate -> Vehicle \cup {NULL}]
<1>1. gateOpen' \in [Gate -> BOOLEAN]
    BY DEF TypeOK, ControlGate
<1>2. openFor' \in [Gate -> Nat]
    BY DEF TypeOK, ControlGate
<1>3. grant' \in [Gate -> Vehicle \cup {NULL}]
    BY DEF TypeOK, ControlGate
<1>4. QED
    BY <1>1, <1>2, <1>3

LEMMA AbandonType ==
    ASSUME TypeOK, NEW g \in Gate, Abandon(g)
    PROVE  /\ sent' \in [Gate -> Picture \cup {NULL}] /\ sentFor' \in [Gate -> 0..Timeout]
           /\ picture' \in [Picture -> Request \cup {NULL}]
<1>1. 0 \in 0..Timeout
    BY Times
<1>2. sent' \in [Gate -> Picture \cup {NULL}]
    BY DEF TypeOK, Abandon
<1>3. sentFor' \in [Gate -> 0..Timeout]
    BY <1>1 DEF TypeOK, Abandon
<1>4. picture' \in [Picture -> Request \cup {NULL}]
    BY DEF TypeOK, Abandon
<1>5. QED
    BY <1>2, <1>3, <1>4

LEMMA DecideType ==
    ASSUME Base, NEW p \in Picture, Open(p), NEW answer \in {"open", "close"}, Decide(p, answer)
    PROVE  /\ picture' \in [Picture -> Request \cup {NULL}]
           /\ Awaited(p) => picture'[p] = [picture[p] EXCEPT !.answer = answer]
           /\ Awaited(p) => picture'[p] \in Request
           /\ ~Awaited(p) => picture'[p] = NULL
           /\ \A q \in Picture \ {p} : picture'[q] = picture[q]
<1>1. picture[p] \in Request
    BY OpenRequest
<1>2. [picture[p] EXCEPT !.answer = answer] \in Request
    BY <1>1 DEF Request
<1>3. QED
    BY <1>2 DEF Base, TypeOK, Decide

LEMMA PulseType ==
    ASSUME TypeOK, NEW g \in Gate, UNCHANGED pulse \/ HeartbeatOver(g)
    PROVE  PulseOK'
<1>1. 0 \in 0..Heartbeat
    BY Times
<1>2. CASE UNCHANGED pulse
    BY <1>2 DEF TypeOK, PulseOK, pulse
<1>3. CASE HeartbeatOver(g)
    BY <1>1, <1>3 DEF TypeOK, PulseOK, HeartbeatOver
<1>4. QED
    BY <1>2, <1>3

LEMMA GateSets ==
    ASSUME TypeOK, NEW g \in Gate
    PROVE  LetThrough(g) \subseteq Vehicle /\ InZone(g) \subseteq Vehicle
BY DEF TypeOK, LetThrough, InZone

LEMMA InitBase == Init => Base
<1> SUFFICES ASSUME Init PROVE Base
    OBVIOUS
<1>1. 0 \in 0..Timeout /\ 0 \in 0..Heartbeat
    BY Times
<1>2. TypeOK
    BY <1>1 DEF Init, TypeOK
<1>3. RequestInv
    BY DEF Init, RequestInv
<1>4. QED
    BY <1>2, <1>3 DEF Base

(* Servo, sensor and vehicles: no request is touched. *)
LEMMA QuietBase ==
    ASSUME Base, UNCHANGED <<sent, sentFor, picture, active>>,
           gateOpen' \in [Gate -> BOOLEAN], openFor' \in [Gate -> Nat],
           grant' \in [Gate -> Vehicle \cup {NULL}],
           place' \in [Vehicle -> {"out", "entry", "lot", "exit"}],
           present' \in [Gate -> BOOLEAN], disturbed' \subseteq Vehicle, PulseOK',
           \A g \in Gate : sent[g] # NULL => present'[g]
    PROVE  Base'
<1>1. TypeOK'
    BY DEF Base, TypeOK, PulseOK
<1>2. RequestInv'
    BY DEF Base, RequestInv, Awaited
<1>3. QED
    BY <1>1, <1>2 DEF Base

LEMMA VehicleBase ==
    ASSUME Base, NEW v \in Vehicle, NEW g \in Gate,
           Arrive(v, g) \/ Pass(v, g) \/ TurnBack(v, g)
    PROVE  Base'
<1>1. /\ Before(g) \in {"out", "entry", "lot", "exit"} /\ g \in {"out", "entry", "lot", "exit"}
      /\ Beyond(g) \in {"out", "entry", "lot", "exit"}
    BY DEF Gate, Before, Beyond
<1>2. place' \in [Vehicle -> {"out", "entry", "lot", "exit"}]
    BY <1>1 DEF Arrive, Pass, TurnBack, Move, Base, TypeOK
<1>3. UNCHANGED <<present, gateOpen, openFor, sent, sentFor, picture, active>>
    BY DEF Arrive, Pass, TurnBack, servo
<1>4. grant' \in [Gate -> Vehicle \cup {NULL}]
    BY DEF Arrive, Pass, TurnBack, servo, Base, TypeOK
<1>5. disturbed' \subseteq Vehicle
    BY DEF Arrive, Pass, TurnBack, Base, TypeOK
<1>6. \A h \in Gate : sent[h] # NULL => present'[h]
    BY <1>3 DEF Base, RequestInv
<1>7. gateOpen' \in [Gate -> BOOLEAN] /\ openFor' \in [Gate -> Nat] /\ present' \in [Gate -> BOOLEAN]
    BY <1>3 DEF Base, TypeOK
<1>8. PulseOK'
    BY PulseType DEF Arrive, Pass, TurnBack, Base
<1>9. QED
    BY <1>2, <1>3, <1>4, <1>5, <1>6, <1>7, <1>8, QuietBase

LEMMA BeatBase ==
    ASSUME Base, NEW g \in Gate, SendHeartbeat(g) \/ HeartbeatEnds(g)
    PROVE  Base'
<1>1. UNCHANGED <<place, present, gateOpen, openFor, grant, sent, sentFor, picture, active, disturbed>>
    BY DEF SendHeartbeat, HeartbeatEnds, servo
<1>2. PulseOK'
  <2>1. CASE SendHeartbeat(g)
    BY <2>1 DEF SendHeartbeat, Base, TypeOK, PulseOK
  <2>2. CASE HeartbeatEnds(g)
    BY <2>2, PulseType DEF HeartbeatEnds, Base
  <2>3. QED
    BY <2>1, <2>2
<1>3. QED
    BY <1>1, <1>2, QuietBase DEF Base, TypeOK, RequestInv

LEMMA LoopBase ==
    ASSUME Base, NEW g \in Gate, NEW action \in {"open", "close"},
           AutoClose(g) \/ ZoneCleared(g) \/ HandleGate(g, action)
    PROVE  Base'
<1>1. UNCHANGED <<place, sent, sentFor, picture, active>> /\ sent[g] = NULL
    BY DEF AutoClose, ZoneCleared, HandleGate, AtTop, AtSensor, Looping
<1>2. /\ gateOpen' \in [Gate -> BOOLEAN] /\ openFor' \in [Gate -> Nat]
      /\ grant' \in [Gate -> Vehicle \cup {NULL}]
  <2>1. CASE AutoClose(g)
    BY <2>1, ServoType DEF AutoClose, Base
  <2>2. CASE ZoneCleared(g)
    BY <2>2 DEF ZoneCleared, servo, Base, TypeOK
  <2>3. CASE HandleGate(g, action)
    <3>1. (action = "open") \in BOOLEAN
      OBVIOUS
    <3>2. ControlGate(g, action = "open", NULL)
      BY <2>3 DEF HandleGate
    <3>3. QED
      BY <3>1, <3>2, ServoType DEF Base
  <2>4. QED
    BY <2>1, <2>2, <2>3
<1>3. disturbed' \subseteq Vehicle
  <2>1. LetThrough(g) \subseteq Vehicle /\ InZone(g) \subseteq Vehicle /\ disturbed \subseteq Vehicle
    BY GateSets DEF Base, TypeOK
  <2>2. QED
    BY <2>1 DEF AutoClose, ZoneCleared, HandleGate
<1>4. present' \in [Gate -> BOOLEAN] /\ \A h \in Gate : h # g => present'[h] = present[h]
    BY DEF AutoClose, ZoneCleared, HandleGate, Base, TypeOK
<1>5. \A h \in Gate : sent[h] # NULL => present'[h]
    BY <1>1, <1>4 DEF Base, RequestInv
<1>6. place' \in [Vehicle -> {"out", "entry", "lot", "exit"}]
    BY <1>1 DEF Base, TypeOK
<1>7. PulseOK'
    BY PulseType DEF AutoClose, ZoneCleared, HandleGate, Base
<1>8. QED
    BY <1>1, <1>2, <1>3, <1>4, <1>5, <1>6, <1>7, QuietBase

LEMMA DetectBase ==
    ASSUME Base, NEW g \in Gate, NEW v \in Vehicle, Detect(g, v)
    PROVE  Base'
<1>1. /\ UNCHANGED <<place, gateOpen, openFor, grant, active, disturbed>> /\ sent[g] = NULL
      /\ PulseOK'
    BY PulseType DEF Detect, servo, AtSensor, Looping, Base
<1>2. present' \in [Gate -> BOOLEAN] /\ present' = [present EXCEPT ![g] = TRUE]
    BY DEF Detect, Base, TypeOK
<1>3. CASE UNCHANGED <<picture, sent, sentFor>>
  <2>1. \A h \in Gate : sent[h] # NULL => present'[h]
    BY <1>2 DEF Base, RequestInv, TypeOK
  <2>2. QED
    BY <1>1, <1>2, <1>3, <2>1, QuietBase DEF Base, TypeOK
<1>4. ASSUME NEW p \in Picture, picture[p] = NULL,
             picture' = [picture EXCEPT ![p] = [gate |-> g, vehicle |-> v, answer |-> "none"]],
             sent' = [sent EXCEPT ![g] = p], sentFor' = [sentFor EXCEPT ![g] = 0]
      PROVE  Base'
  <2> DEFINE r == [gate |-> g, vehicle |-> v, answer |-> "none"]
  <2>1. r \in Request /\ r # NULL /\ r.gate = g /\ r.answer = "none"
    BY NullAssumption DEF Request
  <2> HIDE DEF r
  <2>2. /\ picture' \in [Picture -> Request \cup {NULL}] /\ picture'[p] = r
        /\ \A q \in Picture \ {p} : picture'[q] = picture[q]
    BY <1>4, <2>1 DEF Base, TypeOK, r
  <2>3. /\ sent' \in [Gate -> Picture \cup {NULL}] /\ sent'[g] = p
        /\ \A h \in Gate \ {g} : sent'[h] = sent[h]
    BY <1>4 DEF Base, TypeOK
  <2>4. sentFor' \in [Gate -> 0..Timeout]
    <3>1. 0 \in 0..Timeout
      BY Times
    <3>2. QED
      BY <1>4, <3>1 DEF Base, TypeOK
  <2>5. TypeOK'
    BY <1>1, <1>2, <2>2, <2>3, <2>4 DEF Base, TypeOK, PulseOK
  <2>6. ASSUME NEW h \in Gate, sent'[h] # NULL
        PROVE  picture'[sent'[h]] # NULL /\ picture'[sent'[h]].gate = h /\ present'[h]
    <3>1. CASE h = g
      BY <1>2, <2>1, <2>2, <2>3, <3>1 DEF Base, TypeOK
    <3>2. CASE h # g
      <4>1. sent'[h] = sent[h] /\ sent[h] \in Picture /\ picture[sent[h]] # NULL
            /\ picture[sent[h]].gate = h /\ present[h]
        BY <2>3, <2>6, <3>2, AwaitedRequest DEF Base, RequestInv
      <4>2. sent[h] # p
        BY <1>4, <4>1
      <4>3. QED
        BY <1>2, <2>2, <4>1, <4>2 DEF Base, TypeOK
    <3>3. QED
      BY <3>1, <3>2
  <2>7. ASSUME NEW q \in Picture, picture'[q] # NULL, picture'[q].answer # "none"
        PROVE  Awaited(q)'
    <3>1. q # p /\ picture'[q] = picture[q]
      BY <2>1, <2>2, <2>7
    <3>2. PICK h \in Gate : sent[h] = q
      BY <2>7, <3>1 DEF Base, RequestInv, Awaited
    <3>3. h # g
      BY <1>1, <2>7, <3>1, <3>2, NullAssumption
    <3>4. QED
      BY <2>3, <3>2, <3>3 DEF Awaited
  <2>8. QED
    BY <2>5, <2>6, <2>7 DEF Base, RequestInv
<1>5. QED
    BY <1>3, <1>4 DEF Detect

(* A controller that waits no longer: its request is gone or, if the server
   has still to decide on it, abandoned. *)
LEMMA ClearedBase ==
    ASSUME Base, NEW g \in Gate, UNCHANGED <<place, active>>,
           sent' = [sent EXCEPT ![g] = NULL], sentFor' = [sentFor EXCEPT ![g] = 0],
           gateOpen' \in [Gate -> BOOLEAN], openFor' \in [Gate -> Nat],
           grant' \in [Gate -> Vehicle \cup {NULL}],
           present' \in [Gate -> BOOLEAN], disturbed' \subseteq Vehicle, PulseOK',
           \A h \in Gate \ {g} : present'[h] = present[h],
           picture' \in [Picture -> Request \cup {NULL}],
           \A p \in Picture : p # sent[g] => picture'[p] = picture[p],
           sent[g] # NULL => \/ picture'[sent[g]] = NULL
                             \/ picture'[sent[g]] = picture[sent[g]] /\ picture[sent[g]].answer = "none"
    PROVE  Base'
<1>1. sentFor' \in [Gate -> 0..Timeout]
  <2>1. 0 \in 0..Timeout
    BY Times
  <2>2. QED
    BY <2>1 DEF Base, TypeOK
<1>2. /\ sent' \in [Gate -> Picture \cup {NULL}] /\ sent'[g] = NULL
      /\ \A h \in Gate \ {g} : sent'[h] = sent[h]
    BY DEF Base, TypeOK
<1>3. TypeOK'
    BY <1>1, <1>2 DEF Base, TypeOK, PulseOK
<1>4. ASSUME NEW h \in Gate, sent'[h] # NULL
      PROVE  picture'[sent'[h]] # NULL /\ picture'[sent'[h]].gate = h /\ present'[h]
  <2>1. h # g /\ sent'[h] = sent[h] /\ sent[h] # NULL
    BY <1>2, <1>4
  <2>2. /\ sent[h] \in Picture /\ picture[sent[h]] # NULL
        /\ picture[sent[h]].gate = h /\ present[h]
    BY <2>1 DEF Base, RequestInv, TypeOK
  <2>3. sent[h] # sent[g]
    BY <2>1, AwaitedRequest
  <2>4. QED
    BY <2>1, <2>2, <2>3
<1>5. ASSUME NEW p \in Picture, picture'[p] # NULL, picture'[p].answer # "none"
      PROVE  Awaited(p)'
  <2>1. p # sent[g] /\ picture'[p] = picture[p]
    <3>1. CASE p = sent[g]
      BY <1>5, <3>1, NullAssumption
    <3>2. CASE p # sent[g]
      BY <3>2
    <3>3. QED
      BY <3>1, <3>2
  <2>2. PICK h \in Gate : sent[h] = p
    BY <1>5, <2>1 DEF Base, RequestInv, Awaited
  <2>3. h # g
    BY <2>1, <2>2
  <2>4. QED
    BY <1>2, <2>2, <2>3 DEF Awaited
<1>6. QED
    BY <1>3, <1>4, <1>5 DEF Base, RequestInv

(* What Abandon leaves of the request that was awaited. *)
LEMMA Abandoned ==
    ASSUME Base, NEW g \in Gate, Abandon(g)
    PROVE  /\ \A p \in Picture : p # sent[g] => picture'[p] = picture[p]
           /\ sent[g] # NULL =>
                \/ picture'[sent[g]] = NULL
                \/ picture'[sent[g]] = picture[sent[g]] /\ picture[sent[g]].answer = "none"
<1>1. \A p \in Picture : picture'[p] =
          IF p = sent[g] /\ picture[p].answer # "none" THEN NULL ELSE picture[p]
    BY DEF Abandon
<1>2. sent[g] # NULL => sent[g] \in Picture
    BY DEF Base, TypeOK
<1>3. QED
    BY <1>1, <1>2

LEMMA ReceiveBase ==
    ASSUME Base, NEW g \in Gate, Receive(g)
    PROVE  Base'
<1>1. sent[g] # NULL /\ sent[g] \in Picture /\ picture[sent[g]].vehicle \in Vehicle
    BY AwaitedRequest DEF Receive, Looping
<1>2. PICK open \in BOOLEAN, v \in Vehicle : ControlGate(g, open, v)
  <2>1. (picture[sent[g]].answer = "open") \in BOOLEAN
    OBVIOUS
  <2>2. ControlGate(g, picture[sent[g]].answer = "open", picture[sent[g]].vehicle)
    BY DEF Receive
  <2>3. QED
    BY <1>1, <2>1, <2>2
<1>3. /\ gateOpen' \in [Gate -> BOOLEAN] /\ openFor' \in [Gate -> Nat]
      /\ grant' \in [Gate -> Vehicle \cup {NULL}]
    BY <1>2, ServoType DEF Base
<1>4. /\ picture' = [picture EXCEPT ![sent[g]] = NULL]
      /\ sent' = [sent EXCEPT ![g] = NULL] /\ sentFor' = [sentFor EXCEPT ![g] = 0]
      /\ UNCHANGED <<place, present, active>>
      /\ disturbed' \subseteq disturbed \cup LetThrough(g)
    BY DEF Receive
<1>5. disturbed' \subseteq Vehicle
    BY <1>4, GateSets DEF Base, TypeOK
<1>6. /\ picture' \in [Picture -> Request \cup {NULL}] /\ picture'[sent[g]] = NULL
      /\ \A p \in Picture : p # sent[g] => picture'[p] = picture[p]
    BY <1>1, <1>4 DEF Base, TypeOK
<1>7. present' \in [Gate -> BOOLEAN] /\ \A h \in Gate \ {g} : present'[h] = present[h]
    BY <1>4 DEF Base, TypeOK
<1>8. PulseOK'
    BY PulseType DEF Receive, Base
<1>9. QED
    BY <1>3, <1>4, <1>5, <1>6, <1>7, <1>8, ClearedBase

LEMMA GiveUpBase ==
    ASSUME Base, NEW g \in Gate, GiveUp(g) \/ Reboot(g)
    PROVE  Base'
<1>1. ControlGate(g, FALSE, NULL) /\ Abandon(g) /\ UNCHANGED <<place, active>>
    BY DEF GiveUp, Reboot
<1>2. /\ gateOpen' \in [Gate -> BOOLEAN] /\ openFor' \in [Gate -> Nat]
      /\ grant' \in [Gate -> Vehicle \cup {NULL}]
    BY <1>1, ServoType DEF Base
<1>3. picture' \in [Picture -> Request \cup {NULL}]
    BY <1>1, AbandonType DEF Base
<1>4. sent' = [sent EXCEPT ![g] = NULL] /\ sentFor' = [sentFor EXCEPT ![g] = 0]
    BY <1>1 DEF Abandon
<1>5. present' \in [Gate -> BOOLEAN] /\ \A h \in Gate \ {g} : present'[h] = present[h]
    BY DEF GiveUp, Reboot, Base, TypeOK
<1>6. disturbed' \subseteq Vehicle
  <2>1. LetThrough(g) \subseteq Vehicle /\ InZone(g) \subseteq Vehicle /\ disturbed \subseteq Vehicle
    BY GateSets DEF Base, TypeOK
  <2>2. sent[g] # NULL => {picture[sent[g]].vehicle} \subseteq Vehicle
    BY AwaitedRequest
  <2>3. QED
    BY <2>1, <2>2 DEF GiveUp, Reboot, Looping
<1>7. PulseOK'
    BY PulseType DEF GiveUp, Reboot, Base
<1>8. QED
    BY <1>1, <1>2, <1>3, <1>4, <1>5, <1>6, <1>7, Abandoned, ClearedBase

LEMMA DecideBase ==
    ASSUME Base, NEW p \in Picture, AllowEntry(p) \/ AllowExit(p) \/ Deny(p)
    PROVE  Base'
<1>1. PICK answer \in {"open", "close"} : Decide(p, answer)
    BY DEF AllowEntry, AllowExit, Deny
<1>2. Open(p) /\ UNCHANGED <<place, present, gateOpen, openFor, grant, beating, beatFor,
                              sent, sentFor, disturbed>>
    BY DEF AllowEntry, AllowExit, Deny, servo, pulse
<1>3. picture[p] \in Request /\ picture[p].vehicle \in Vehicle
    BY <1>2, OpenRequest
<1>4. active' \subseteq Vehicle
    BY <1>3 DEF AllowEntry, AllowExit, Deny, Base, TypeOK
<1>5. /\ picture' \in [Picture -> Request \cup {NULL}]
      /\ Awaited(p) => picture'[p] \in Request /\ picture'[p].gate = picture[p].gate
      /\ ~Awaited(p) => picture'[p] = NULL
      /\ \A q \in Picture \ {p} : picture'[q] = picture[q]
  <2>1. [picture[p] EXCEPT !.answer = answer].gate = picture[p].gate
    BY <1>3 DEF Request
  <2>2. /\ picture' \in [Picture -> Request \cup {NULL}]
        /\ Awaited(p) => picture'[p] = [picture[p] EXCEPT !.answer = answer]
        /\ Awaited(p) => picture'[p] \in Request
        /\ ~Awaited(p) => picture'[p] = NULL
        /\ \A q \in Picture \ {p} : picture'[q] = picture[q]
    BY <1>1, <1>2, DecideType
  <2>3. QED
    BY <2>1, <2>2
<1>6. TypeOK'
    BY <1>2, <1>4, <1>5 DEF Base, TypeOK
<1>7. ASSUME NEW h \in Gate, sent[h] # NULL
      PROVE  picture'[sent[h]] # NULL /\ picture'[sent[h]].gate = h /\ present'[h]
  <2>1. sent[h] \in Picture /\ picture[sent[h]] # NULL /\ picture[sent[h]].gate = h /\ present[h]
    BY <1>7 DEF Base, RequestInv, TypeOK
  <2>2. Awaited(sent[h])
    BY DEF Awaited
  <2>3. QED
    BY <1>2, <1>5, <2>1, <2>2, NullAssumption
<1>8. ASSUME NEW q \in Picture, picture'[q] # NULL, picture'[q].answer # "none"
      PROVE  Awaited(q)
  <2>1. CASE q = p
    BY <1>5, <1>8, <2>1
  <2>2. CASE q # p
    BY <1>5, <1>8, <2>2 DEF Base, RequestInv
  <2>3. QED
    BY <2>1, <2>2
<1>9. RequestInv'
    BY <1>2, <1>7, <1>8 DEF RequestInv, Awaited
<1>10. QED
    BY <1>6, <1>9 DEF Base

LEMMA TickBase ==
    ASSUME Base, Tick
    PROVE  Base'
<1>1. UNCHANGED <<place, present, gateOpen, beating, sent, picture, active, grant, disturbed>>
    BY DEF Tick
<1>2. openFor' \in [Gate -> Nat]
    BY DEF Tick, Base, TypeOK
<1>3. sentFor' \in [Gate -> 0..Timeout]
  <2>1. \A g \in Gate : (IF Looping(g) THEN 0 ELSE sentFor[g] + 1) \in 0..Timeout
    <3>1. ASSUME NEW g \in Gate, ~Looping(g) PROVE sentFor[g] + 1 \in 0..Timeout
      BY <3>1, Times DEF Tick, Base, TypeOK
    <3>2. QED
      BY <3>1, Times
  <2>2. QED
    BY <2>1 DEF Tick
<1>4. beatFor' \in [Gate -> 0..Heartbeat]
  <2>1. \A g \in Gate : (IF beating[g] THEN beatFor[g] + 1 ELSE 0) \in 0..Heartbeat
    BY Times DEF Tick, Base, TypeOK
  <2>2. QED
    BY <2>1 DEF Tick
<1>5. TypeOK'
    BY <1>1, <1>2, <1>3, <1>4 DEF Base, TypeOK
<1>6. RequestInv'
    BY <1>1 DEF Base, RequestInv, Awaited
<1>7. QED
    BY <1>5, <1>6 DEF Base

LEMMA NextBase == Base /\ [Next]_vars => Base'
<1> SUFFICES ASSUME Base, [Next]_vars PROVE Base'
    OBVIOUS
<1>1. ASSUME NEW v \in Vehicle, NEW g \in Gate,
             Arrive(v, g) \/ Pass(v, g) \/ TurnBack(v, g) \/ Detect(g, v)
      PROVE  Base'
    BY <1>1, VehicleBase, DetectBase
<1>2. ASSUME NEW g \in Gate, Receive(g) \/ GiveUp(g) \/ Reboot(g) PROVE Base'
    BY <1>2, ReceiveBase, GiveUpBase
<1>3. ASSUME NEW g \in Gate, NEW action \in {"open", "close"},
             AutoClose(g) \/ ZoneCleared(g) \/ HandleGate(g, action)
      PROVE  Base'
    BY <1>3, LoopBase
<1>4. ASSUME NEW p \in Picture, AllowEntry(p) \/ AllowExit(p) \/ Deny(p) PROVE Base'
    BY <1>4, DecideBase
<1>5. CASE Tick
    BY <1>5, TickBase
<1>6. ASSUME NEW g \in Gate, SendHeartbeat(g) \/ HeartbeatEnds(g) PROVE Base'
    BY <1>6, BeatBase
<1>7. CASE UNCHANGED vars
  <2>1. /\ UNCHANGED <<place, present, gateOpen, openFor, grant, sent, sentFor, picture, active, disturbed>>
        /\ UNCHANGED <<beating, beatFor>>
    BY <1>7 DEF vars, servo, pulse
  <2>2. QED
    BY <2>1, QuietBase DEF Base, TypeOK, RequestInv, PulseOK
<1>8. QED
    BY <1>1, <1>2, <1>3, <1>4, <1>5, <1>6, <1>7 DEF Next

(* The gates, the requests and the tables are well typed in every state: no
   answer is read from a request that is gone. *)
THEOREM TypeCorrect == Spec => []TypeOK
<1>1. Spec => []Base
    BY InitBase, NextBase, PTL DEF Spec
<1>2. Base => TypeOK
    BY DEF Base
<1>3. QED
    BY <1>1, <1>2, PTL

-----------------------------------------------------------------------------
(* How long a gate stays open *)

(* The pass of a controller, seen from the clock of its gate *)
PassOf(g) == <<gateOpen[g], openFor[g], beating[g], beatFor[g], sent[g], sentFor[g]>>

(* A step that moves no servo, and of which each controller that took part
   had tested its gate. *)
LEMMA StillOpen ==
    ASSUME Base, OpenInv, Base', UNCHANGED <<gateOpen, openFor>>,
           \A g \in Gate : \/ UNCHANGED PassOf(g)
                           \/ (gateOpen[g] => openFor[g] <= OpenTime)
                           \/ Looping(g) /\ beating[g] /\ ~beating'[g]
    PROVE  OpenInv'
<1> SUFFICES ASSUME NEW g \in Gate, gateOpen[g]
             PROVE  openFor[g] <= OpenTime + Held(g)'
    BY DEF OpenInv
<1>1. /\ openFor[g] \in Nat /\ beatFor[g] \in Nat /\ beatFor[g] <= Heartbeat
      /\ beatFor'[g] \in Nat /\ sentFor'[g] \in Nat
    BY Times DEF Base, TypeOK
<1>2. openFor[g] <= OpenTime + Held(g)
    BY DEF OpenInv
<1>3. CASE UNCHANGED PassOf(g)
    BY <1>2, <1>3 DEF PassOf, Held, Looping
<1>4. CASE openFor[g] <= OpenTime
    BY <1>1, <1>4, Times DEF Held
<1>5. CASE Looping(g) /\ beating[g] /\ ~beating'[g]
    BY <1>1, <1>2, <1>5, Times DEF Held
<1>6. QED
    BY <1>3, <1>4, <1>5

LEMMA ServoOpen ==
    ASSUME Base, OpenInv, NEW g \in Gate, NEW open, NEW v, ControlGate(g, open, v),
           Base', \A h \in Gate \ {g} : UNCHANGED <<beating[h], beatFor[h], sent[h], sentFor[h]>>
    PROVE  OpenInv'
<1> SUFFICES ASSUME NEW h \in Gate, gateOpen'[h]
             PROVE  openFor'[h] <= OpenTime + Held(h)'
    BY DEF OpenInv
<1>1. CASE h = g
  <2>1. openFor'[g] = 0
    BY DEF ControlGate, Base, TypeOK
  <2>2. sentFor'[g] \in Nat /\ beatFor'[g] \in Nat
    BY Times DEF Base, TypeOK
  <2>3. QED
    BY <1>1, <2>1, <2>2, Times DEF Held
<1>2. CASE h # g
  <2>1. gateOpen'[h] = gateOpen[h] /\ openFor'[h] = openFor[h]
    BY <1>2 DEF ControlGate, Base, TypeOK
  <2>2. openFor[h] <= OpenTime + Held(h)
    BY <2>1 DEF OpenInv
  <2>3. QED
    BY <1>2, <2>1, <2>2 DEF Held, Looping
<1>3. QED
    BY <1>1, <1>2

LEMMA TickOpen == ASSUME Base, OpenInv, Tick PROVE OpenInv'
<1> SUFFICES ASSUME NEW g \in Gate, gateOpen'[g]
             PROVE  openFor'[g] <= OpenTime + Held(g)'
    BY DEF OpenInv
<1>1. /\ gateOpen[g] /\ sent'[g] = sent[g] /\ beating'[g] = beating[g]
      /\ openFor'[g] = openFor[g] + 1
    BY DEF Tick
<1>2. openFor[g] \in Nat /\ sentFor[g] \in Nat /\ beatFor[g] \in Nat
    BY Times DEF Base, TypeOK
<1>3. openFor[g] <= OpenTime + Held(g)
    BY <1>1 DEF OpenInv
<1>4. CASE AtTop(g)
  <2>1. openFor[g] < OpenTime
    BY <1>1, <1>4 DEF Tick
  <2>2. Held(g)' = Heartbeat
    BY <1>1, <1>4, Times DEF Held, AtTop, Looping
  <2>3. QED
    BY <1>1, <1>2, <2>1, <2>2, Times
<1>5. CASE Looping(g) /\ beating[g]
  <2>1. beatFor'[g] = beatFor[g] + 1
    BY <1>5 DEF Tick
  <2>2. Held(g) = beatFor[g] /\ Held(g)' = beatFor'[g]
    BY <1>1, <1>5 DEF Held, Looping
  <2>3. QED
    BY <1>1, <1>2, <1>3, <2>1, <2>2, Times
<1>6. CASE ~Looping(g)
  <2>1. sentFor'[g] = sentFor[g] + 1
    BY <1>6 DEF Tick
  <2>2. Held(g) = Heartbeat + sentFor[g] /\ Held(g)' = Heartbeat + sentFor'[g]
    BY <1>1, <1>6 DEF Held, Looping
  <2>3. QED
    BY <1>1, <1>2, <1>3, <2>1, <2>2, Times
<1>7. QED
    BY <1>4, <1>5, <1>6 DEF AtTop

(* The sensor is read: either the heartbeat is just over or the gate was just
   tested. *)
LEMMA SensorOpen ==
    ASSUME Base, OpenInv, Base', NEW g \in Gate, AtSensor(g), HeartbeatOver(g),
           UNCHANGED <<gateOpen, openFor>>,
           \A h \in Gate \ {g} : sent'[h] = sent[h] /\ sentFor'[h] = sentFor[h]
    PROVE  OpenInv'
<1>1. ASSUME NEW h \in Gate \ {g} PROVE UNCHANGED PassOf(h)
    BY <1>1 DEF PassOf, HeartbeatOver, Base, TypeOK
<1>2. \/ gateOpen[g] => openFor[g] <= OpenTime
      \/ Looping(g) /\ beating[g] /\ ~beating'[g]
    BY DEF AtSensor, Tested, HeartbeatOver, Base, TypeOK
<1>3. QED
    BY <1>1, <1>2, StillOpen

LEMMA NextOpen == Base /\ Base' /\ OpenInv /\ [Next]_vars => OpenInv'
<1> SUFFICES ASSUME Base, Base', OpenInv, [Next]_vars PROVE OpenInv'
    OBVIOUS
<1>1. ASSUME UNCHANGED <<gateOpen, openFor, beating, beatFor, sent, sentFor>> PROVE OpenInv'
    BY <1>1, StillOpen DEF PassOf
<1>2. ASSUME NEW v \in Vehicle, NEW g \in Gate,
             Arrive(v, g) \/ Pass(v, g) \/ TurnBack(v, g)
      PROVE  OpenInv'
    BY <1>1, <1>2 DEF Arrive, Pass, TurnBack, servo, pulse
<1>3. ASSUME NEW v \in Vehicle, NEW g \in Gate, Detect(g, v) PROVE OpenInv'
  <2>1. UNCHANGED <<gateOpen, openFor>> /\ AtSensor(g) /\ HeartbeatOver(g)
    BY <1>3 DEF Detect, servo
  <2>2. \A h \in Gate \ {g} : sent'[h] = sent[h] /\ sentFor'[h] = sentFor[h]
    BY <1>3 DEF Detect, Base, TypeOK
  <2>3. QED
    BY <2>1, <2>2, SensorOpen
<1>4. ASSUME NEW g \in Gate, ZoneCleared(g) \/ HeartbeatEnds(g) PROVE OpenInv'
  <2>1. UNCHANGED <<gateOpen, openFor, sent, sentFor>> /\ HeartbeatOver(g)
    BY <1>4 DEF ZoneCleared, HeartbeatEnds, servo
  <2>2. AtSensor(g)
    BY <1>4 DEF ZoneCleared, HeartbeatEnds
  <2>3. QED
    BY <2>1, <2>2, SensorOpen
<1>5. ASSUME NEW g \in Gate, SendHeartbeat(g) PROVE OpenInv'
  <2>1. ASSUME NEW h \in Gate \ {g} PROVE UNCHANGED PassOf(h)
    BY <1>5, <2>1 DEF PassOf, SendHeartbeat, servo, Base, TypeOK
  <2>2. UNCHANGED <<gateOpen, openFor>> /\ (gateOpen[g] => openFor[g] <= OpenTime)
    BY <1>5 DEF SendHeartbeat, Tested, servo
  <2>3. QED
    BY <2>1, <2>2, StillOpen
<1>6. ASSUME NEW g \in Gate, NEW action \in {"open", "close"},
             Receive(g) \/ GiveUp(g) \/ Reboot(g) \/ AutoClose(g) \/ HandleGate(g, action)
      PROVE  OpenInv'
  <2>1. PICK open, v : ControlGate(g, open, v)
    BY <1>6 DEF Receive, GiveUp, Reboot, AutoClose, HandleGate
  <2>2. \/ UNCHANGED <<sent, sentFor>>
        \/ sent' = [sent EXCEPT ![g] = NULL] /\ sentFor' = [sentFor EXCEPT ![g] = 0]
    BY <1>6 DEF Receive, GiveUp, Reboot, Abandon, AutoClose, HandleGate
  <2>3. \A h \in Gate \ {g} : sent'[h] = sent[h] /\ sentFor'[h] = sentFor[h]
    BY <2>2 DEF Base, TypeOK
  <2>4. UNCHANGED pulse \/ HeartbeatOver(g)
    BY <1>6 DEF Receive, GiveUp, Reboot, AutoClose, HandleGate
  <2>5. \A h \in Gate \ {g} : beating'[h] = beating[h] /\ beatFor'[h] = beatFor[h]
    BY <2>4 DEF pulse, HeartbeatOver, Base, TypeOK
  <2>6. QED
    BY <2>1, <2>3, <2>5, ServoOpen
<1>7. ASSUME NEW p \in Picture, AllowEntry(p) \/ AllowExit(p) \/ Deny(p) PROVE OpenInv'
    BY <1>1, <1>7 DEF AllowEntry, AllowExit, Deny, servo, pulse
<1>8. CASE Tick
    BY <1>8, TickOpen
<1>9. CASE UNCHANGED vars
    BY <1>1, <1>9 DEF vars, servo, pulse
<1>10. QED
    BY <1>2, <1>3, <1>4, <1>5, <1>6, <1>7, <1>8, <1>9 DEF Next

(* However the loop is held by heartbeats and by pictures, a gate closes
   within its opening time, one heartbeat and one picture: both may hold the
   loop after it tested the gate (entry_gate.ino:170-193). *)
THEOREM GateCloses == Spec => []ClosesInTime
<1>1. Init => Base /\ OpenInv
  <2>1. Init => OpenInv
    BY DEF Init, OpenInv
  <2>2. QED
    BY <2>1, InitBase
<1>2. Base /\ OpenInv /\ [Next]_vars => (Base /\ OpenInv)'
    BY NextBase, NextOpen
<1>3. Base /\ OpenInv => ClosesInTime
  <2> SUFFICES ASSUME Base, OpenInv, NEW g \in Gate, gateOpen[g]
               PROVE  openFor[g] <= MaxOpen
      BY DEF ClosesInTime
  <2>1. openFor[g] <= OpenTime + Held(g)
      BY DEF OpenInv
  <2>2. sentFor[g] \in 0..Timeout /\ beatFor[g] \in 0..Heartbeat /\ openFor[g] \in Nat
      BY DEF Base, TypeOK
  <2>3. QED
      BY <2>1, <2>2, Times DEF Held
<1>4. QED
    BY <1>1, <1>2, <1>3, PTL DEF Spec

-----------------------------------------------------------------------------
(* Sessions and vehicles *)

(* The only request of an orderly vehicle is the one its gate waits for. *)
LEMMA OwnRequest ==
    ASSUME Base, NEW v \in Vehicle, Orderly(v),
           NEW p \in Picture, picture[p] # NULL, picture[p].vehicle = v
    PROVE  place[v] \in Gate /\ sent[place[v]] = p /\ picture[p].gate = place[v]
           /\ \A g \in Gate : grant[g] # v
<1>1. Awaited(p) /\ place[v] = picture[p].gate
    BY DEF Orderly, Requested
<1>2. PICK g \in Gate : sent[g] = p
    BY <1>1 DEF Awaited
<1>3. picture[p].gate = g
    BY <1>2, AwaitedRequest, NullAssumption
<1>4. Pictured(v)
    BY DEF Pictured
<1>5. \A h \in Gate : grant[h] # v
    BY <1>4 DEF Orderly, Granted
<1>6. QED
    BY <1>1, <1>2, <1>3, <1>5

(* An opening gate has its vehicle before it. *)
LEMMA OpeningHere ==
    ASSUME Base, NEW v \in Vehicle, Orderly(v), NEW g \in Gate, Opening(v, g)
    PROVE  place[v] = g
<1>1. CASE grant[g] = v
    BY <1>1 DEF Orderly, Granted
<1>2. CASE sent[g] # NULL /\ picture[sent[g]].vehicle = v
  <2>1. sent[g] \in Picture /\ picture[sent[g]] # NULL /\ picture[sent[g]].gate = g
    BY <1>2, AwaitedRequest DEF Base, RequestInv
  <2>2. QED
    BY <1>2, <2>1, OwnRequest
<1>3. QED
    BY <1>1, <1>2 DEF Opening

(* A vehicle that a step does not touch: not its place, its session, its
   request or the gate opened for it. *)
LEMMA Untouched ==
    ASSUME NEW w \in Vehicle, Orderly(w),
           place'[w] = place[w], w \in active' <=> w \in active, UNCHANGED <<sent, picture>>,
           \A g \in Gate : grant'[g] = w => grant[g] = w /\ present'[g],
           \A g \in Gate : grant[g] = w => grant'[g] = w
    PROVE  Orderly(w)'
<1>1. Requested(w)'
    BY DEF Orderly, Requested, Awaited
<1>2. Granted(w)'
    BY DEF Orderly, Granted, Pictured
<1>3. \A g \in Gate : Opening(w, g)' <=> Opening(w, g)
    BY DEF Opening
<1>4. Matches(w)'
    BY <1>3 DEF Orderly, Matches, Gate
<1>5. QED
    BY <1>1, <1>2, <1>4 DEF Orderly

LEMMA ArriveVehicle ==
    ASSUME Base, VehicleInv, NEW u \in Vehicle, NEW g \in Gate, Arrive(u, g),
           NEW w \in Vehicle \ disturbed'
    PROVE  Orderly(w)'
<1>1. /\ place[u] = Before(g) /\ place' = [place EXCEPT ![u] = g]
      /\ UNCHANGED <<present, grant, sent, picture, active, disturbed>>
    BY DEF Arrive, Move, servo
<1>2. Orderly(w)
    BY <1>1 DEF VehicleInv
<1>3. CASE w # u
  <2>1. place'[w] = place[w]
    BY <1>1, <1>3 DEF Base, TypeOK
  <2>2. \A h \in Gate : grant'[h] = w => grant[h] = w /\ present'[h]
    BY <1>1, <1>2 DEF Orderly, Granted
  <2>3. QED
    BY <1>1, <1>2, <2>1, <2>2, Untouched
<1>4. CASE w = u
  <2>1. place[w] \notin Gate /\ place'[w] = g
    BY <1>1, <1>4 DEF Before, Gate, Base, TypeOK
  <2>2. \A p \in Picture : picture[p] # NULL => picture[p].vehicle # w
    BY <1>2, <2>1, OwnRequest
  <2>3. \A h \in Gate : grant[h] # w /\ ~Opening(w, h)
    BY <1>2, <2>1, OpeningHere DEF Orderly, Granted
  <2>4. Requested(w)' /\ Granted(w)'
    BY <1>1, <2>2, <2>3 DEF Requested, Granted
  <2>5. \A h \in Gate : ~Opening(w, h)'
    BY <1>1, <2>3 DEF Opening
  <2>6. (g = "entry" => w \notin active) /\ (g = "exit" => w \in active)
    BY <1>1, <1>2, <1>4 DEF Before, Orderly, Matches
  <2>7. Matches(w)'
    BY <1>1, <2>1, <2>5, <2>6 DEF Matches, Gate
  <2>8. QED
    BY <2>4, <2>7 DEF Orderly
<1>5. QED
    BY <1>3, <1>4

LEMMA PassVehicle ==
    ASSUME Base, VehicleInv, NEW u \in Vehicle, NEW g \in Gate, Pass(u, g),
           NEW w \in Vehicle \ disturbed'
    PROVE  Orderly(w)'
<1>1. /\ place[u] = g /\ place' = [place EXCEPT ![u] = Beyond(g)]
      /\ grant' = [grant EXCEPT ![g] = IF grant[g] = u THEN NULL ELSE grant[g]]
      /\ disturbed' = IF grant[g] = u THEN disturbed ELSE disturbed \cup {u}
      /\ UNCHANGED <<present, sent, picture, active>>
    BY DEF Pass, Move
<1>2. Orderly(w)
    BY <1>1 DEF VehicleInv
<1>3. /\ grant'[g] = (IF grant[g] = u THEN NULL ELSE grant[g])
      /\ \A h \in Gate \ {g} : grant'[h] = grant[h]
    BY <1>1 DEF Base, TypeOK
<1>4. CASE w # u
  <2>1. place'[w] = place[w]
    BY <1>1, <1>4 DEF Base, TypeOK
  <2>2. \A h \in Gate : grant'[h] = w <=> grant[h] = w
    BY <1>3, <1>4, NullAssumption
  <2>3. \A h \in Gate : grant'[h] = w => grant[h] = w /\ present'[h]
    BY <1>1, <1>2, <2>2 DEF Orderly, Granted
  <2>4. QED
    BY <1>1, <1>2, <2>1, <2>2, <2>3, Untouched
<1>5. CASE w = u
  <2>1. grant[g] = w
    BY <1>1, <1>5
  <2>2. ~Pictured(w) /\ \A h \in Gate : grant[h] = w => h = g
    BY <1>1, <1>2, <1>5, <2>1 DEF Orderly, Granted
  <2>3. \A h \in Gate : grant'[h] # w
    BY <1>3, <1>5, <2>1, <2>2, NullAssumption
  <2>4. Requested(w)' /\ Granted(w)'
    BY <1>1, <2>2, <2>3 DEF Requested, Granted, Pictured
  <2>5. Opening(w, g)
    BY <2>1 DEF Opening
  <2>6. (g = "entry" => w \in active) /\ (g = "exit" => w \notin active)
    BY <1>1, <1>2, <1>5, <2>5 DEF Orderly, Matches
  <2>7. place'[w] = Beyond(g)
    BY <1>1, <1>5 DEF Base, TypeOK
  <2>8. Matches(w)'
    BY <1>1, <2>6, <2>7 DEF Matches, Beyond, Gate
  <2>9. QED
    BY <2>4, <2>8 DEF Orderly
<1>6. QED
    BY <1>4, <1>5

LEMMA TurnBackVehicle ==
    ASSUME Base, VehicleInv, NEW u \in Vehicle, NEW g \in Gate, TurnBack(u, g),
           NEW w \in Vehicle \ disturbed'
    PROVE  Orderly(w)'
<1>1. /\ place[u] = g /\ place' = [place EXCEPT ![u] = Before(g)]
      /\ disturbed' = IF grant[g] = u \/ Pictured(u) THEN disturbed \cup {u} ELSE disturbed
      /\ UNCHANGED <<present, grant, sent, picture, active>>
    BY DEF TurnBack, Move, servo
<1>2. Orderly(w)
    BY <1>1 DEF VehicleInv
<1>3. CASE w # u
  <2>1. place'[w] = place[w]
    BY <1>1, <1>3 DEF Base, TypeOK
  <2>2. \A h \in Gate : grant'[h] = w => grant[h] = w /\ present'[h]
    BY <1>1, <1>2 DEF Orderly, Granted
  <2>3. QED
    BY <1>1, <1>2, <2>1, <2>2, Untouched
<1>4. CASE w = u
  <2>1. grant[g] # w /\ ~Pictured(w)
    BY <1>1, <1>4
  <2>2. \A h \in Gate : grant[h] # w
    BY <1>1, <1>2, <1>4, <2>1 DEF Orderly, Granted
  <2>3. Requested(w)' /\ Granted(w)'
    BY <1>1, <2>1, <2>2 DEF Requested, Granted, Pictured
  <2>4. ~Opening(w, g)
    <3>1. CASE sent[g] = NULL
      BY <2>1, <3>1 DEF Opening
    <3>2. CASE sent[g] # NULL
      <4>1. sent[g] \in Picture /\ picture[sent[g]] # NULL
        BY <3>2 DEF Base, TypeOK, RequestInv
      <4>2. QED
        BY <2>1, <4>1 DEF Opening, Pictured
    <3>3. QED
      BY <3>1, <3>2
  <2>5. (g = "entry" => w \notin active) /\ (g = "exit" => w \in active)
    BY <1>1, <1>2, <1>4, <2>4 DEF Orderly, Matches
  <2>6. place'[w] = Before(g)
    BY <1>1, <1>4 DEF Base, TypeOK
  <2>7. Matches(w)'
    BY <1>1, <2>5, <2>6 DEF Matches, Before, Gate
  <2>8. QED
    BY <2>3, <2>7 DEF Orderly
<1>5. QED
    BY <1>3, <1>4

LEMMA DetectVehicle ==
    ASSUME Base, VehicleInv, NEW u \in Vehicle, NEW g \in Gate, Detect(g, u),
           NEW w \in Vehicle \ disturbed'
    PROVE  Orderly(w)'
<1>1. /\ sent[g] = NULL /\ ~present[g] /\ place[u] = g
      /\ present' = [present EXCEPT ![g] = TRUE]
      /\ UNCHANGED <<place, grant, active, disturbed>>
    BY DEF Detect, AtSensor, Looping, InZone, servo
<1>2. Orderly(w)
    BY <1>1 DEF VehicleInv
<1>3. \A h \in Gate : grant[h] = w => h # g /\ present'[h]
    BY <1>1, <1>2 DEF Orderly, Granted, Base, TypeOK
<1>4. CASE UNCHANGED <<picture, sent, sentFor>>
    BY <1>1, <1>2, <1>3, <1>4, Untouched
<1>5. ASSUME NEW p \in Picture, picture[p] = NULL,
             picture' = [picture EXCEPT ![p] = [gate |-> g, vehicle |-> u, answer |-> "none"]],
             sent' = [sent EXCEPT ![g] = p]
      PROVE  Orderly(w)'
  <2>1. /\ picture'[p].gate = g /\ picture'[p].vehicle = u /\ picture'[p].answer = "none"
        /\ \A q \in Picture \ {p} : picture'[q] = picture[q]
    BY <1>5 DEF Base, TypeOK
  <2>2. sent'[g] = p /\ p # NULL /\ \A h \in Gate \ {g} : sent'[h] = sent[h]
    BY <1>5, NullAssumption DEF Base, TypeOK
  <2>3. \A h \in Gate : sent[h] # NULL => sent[h] \in Picture \ {p}
    BY <1>5 DEF Base, TypeOK, RequestInv
  <2>4. ASSUME NEW q \in Picture, picture'[q] # NULL, picture'[q].vehicle = w
        PROVE  Awaited(q)' /\ place[w] = picture'[q].gate
    <3>1. CASE q = p
      BY <1>1, <2>1, <2>2, <2>4, <3>1 DEF Awaited
    <3>2. CASE q # p
      <4>1. picture[q] # NULL /\ picture[q].vehicle = w /\ picture'[q] = picture[q]
        BY <2>1, <2>4, <3>2
      <4>2. place[w] \in Gate /\ sent[place[w]] = q /\ picture[q].gate = place[w]
        BY <1>2, <4>1, OwnRequest
      <4>3. place[w] # g
        BY <1>1, <4>2, NullAssumption
      <4>4. QED
        BY <2>2, <4>1, <4>2, <4>3 DEF Awaited
    <3>3. QED
      BY <3>1, <3>2
  <2>5. Requested(w)'
    BY <1>1, <2>4 DEF Requested
  <2>6. ASSUME NEW h \in Gate, grant[h] = w PROVE ~Pictured(w)'
    <3>1. place[w] = h /\ h # g /\ ~Pictured(w)
      BY <1>2, <1>3, <2>6 DEF Orderly, Granted
    <3>2. w # u
      BY <1>1, <3>1
    <3>3. QED
      BY <2>1, <3>1, <3>2 DEF Pictured
  <2>7. Granted(w)'
    <3>1. \A h \in Gate : grant[h] = w => place[w] = h /\ present'[h]
      BY <1>2, <1>3 DEF Orderly, Granted
    <3>2. QED
      BY <1>1, <2>6, <3>1 DEF Granted
  <2>8. \A h \in Gate : Opening(w, h)' <=> Opening(w, h)
    <3>1. ASSUME NEW h \in Gate, h # g PROVE Opening(w, h)' <=> Opening(w, h)
      BY <1>1, <2>1, <2>2, <2>3, <3>1 DEF Opening
    <3>2. Opening(w, g)' <=> Opening(w, g)
      BY <1>1, <2>1, <2>2 DEF Opening
    <3>3. QED
      BY <3>1, <3>2
  <2>9. Matches(w)'
    BY <1>1, <1>2, <2>8 DEF Orderly, Matches, Gate
  <2>10. QED
    BY <2>5, <2>7, <2>9 DEF Orderly
<1>6. QED
    BY <1>4, <1>5 DEF Detect

(* A vehicle that a controller ends its wait, or moves its servo, beside: the
   gate was not opened for it and the request was not its own. *)
LEMMA Bystander ==
    ASSUME Base, NEW w \in Vehicle, Orderly(w), NEW g \in Gate,
           UNCHANGED <<place, active>>,
           grant[g] # w, grant'[g] # w,
           sent[g] # NULL => picture[sent[g]].vehicle # w,
           sent'[g] = NULL,
           \A h \in Gate \ {g} : /\ grant'[h] = grant[h] /\ sent'[h] = sent[h]
                                 /\ present'[h] = present[h],
           \A p \in Picture : p # sent[g] => picture'[p] = picture[p],
           sent[g] # NULL => picture'[sent[g]] \in {NULL, picture[sent[g]]}
    PROVE  Orderly(w)'
<1>1. \A p \in Picture : picture'[p] # NULL /\ picture'[p].vehicle = w =>
          picture'[p] = picture[p] /\ p # sent[g]
    BY NullAssumption
<1>2. ASSUME NEW p \in Picture, picture'[p] # NULL, picture'[p].vehicle = w
      PROVE  Awaited(p)' /\ place[w] = picture'[p].gate
  <2>1. picture[p] # NULL /\ picture[p].vehicle = w /\ p # sent[g] /\ picture'[p] = picture[p]
    BY <1>1, <1>2
  <2>2. place[w] \in Gate /\ sent[place[w]] = p /\ picture[p].gate = place[w]
    BY <2>1, OwnRequest
  <2>3. place[w] # g
    BY <2>1, <2>2
  <2>4. QED
    BY <2>1, <2>2, <2>3 DEF Awaited
<1>3. Requested(w)'
    BY <1>2 DEF Requested
<1>4. Pictured(w)' => Pictured(w)
    BY <1>1 DEF Pictured
<1>5. Granted(w)'
    BY <1>4 DEF Orderly, Granted
<1>6. ASSUME NEW h \in Gate PROVE Opening(w, h)' <=> Opening(w, h)
  <2>1. CASE h = g
    BY <2>1 DEF Opening
  <2>2. CASE h # g
    <3>1. sent[h] # NULL => sent[h] \in Picture /\ sent[h] # sent[g]
      BY <2>2, AwaitedRequest
    <3>2. QED
      BY <2>2, <3>1 DEF Opening
  <2>3. QED
    BY <2>1, <2>2
<1>7. Matches(w)'
    BY <1>6 DEF Orderly, Matches, Gate
<1>8. QED
    BY <1>3, <1>5, <1>7 DEF Orderly

LEMMA ReceiveVehicle ==
    ASSUME Base, VehicleInv, NEW g \in Gate, Receive(g), NEW w \in Vehicle \ disturbed'
    PROVE  Orderly(w)'
<1> DEFINE p == sent[g]
<1>1. /\ p # NULL /\ p \in Picture /\ picture[p] \in Request /\ picture[p] # NULL
      /\ picture[p].gate = g /\ present[g]
    BY AwaitedRequest DEF Receive, Looping, Base, RequestInv
<1>2. /\ picture[p].answer # "none"
      /\ ControlGate(g, picture[p].answer = "open", picture[p].vehicle)
      /\ disturbed' = disturbed \cup (LetThrough(g) \ IF picture[p].answer = "open"
                                                      THEN {picture[p].vehicle} ELSE {})
      /\ picture' = [picture EXCEPT ![p] = NULL]
      /\ sent' = [sent EXCEPT ![g] = NULL]
      /\ UNCHANGED <<place, present, active>>
    BY DEF Receive
<1> HIDE DEF p
<1>3. Orderly(w)
    BY <1>2 DEF VehicleInv
<1>4. /\ grant'[g] = IF picture[p].answer = "open" THEN picture[p].vehicle ELSE NULL
      /\ \A h \in Gate \ {g} : grant'[h] = grant[h]
    BY <1>2 DEF ControlGate, Base, TypeOK
<1>5. /\ picture'[p] = NULL /\ \A q \in Picture \ {p} : picture'[q] = picture[q]
      /\ sent'[g] = NULL /\ \A h \in Gate \ {g} : sent'[h] = sent[h]
    BY <1>1, <1>2 DEF Base, TypeOK
<1>6. CASE picture[p].vehicle # w
  <2>1. grant'[g] # w
    BY <1>4, <1>6, NullAssumption
  <2>2. grant[g] # w
    BY <1>2, <1>6, NullAssumption DEF LetThrough
  <2>3. QED
    BY <1>1, <1>2, <1>3, <1>4, <1>5, <1>6, <2>1, <2>2, Bystander DEF p
<1>7. CASE picture[p].vehicle = w
  <2>1. place[w] = g /\ \A h \in Gate : grant[h] # w
    BY <1>1, <1>3, <1>7, OwnRequest
  <2>2. \A q \in Picture : picture'[q] # NULL => picture'[q].vehicle # w
    <3> SUFFICES ASSUME NEW q \in Picture, q # p, picture[q] # NULL, picture[q].vehicle = w
                 PROVE  FALSE
      BY <1>5
    <3>1. sent[g] = q
      BY <1>3, <2>1, OwnRequest
    <3>2. QED
      BY <3>1 DEF p
  <2>3. Requested(w)'
    BY <2>2 DEF Requested
  <2>4. \A h \in Gate : grant'[h] = w => h = g
    BY <1>4, <2>1
  <2>5. Granted(w)'
    BY <1>1, <1>2, <2>1, <2>2, <2>4 DEF Granted, Pictured
  <2>6. Opening(w, g) <=> picture[p].answer = "open"
    BY <1>1, <1>7, <2>1 DEF Opening, p
  <2>7. Opening(w, g)' <=> picture[p].answer = "open"
    BY <1>4, <1>5, <1>7, NullAssumption DEF Opening
  <2>8. Matches(w)'
    BY <1>2, <1>3, <2>1, <2>6, <2>7 DEF Orderly, Matches, Gate
  <2>9. QED
    BY <2>3, <2>5, <2>8 DEF Orderly
<1>8. QED
    BY <1>6, <1>7

LEMMA GiveUpVehicle ==
    ASSUME Base, VehicleInv, NEW g \in Gate, GiveUp(g) \/ Reboot(g),
           NEW w \in Vehicle \ disturbed'
    PROVE  Orderly(w)'
<1>1. /\ ControlGate(g, FALSE, NULL) /\ Abandon(g) /\ UNCHANGED <<place, active>>
      /\ disturbed \cup LetThrough(g) \subseteq disturbed'
      /\ sent[g] # NULL => picture[sent[g]].vehicle \in disturbed'
    BY DEF GiveUp, Reboot, Looping
<1>2. Orderly(w)
    BY <1>1 DEF VehicleInv
<1>3. grant'[g] = NULL /\ \A h \in Gate \ {g} : grant'[h] = grant[h]
    BY <1>1 DEF ControlGate, Base, TypeOK
<1>4. grant[g] # w /\ grant'[g] # w
    BY <1>1, <1>3, NullAssumption DEF LetThrough
<1>5. sent'[g] = NULL /\ \A h \in Gate \ {g} : sent'[h] = sent[h]
    BY <1>1 DEF Abandon, Base, TypeOK
<1>6. \A h \in Gate \ {g} : present'[h] = present[h]
    BY DEF GiveUp, Reboot, Base, TypeOK
<1>7. QED
    BY <1>1, <1>2, <1>3, <1>4, <1>5, <1>6, Abandoned, Bystander

LEMMA LoopVehicle ==
    ASSUME Base, VehicleInv, NEW g \in Gate, NEW action \in {"open", "close"},
           AutoClose(g) \/ ZoneCleared(g) \/ HandleGate(g, action),
           NEW w \in Vehicle \ disturbed'
    PROVE  Orderly(w)'
<1>1. /\ sent[g] = NULL /\ disturbed \subseteq disturbed'
      /\ UNCHANGED <<place, sent, picture, active>>
    BY DEF AutoClose, ZoneCleared, HandleGate, AtTop, AtSensor, Looping
<1>2. Orderly(w)
    BY <1>1 DEF VehicleInv
<1>3. grant[g] # w
  <2>1. CASE ZoneCleared(g)
    BY <1>2, <2>1 DEF ZoneCleared, InZone, Orderly, Granted
  <2>2. CASE AutoClose(g) \/ HandleGate(g, action)
    BY <2>2, NullAssumption DEF AutoClose, HandleGate, LetThrough
  <2>3. QED
    BY <2>1, <2>2
<1>4. grant'[g] # w /\ \A h \in Gate \ {g} : grant'[h] = grant[h]
  <2>1. CASE ZoneCleared(g)
    BY <1>3, <2>1 DEF ZoneCleared, servo
  <2>2. CASE AutoClose(g) \/ HandleGate(g, action)
    BY <2>2, NullAssumption DEF AutoClose, HandleGate, ControlGate, Base, TypeOK
  <2>3. QED
    BY <2>1, <2>2
<1>5. \A h \in Gate \ {g} : present'[h] = present[h]
    BY DEF AutoClose, ZoneCleared, HandleGate, Base, TypeOK
<1>6. QED
    BY <1>1, <1>2, <1>3, <1>4, <1>5, Bystander

(* A decision about another vehicle *)
LEMMA DecideOther ==
    ASSUME Base, NEW w \in Vehicle, Orderly(w), NEW p \in Picture, Open(p),
           picture[p].vehicle # w, NEW answer \in {"open", "close"}, Decide(p, answer),
           UNCHANGED <<place, present, grant, sent>>, w \in active' <=> w \in active
    PROVE  Orderly(w)'
<1>1. /\ picture[p] \in Request /\ picture[p] # NULL
      /\ picture'[p] # NULL => picture'[p].vehicle = picture[p].vehicle
      /\ Awaited(p) => picture'[p].vehicle = picture[p].vehicle
      /\ \A q \in Picture \ {p} : picture'[q] = picture[q]
  <2>1. picture[p] \in Request /\ picture[p] # NULL
    BY OpenRequest DEF Open
  <2>2. [picture[p] EXCEPT !.answer = answer].vehicle = picture[p].vehicle
    BY <2>1 DEF Request
  <2>3. QED
    BY <2>1, <2>2, DecideType
<1>2. \A q \in Picture : picture'[q] # NULL /\ picture'[q].vehicle = w =>
          q # p /\ picture'[q] = picture[q]
    BY <1>1
<1>3. Requested(w)'
    BY <1>2 DEF Orderly, Requested, Awaited
<1>4. Granted(w)'
    BY <1>2 DEF Orderly, Granted, Pictured
<1>5. ASSUME NEW h \in Gate PROVE Opening(w, h)' <=> Opening(w, h)
  <2>1. CASE sent[h] = p
    <3>1. Awaited(p)
      BY <2>1 DEF Awaited
    <3>2. QED
      BY <1>1, <2>1, <3>1 DEF Opening
  <2>2. CASE sent[h] # p
    <3>1. sent[h] # NULL => sent[h] \in Picture \ {p}
      BY <2>2 DEF Base, TypeOK
    <3>2. QED
      BY <1>1, <3>1 DEF Opening
  <2>3. QED
    BY <2>1, <2>2
<1>6. Matches(w)'
    BY <1>5 DEF Orderly, Matches, Gate
<1>7. QED
    BY <1>3, <1>4, <1>6 DEF Orderly

(* The decision about a vehicle that its gate waits for *)
LEMMA DecideOwn ==
    ASSUME Base, NEW w \in Vehicle, Orderly(w), NEW p \in Picture, Open(p),
           picture[p].vehicle = w, NEW answer \in {"open", "close"}, Decide(p, answer),
           UNCHANGED <<place, present, grant, sent>>,
           answer = "open" => /\ picture[p].gate = "entry" => w \in active'
                              /\ picture[p].gate = "exit" => w \notin active',
           answer = "close" => (w \in active' <=> w \in active)
    PROVE  Orderly(w)'
<1>1. picture[p] \in Request /\ picture[p] # NULL /\ picture[p].answer = "none"
    BY OpenRequest DEF Open
<1>2. PICK g \in Gate : /\ g = picture[p].gate /\ place[w] = g /\ sent[g] = p /\ p # NULL
                       /\ \A h \in Gate : grant[h] # w
    BY <1>1, OwnRequest, NullAssumption
<1>3. Awaited(p)
    BY <1>2 DEF Awaited
<1>4. /\ picture'[p] # NULL /\ picture'[p].gate = g /\ picture'[p].vehicle = w
      /\ picture'[p].answer = answer
      /\ \A q \in Picture \ {p} : picture'[q] = picture[q]
  <2>1. /\ [picture[p] EXCEPT !.answer = answer].gate = g
        /\ [picture[p] EXCEPT !.answer = answer].vehicle = w
        /\ [picture[p] EXCEPT !.answer = answer].answer = answer
    BY <1>1, <1>2 DEF Request
  <2>2. QED
    BY <1>3, <2>1, DecideType, NullAssumption
<1>5. Requested(w)'
    BY <1>2, <1>3, <1>4 DEF Orderly, Requested, Awaited
<1>6. Granted(w)'
    BY <1>2 DEF Granted
<1>7. ~Opening(w, g)
    BY <1>1, <1>2 DEF Opening
<1>8. Opening(w, g)' <=> answer = "open"
    BY <1>2, <1>4 DEF Opening
<1>9. Matches(w)'
  <2>1. CASE answer = "open"
    BY <1>2, <1>8, <2>1 DEF Matches, Gate
  <2>2. CASE answer = "close"
    BY <1>2, <1>7, <1>8, <2>2 DEF Orderly, Matches, Gate
  <2>3. QED
    BY <2>1, <2>2
<1>10. QED
    BY <1>5, <1>6, <1>9 DEF Orderly

LEMMA DecideVehicle ==
    ASSUME Base, VehicleInv, NEW p \in Picture, AllowEntry(p) \/ AllowExit(p) \/ Deny(p),
           NEW w \in Vehicle \ disturbed'
    PROVE  Orderly(w)'
<1>1. Open(p) /\ UNCHANGED <<place, present, grant, sent, disturbed>>
    BY DEF AllowEntry, AllowExit, Deny, servo
<1>2. Orderly(w)
    BY <1>1 DEF VehicleInv
<1>3. PICK answer \in {"open", "close"} :
         /\ Decide(p, answer)
         /\ answer = "open" => AllowEntry(p) \/ AllowExit(p)
         /\ answer = "close" => Deny(p)
    BY DEF AllowEntry, AllowExit, Deny
<1>4. \A v \in Vehicle : v # picture[p].vehicle => (v \in active' <=> v \in active)
    BY DEF AllowEntry, AllowExit, Deny
<1>5. answer = "open" => /\ picture[p].gate = "entry" => picture[p].vehicle \in active'
                         /\ picture[p].gate = "exit" => picture[p].vehicle \notin active'
    BY <1>3 DEF AllowEntry, AllowExit
<1>6. answer = "close" => active' = active
    BY <1>3 DEF Deny
<1>7. CASE picture[p].vehicle # w
    BY <1>1, <1>2, <1>3, <1>4, <1>7, DecideOther
<1>8. CASE picture[p].vehicle = w
    BY <1>1, <1>2, <1>3, <1>5, <1>6, <1>8, DecideOwn
<1>9. QED
    BY <1>7, <1>8

LEMMA NextVehicle == Base /\ VehicleInv /\ [Next]_vars => VehicleInv'
<1> SUFFICES ASSUME Base, VehicleInv, [Next]_vars, NEW w \in Vehicle \ disturbed'
             PROVE  Orderly(w)'
    BY DEF VehicleInv
<1>1. ASSUME NEW v \in Vehicle, NEW g \in Gate,
             Arrive(v, g) \/ Pass(v, g) \/ TurnBack(v, g) \/ Detect(g, v)
      PROVE  Orderly(w)'
    BY <1>1, ArriveVehicle, PassVehicle, TurnBackVehicle, DetectVehicle
<1>2. ASSUME NEW g \in Gate, Receive(g) \/ GiveUp(g) \/ Reboot(g) PROVE Orderly(w)'
    BY <1>2, ReceiveVehicle, GiveUpVehicle
<1>3. ASSUME NEW g \in Gate, NEW action \in {"open", "close"},
             AutoClose(g) \/ ZoneCleared(g) \/ HandleGate(g, action)
      PROVE  Orderly(w)'
    BY <1>3, LoopVehicle
<1>4. ASSUME NEW p \in Picture, AllowEntry(p) \/ AllowExit(p) \/ Deny(p) PROVE Orderly(w)'
    BY <1>4, DecideVehicle
<1>5. CASE \/ Tick \/ UNCHANGED vars
           \/ \E g \in Gate : SendHeartbeat(g) \/ HeartbeatEnds(g)
  <2>1. UNCHANGED <<place, present, grant, sent, picture, active, disturbed>>
    BY <1>5 DEF Tick, SendHeartbeat, HeartbeatEnds, vars, servo
  <2>2. Orderly(w)
    BY <2>1 DEF VehicleInv
  <2>3. \A h \in Gate : grant[h] = w => present[h]
    BY <2>2 DEF Orderly, Granted
  <2>4. QED
    BY <2>1, <2>2, <2>3, Untouched
<1>6. QED
    BY <1>1, <1>2, <1>3, <1>4, <1>5 DEF Next

(* For any number of vehicles, and whatever answers come late, the session of
   an undisturbed vehicle is active exactly while it is in the lot or its gate
   is opening for it (iot.py:125, iot.py:167). *)
THEOREM SessionsCorrect == Spec => []SessionsMatchLot
<1>1. Init => Base /\ VehicleInv
  <2>1. Init => VehicleInv
    <3> SUFFICES ASSUME Init, NEW v \in Vehicle PROVE Orderly(v)
      BY DEF VehicleInv
    <3>1. Requested(v)
      BY DEF Init, Requested
    <3>2. Granted(v)
      BY NullAssumption DEF Init, Granted
    <3>3. Matches(v)
      BY DEF Init, Matches
    <3>4. QED
      BY <3>1, <3>2, <3>3 DEF Orderly
  <2>2. QED
    BY <2>1, InitBase
<1>2. Base /\ VehicleInv /\ [Next]_vars => (Base /\ VehicleInv)'
    BY NextBase, NextVehicle
<1>3. VehicleInv => SessionsMatchLot
    BY DEF VehicleInv, Orderly, Matches, SessionsMatchLot
<1>4. QED
    BY <1>1, <1>2, <1>3, PTL DEF Spec
=============================================================================

---------------------------- MODULE DevicesProofs ----------------------------
(***************************************************************************)
(* What the registry keeps true for any number of controllers, addresses   *)
(* and requests under way, and for any threshold, period and length of the *)
(* OCR calls.                                                              *)
(***************************************************************************)
EXTENDS Devices, TLAPS

LEMMA Times == /\ Threshold \in Nat /\ Period \in Nat /\ MaxBlock \in Nat /\ Period > 0
               /\ Deadline \in Nat /\ OldAge \in Nat /\ OldAge = Deadline + 1
               /\ Deadline = Threshold + Period + MaxBlock
BY TimeAssumption DEF Deadline, OldAge

(* What a commit writes is a row that was heard just now, or the stored one. *)
LEMMA UpsertRow ==
    ASSUME TypeOK, NEW r \in Request, r.kind = "register", r.ip \in Address,
           r.loaded # NULL => row[r.device] # NULL
    PROVE  /\ Upsert(r) \in Row
           /\ \/ r.loaded = NULL /\ row[r.device] # NULL /\ Upsert(r) = row[r.device]
              \/ /\ r.loaded = NULL /\ row[r.device] = NULL
                 /\ Upsert(r).age = 0 /\ Upsert(r).ip = r.ip /\ Upsert(r).status = "online"
              \/ /\ r.loaded # NULL /\ Upsert(r).age = 0
                 /\ Upsert(r).ip = Written(row[r.device].ip, r.loaded.ip, r.ip)
                 /\ Upsert(r).status = Written(row[r.device].status, r.loaded.status, "online")
<1>1. r.device \in Device /\ row[r.device] \in Row \cup {NULL}
    BY DEF TypeOK, Request
<1>2. 0 \in 0..OldAge
    BY Times
<1>3. CASE r.loaded = NULL
  <2>1. CASE row[r.device] = NULL
    BY <1>2, <1>3, <2>1 DEF Upsert, Row
  <2>2. CASE row[r.device] # NULL
    BY <1>1, <1>3, <2>2 DEF Upsert
  <2>3. QED
    BY <2>1, <2>2
<1>4. CASE r.loaded # NULL
  <2>1. row[r.device] \in Row
    BY <1>1, <1>4
  <2>2. Upsert(r) = [ip |-> Written(row[r.device].ip, r.loaded.ip, r.ip),
                     status |-> Written(row[r.device].status, r.loaded.status, "online"),
                     age |-> 0]
    BY <1>4 DEF Upsert
  <2>3. /\ Written(row[r.device].ip, r.loaded.ip, r.ip) \in Address
        /\ Written(row[r.device].status, r.loaded.status, "online") \in {"online", "offline"}
    BY <2>1 DEF Written, Row
  <2>4. Upsert(r) \in Row
    BY <1>2, <2>2, <2>3 DEF Row
  <2>5. QED
    BY <1>4, <2>2, <2>4
<1>5. QED
    BY <1>3, <1>4

LEMMA TouchRow ==
    ASSUME TypeOK, NEW r \in Request, row[r.device] # NULL
    PROVE  /\ Touch(r) \in Row /\ Touch(r).age = 0
           /\ Touch(r).ip = row[r.device].ip
           /\ Touch(r).status = Written(row[r.device].status, r.loaded.status, "online")
<1>1. row[r.device] \in Row
    BY DEF TypeOK, Request
<1>2. 0 \in 0..OldAge
    BY Times
<1>3. QED
    BY <1>1, <1>2 DEF Touch, Written, Row

(* The clock and the event loop: how long the watcher may have waited, and
   what a request under way has read. *)
OnLoop(c) == call[c] # NULL /\ call[c].kind = "trigger" /\ call[c].pc # "sent"

LoopInv ==
    /\ loop # "ocr" => busyFor = 0
    /\ loop = "trigger" => wait <= Period
    /\ loop = "ocr" => wait <= Period + busyFor
    /\ stale # {} => loop = "watcher"
    /\ \A c \in Call : call[c] # NULL =>
          /\ call[c].kind = "register" => call[c].ip \in Address
          /\ call[c].pc = "commit" =>
                /\ call[c].kind # "register" => call[c].loaded # NULL
                /\ call[c].loaded # NULL => row[call[c].device] # NULL
    /\ \A d \in stale : row[d] # NULL
    /\ \A c \in Call : OnLoop(c) => loop = "trigger" /\ \A b \in Call : OnLoop(b) => b = c

BaseInv == TypeOK /\ LoopInv

LEMMA InitBase == Init => BaseInv
<1> SUFFICES ASSUME Init PROVE BaseInv
    OBVIOUS
<1>1. /\ address \in [Device -> Address \cup {NULL}] /\ row \in [Device -> Row \cup {NULL}]
      /\ call \in [Call -> Request \cup {NULL}]
    BY DEF Init
<1>2. busyFor \in 0..MaxBlock /\ wait \in 0..(Period + MaxBlock)
    BY Times DEF Init
<1>3. /\ registered \in [Device -> BOOLEAN] /\ overlap \in [Device -> BOOLEAN]
      /\ watched \in BOOLEAN /\ raced \in [Device -> BOOLEAN]
    BY DEF Init
<1>4. TypeOK
    BY <1>1, <1>2, <1>3 DEF Init, TypeOK
<1>5. LoopInv
    BY DEF Init, LoopInv, OnLoop
<1>6. QED
    BY <1>4, <1>5 DEF BaseInv

(* A row is never deleted: what was read is still there. *)
LEMMA CommitBase ==
    ASSUME BaseInv, NEW c \in Call, CommitRow(c)
    PROVE  /\ call[c] \in Request /\ call[c] # NULL /\ call[c].device \in Device
           /\ row' = [row EXCEPT ![call[c].device] = row'[call[c].device]]
           /\ row'[call[c].device] \in Row
           /\ call[c].kind = "register" => row'[call[c].device] = Upsert(call[c])
           /\ call[c].kind # "register" => row'[call[c].device] = Touch(call[c])
           /\ call[c].loaded # NULL => row[call[c].device] # NULL
           /\ call[c].kind = "register" => call[c].ip \in Address
<1> DEFINE r == call[c]
<1>1. r \in Request /\ r # NULL /\ r.pc = "commit" /\ r.device \in Device
    BY DEF CommitRow, BaseInv, TypeOK, Request
<1>2. /\ r.loaded # NULL => row[r.device] # NULL
      /\ r.kind = "register" => r.ip \in Address
      /\ r.kind # "register" => r.loaded # NULL
    BY <1>1 DEF BaseInv, LoopInv
<1>3. row' = [row EXCEPT ![r.device] = IF r.kind = "register" THEN Upsert(r) ELSE Touch(r)]
    BY DEF CommitRow
<1>4. row \in [Device -> Row \cup {NULL}]
    BY DEF BaseInv, TypeOK
<1> HIDE DEF r
<1>5. row'[r.device] = IF r.kind = "register" THEN Upsert(r) ELSE Touch(r)
    BY <1>1, <1>3, <1>4
<1>6. row'[r.device] \in Row
  <2>1. CASE r.kind = "register"
    BY <1>1, <1>2, <1>5, <2>1, UpsertRow DEF BaseInv
  <2>2. CASE r.kind # "register"
    BY <1>1, <1>2, <1>5, <2>2, TouchRow DEF BaseInv
  <2>3. QED
    BY <2>1, <2>2
<1>7. QED
    BY <1>1, <1>2, <1>3, <1>5, <1>6 DEF r

LEMMA BaseStep ==
    ASSUME BaseInv, [Next]_vars
    PROVE  BaseInv'
<1> USE Times DEF BaseInv, TypeOK, LoopInv, OnLoop
<1>1. ASSUME NEW d \in Device, NEW ip \in Address, Reconnect(d, ip)
      PROVE  BaseInv'
    BY <1>1 DEF Reconnect, TakeAddress, server
<1>2. ASSUME NEW d \in Device, NEW ip \in Address, NEW c \in Call, Boot(d, ip, c)
      PROVE  BaseInv'
    BY <1>2 DEF Boot, TakeAddress, server, Request
<1>3. ASSUME NEW d \in Device, LeaveNetwork(d)
      PROVE  BaseInv'
    BY <1>3 DEF LeaveNetwork, server
<1>4. ASSUME NEW d \in Device, NEW c \in Call, NEW kind \in {"heartbeat", "trigger"},
             Send(d, kind, c)
      PROVE  BaseInv'
    BY <1>4 DEF Send, server, history, Request
<1>5. ASSUME NEW c \in Call, Lose(c)
      PROVE  BaseInv'
    BY <1>5 DEF Lose, server, history
<1>6. ASSUME NEW c \in Call, Dispatch(c)
      PROVE  BaseInv'
    BY <1>6 DEF Dispatch, history, Request
<1>7. ASSUME NEW c \in Call, ReadRow(c)
      PROVE  BaseInv'
  <2>1. call[c] \in Request /\ call[c] # NULL /\ call[c].device \in Device
    BY <1>7 DEF ReadRow, Request
  <2>2. CASE call' = [call EXCEPT ![c] = NULL]
    BY <1>7, <2>2 DEF ReadRow, history
  <2>3. CASE /\ ~(row[call[c].device] = NULL /\ call[c].kind # "register")
             /\ call' = [call EXCEPT ![c].pc = "commit", ![c].loaded =
                   IF row[call[c].device] = NULL THEN NULL
                   ELSE [ip |-> row[call[c].device].ip, status |-> row[call[c].device].status]]
             /\ UNCHANGED loop
    <3> DEFINE loaded == IF row[call[c].device] = NULL THEN NULL
                         ELSE [ip |-> row[call[c].device].ip,
                               status |-> row[call[c].device].status]
    <3>1. loaded \in Columns \cup {NULL} /\ (loaded = NULL <=> row[call[c].device] = NULL)
      BY <2>1, NullAssumption DEF Columns, Row
    <3> DEFINE next == [call[c] EXCEPT !.pc = "commit", !.loaded = loaded]
    <3>2. call' = [call EXCEPT ![c] = next]
      BY <2>1, <2>3
    <3> HIDE DEF loaded
    <3>3. /\ next \in Request /\ next.kind = call[c].kind /\ next.ip = call[c].ip
          /\ next.device = call[c].device /\ next.loaded = loaded /\ next.pc = "commit"
      BY <2>1, <3>1 DEF Request
    <3> HIDE DEF next
    <3>4. UNCHANGED <<address, row, loop, busyFor, wait, stale, watched, raced, registered, overlap>>
      BY <1>7, <2>3 DEF ReadRow, history
    <3>5. call' \in [Call -> Request \cup {NULL}]
      BY <3>2, <3>3
    <3>6. TypeOK'
      BY <3>4, <3>5
    <3>9. \A b \in Call : b # c => call'[b] = call[b]
      BY <3>2
    <3>10. call'[c] = next
      BY <3>2
    <3>11. \A b \in Call : OnLoop(b)' <=> OnLoop(b)
      BY <1>7, <2>1, <3>3, <3>9, <3>10, NullAssumption DEF ReadRow
    <3>12. \A b \in Call : call'[b] # NULL =>
            /\ call'[b].kind = "register" => call'[b].ip \in Address
            /\ call'[b].pc = "commit" =>
                  /\ call'[b].kind # "register" => call'[b].loaded # NULL
                  /\ call'[b].loaded # NULL => row'[call'[b].device] # NULL
      BY <2>1, <2>3, <3>1, <3>3, <3>4, <3>9, <3>10, ZenonT(60)
    <3>7. LoopInv'
      BY <3>4, <3>11, <3>12
    <3>8. QED
      BY <3>6, <3>7
  <2>4. QED
    BY <1>7, <2>2, <2>3 DEF ReadRow
<1>8. ASSUME NEW c \in Call, CommitRow(c)
      PROVE  BaseInv'
  <2> DEFINE d == call[c].device
  <2>1. /\ call[c] \in Request /\ d \in Device /\ row'[d] \in Row
        /\ row' = [row EXCEPT ![d] = row'[d]]
    BY <1>8, CommitBase
  <2>2. /\ call' = [call EXCEPT ![c] = NULL]
        /\ \/ loop' = "ocr" /\ busyFor' = 0 /\ call[c].kind = "trigger"
           \/ UNCHANGED <<loop, busyFor>> /\ call[c].kind # "trigger"
        /\ UNCHANGED <<address, wait, stale, watched, raced, overlap>>
        /\ call[c] # NULL /\ call[c].pc = "commit"
    BY <1>8 DEF CommitRow
  <2>10. OnLoop(c) <=> call[c].kind = "trigger"
    BY <2>2
  <2>11. call[c].kind = "trigger" => wait <= Period /\ loop = "trigger"
    BY <2>10
  <2>3. registered' \in [Device -> BOOLEAN]
    BY <1>8 DEF CommitRow
  <2> HIDE DEF d
  <2>4. row' \in [Device -> Row \cup {NULL}] /\ \A e \in Device : row[e] # NULL => row'[e] # NULL
    BY <2>1, NullAssumption
  <2>5. call' \in [Call -> Request \cup {NULL}] /\ \A b \in Call : call'[b] \in {call[b], NULL}
    BY <2>2
  <2>6. busyFor' \in 0..MaxBlock
    BY <2>2
  <2>7. TypeOK'
    BY <2>2, <2>3, <2>4, <2>5, <2>6
  <2>12. /\ loop' # "ocr" => busyFor' = 0
         /\ loop' = "trigger" => wait' <= Period
         /\ loop' = "ocr" => wait' <= Period + busyFor'
         /\ stale' # {} => loop' = "watcher"
    BY <2>2, <2>11
  <2>13. \A b \in Call : call'[b] # NULL => b # c /\ call'[b] = call[b]
    BY <2>2
  <2>14. ASSUME NEW b \in Call, call'[b] # NULL
         PROVE  /\ call[b] \in Request /\ call[b].device \in Device
                /\ call'[b] = call[b] /\ b # c
    BY <2>13, <2>14 DEF Request
  <2>15. \A b \in Call : OnLoop(b)' => loop' = "trigger" /\ \A e \in Call : OnLoop(e)' => e = b
    BY <2>2, <2>10, <2>13
  <2>16. \A b \in Call : call'[b] # NULL =>
            /\ call'[b].kind = "register" => call'[b].ip \in Address
            /\ call'[b].pc = "commit" =>
                  /\ call'[b].kind # "register" => call'[b].loaded # NULL
                  /\ call'[b].loaded # NULL => row'[call'[b].device] # NULL
    BY <2>4, <2>14
  <2>17. \A e \in stale' : row'[e] # NULL
    BY <2>2, <2>4
  <2>8. LoopInv'
    BY <2>12, <2>15, <2>16, <2>17
  <2>9. QED
    BY <2>7, <2>8
<1>9. CASE LegacyOcr
    BY <1>9 DEF LegacyOcr, history
<1>10. CASE OcrDone
    BY <1>10 DEF OcrDone, history
<1>11. CASE FindStale
    BY <1>11 DEF FindStale, Stale, history
<1>12. CASE MarkOffline
  <2> DEFINE marked(d) == [row[d] EXCEPT !.status = "offline"]
  <2>1. \A d \in stale : row[d] \in Row /\ marked(d) \in Row /\ marked(d) # NULL
    BY NullAssumption DEF Row
  <2>2. row' = [d \in Device |-> IF d \in stale THEN marked(d) ELSE row[d]]
    BY <1>12 DEF MarkOffline
  <2> HIDE DEF marked
  <2>3. row' \in [Device -> Row \cup {NULL}] /\ \A d \in Device : row[d] # NULL => row'[d] # NULL
    BY <2>1, <2>2
  <2>4. raced' \in [Device -> BOOLEAN]
    BY <1>12 DEF MarkOffline, Committing
  <2>5. /\ loop' = "free" /\ stale' = {} /\ wait' = 0 /\ watched' = TRUE
        /\ UNCHANGED <<address, call, busyFor, registered, overlap>>
    BY <1>12 DEF MarkOffline, history
  <2>6. wait' \in 0..(Period + MaxBlock) /\ watched' \in BOOLEAN
    BY <2>5
  <2>7. TypeOK'
    BY <2>3, <2>4, <2>5, <2>6
  <2>8. LoopInv'
    BY <1>12, <2>3, <2>5 DEF MarkOffline, Request
  <2>9. QED
    BY <2>7, <2>8
<1>13. CASE Restart
  <2>1. /\ call' = [c \in Call |-> NULL] /\ loop' = "free" /\ busyFor' = 0
        /\ wait' = 0 /\ stale' = {} /\ watched' = FALSE
        /\ UNCHANGED <<address, row, raced, registered, overlap>>
    BY <1>13 DEF Restart, history
  <2>2. busyFor' \in 0..MaxBlock
    BY <2>1
  <2>3. wait' \in 0..(Period + MaxBlock)
    BY <2>1
  <2>6. TypeOK'
    BY <2>1, <2>2, <2>3
  <2>4. LoopInv'
    BY <2>1
  <2>5. QED
    BY <2>4, <2>6
<1>14. CASE Tick
    BY <1>14 DEF Tick, WatcherDue, history, Row
<1>15. CASE UNCHANGED vars
    BY <1>15 DEF vars, server, history
<1>16. QED
    BY <1>1, <1>2, <1>3, <1>4, <1>5, <1>6, <1>7, <1>8, <1>9, <1>10, <1>11, <1>12, <1>13,
       <1>14, <1>15 DEF Next

LEMMA BaseAlways == Spec => []BaseInv
BY InitBase, BaseStep, PTL DEF Spec

(* Rows hold addresses, the states of the listing and bounded ages, and every
   request under way what its handler reads (device.py:5): for any number of
   controllers and requests. *)
THEOREM TypeCorrect == Spec => []TypeOK
<1>1. BaseInv => TypeOK
    BY DEF BaseInv
<1>2. QED
    BY <1>1, BaseAlways, PTL

-----------------------------------------------------------------------------
(* The watcher is in time: what it left online was heard within the threshold
   at its last round, and wait counts the ticks since. *)
HeardSince ==
    \A d \in Device : row[d] # NULL /\ row[d].status = "online" =>
        /\ watched => row[d].age <= Threshold + wait
        /\ loop = "watcher" /\ d \notin stale => row[d].age <= Threshold

LEMMA HeardStep ==
    ASSUME BaseInv, HeardSince, [Next]_vars
    PROVE  HeardSince'
<1> USE Times DEF BaseInv, TypeOK, HeardSince
<1>1. ASSUME NEW c \in Call, CommitRow(c)
      PROVE  HeardSince'
  <2> DEFINE e == call[c].device
             r == call[c]
  <2>1. /\ r \in Request /\ e \in Device /\ row' = [row EXCEPT ![e] = row'[e]]
        /\ row'[e] \in Row /\ r.loaded # NULL => row[e] # NULL
    BY <1>1, CommitBase
  <2>2. /\ loop' = loop \/ loop' = "ocr"
        /\ UNCHANGED <<stale, wait, watched>>
    BY <1>1 DEF CommitRow
  <2>3. row'[e] = row[e] \/ row'[e].age = 0
    <3>1. CASE r.kind = "register"
      BY <1>1, <3>1, CommitBase, UpsertRow
    <3>2. CASE r.kind # "register"
      <4>1. r.loaded # NULL
        BY <1>1, <3>2 DEF LoopInv, CommitRow
      <4>2. QED
        BY <1>1, <3>2, <4>1, CommitBase, TouchRow
    <3>3. QED
      BY <3>1, <3>2
  <2> HIDE DEF e, r
  <2>4. \A d \in Device : row'[d] = row[d] \/ row'[d].age = 0
    BY <2>1, <2>3
  <2>5. QED
    BY <2>2, <2>4
<1>2. CASE FindStale
  <2>1. ASSUME NEW d \in Device, row[d] # NULL, row[d].status = "online", d \notin stale'
        PROVE  row[d].age <= Threshold
    <3>1. row[d] \in Row
      BY <2>1
    <3>2. ~(row[d].age > Threshold)
      BY <1>2, <2>1 DEF FindStale, Stale
    <3>3. QED
      BY <3>1, <3>2 DEF Row
  <2>2. UNCHANGED <<row, wait, watched>>
    BY <1>2 DEF FindStale
  <2>3. QED
    BY <2>1, <2>2
<1>3. CASE MarkOffline
  <2>1. /\ loop = "watcher" /\ loop' = "free" /\ wait' = 0
        /\ row' = [d \in Device |-> IF d \in stale THEN [row[d] EXCEPT !.status = "offline"]
                                                   ELSE row[d]]
    BY <1>3 DEF MarkOffline
  <2>2. ASSUME NEW d \in Device, row'[d] # NULL, row'[d].status = "online"
        PROVE  row'[d].age <= Threshold
    <3>1. CASE d \in stale
      <4>1. row[d] \in Row
        BY <3>1 DEF LoopInv
      <4>2. row'[d].status = "offline"
        BY <2>1, <3>1, <4>1 DEF Row
      <4>3. QED
        BY <2>2, <4>2
    <3>2. CASE d \notin stale
      BY <2>1, <2>2, <3>2
    <3>3. QED
      BY <3>1, <3>2
  <2>3. QED
    BY <2>1, <2>2
<1>4. CASE Tick
  <2>1. loop' = loop /\ loop # "watcher" /\ wait' = wait + 1 /\ watched' = watched
    BY <1>4 DEF Tick
  <2>2. ASSUME NEW d \in Device, row'[d] # NULL
        PROVE  /\ row[d] \in Row /\ row[d] # NULL /\ row'[d].status = row[d].status
               /\ row'[d].age <= row[d].age + 1
               /\ row'[d].age \in Nat /\ row[d].age \in Nat
    BY <1>4, <2>2 DEF Tick, Row
  <2>3. QED
    BY <2>1, <2>2
<1>5. CASE Restart
    BY <1>5 DEF Restart
<1>6. CASE UNCHANGED <<row, wait, watched>> /\ ((loop' = loop /\ stale' = stale) \/ loop' # "watcher")
    BY <1>6
<1>7. ASSUME NEW c \in Call, ReadRow(c)
      PROVE  UNCHANGED <<row, wait, watched>> /\ ((loop' = loop /\ stale' = stale) \/ loop' # "watcher")
    BY <1>7 DEF ReadRow
<1>8. ASSUME NEW c \in Call, Dispatch(c)
      PROVE  UNCHANGED <<row, wait, watched>> /\ ((loop' = loop /\ stale' = stale) \/ loop' # "watcher")
    BY <1>8 DEF Dispatch
<1>9. QED
    BY <1>1, <1>2, <1>3, <1>4, <1>5, <1>6, <1>7, <1>8
    DEF Next, Reconnect, Boot, LeaveNetwork, Send, Lose, LegacyOcr, OcrDone, vars, server

(* Theorem for MarkedInTime: a controller that fell silent is listed as online
   for at most the threshold, one sleep of the watcher and one stretch of OCR
   calls (device_service.py:144), for any lengths of them. *)
THEOREM SilenceNoticed == Spec => []MarkedInTime
<1>1. Init => HeardSince
    BY DEF Init, HeardSince
<1>2. BaseInv /\ HeardSince => MarkedInTime
  <2> SUFFICES ASSUME BaseInv, HeardSince, NEW d \in Device,
                      row[d] # NULL, row[d].status = "online", watched
               PROVE  row[d].age <= Deadline
    BY DEF MarkedInTime
  <2>1. row[d].age <= Threshold + wait /\ wait \in 0..(Period + MaxBlock)
    BY DEF HeardSince, BaseInv, TypeOK
  <2>2. row[d].age \in Nat
    BY Times DEF BaseInv, TypeOK, Row
  <2>3. QED
    BY <2>1, <2>2, Times
<1>3. QED
    BY <1>1, <1>2, HeardStep, BaseAlways, PTL DEF Spec

-----------------------------------------------------------------------------
(* The columns of a row change in its commits only, and in the watcher's. *)
LEMMA CommitColumns ==
    ASSUME BaseInv, NEW c \in Call, CommitRow(c)
    PROVE  LET r == call[c]
               d == r.device
           IN  /\ \A e \in Device \ {d} : row'[e] = row[e]
               /\ row'[d] # NULL /\ row'[d] \in Row
               /\ r.kind # "register" => row[d] # NULL /\ row'[d].ip = row[d].ip
               /\ \/ r.loaded = NULL /\ row[d] # NULL /\ row'[d] = row[d]
                  \/ /\ r.loaded = NULL /\ row[d] = NULL /\ r.kind = "register"
                     /\ row'[d].age = 0 /\ row'[d].ip = r.ip /\ row'[d].status = "online"
                  \/ /\ r.loaded # NULL /\ row[d] # NULL /\ row'[d].age = 0
                     /\ r.kind = "register" => row'[d].ip = Written(row[d].ip, r.loaded.ip, r.ip)
                     /\ row'[d].status = Written(row[d].status, r.loaded.status, "online")
<1> DEFINE r == call[c]
           d == r.device
<1>1. /\ r \in Request /\ r # NULL /\ d \in Device /\ row'[d] \in Row
      /\ row' = [row EXCEPT ![d] = row'[d]]
      /\ r.kind = "register" => row'[d] = Upsert(r) /\ r.ip \in Address
      /\ r.kind # "register" => row'[d] = Touch(r)
      /\ r.loaded # NULL => row[d] # NULL
    BY CommitBase
<1>2. r.kind # "register" => r.loaded # NULL
    BY <1>1 DEF BaseInv, LoopInv, CommitRow
<1>3. TypeOK /\ row \in [Device -> Row \cup {NULL}]
    BY DEF BaseInv, TypeOK
<1> HIDE DEF r, d
<1>4. /\ \A e \in Device \ {d} : row'[e] = row[e]
      /\ row'[d] # NULL
    BY <1>1, <1>3, NullAssumption
<1>5. CASE r.kind = "register"
    BY <1>1, <1>3, <1>4, <1>5, UpsertRow DEF r, d
<1>6. CASE r.kind # "register"
    BY <1>1, <1>2, <1>3, <1>4, <1>6, TouchRow DEF r, d
<1>7. QED
    BY <1>5, <1>6 DEF r, d

(* A registration of d that is under way, of its present address and the only
   one, has read what the table still says. *)
Present(d, c) ==
    /\ call[c].ip = address[d]
    /\ \A b \in Registering(d) : b = c
    /\ ~registered[d]
    /\ call[c].pc = "commit" /\ call[c].loaded = NULL => row[d] = NULL
    /\ call[c].pc = "commit" /\ call[c].loaded # NULL => row[d].ip = call[c].loaded.ip

AddressInv ==
    \A d \in Device :
        /\ address[d] = NULL => ~registered[d]
        /\ address[d] # NULL /\ ~overlap[d] =>
              /\ registered[d] => row[d] # NULL /\ row[d].ip = address[d]
              /\ \A c \in Registering(d) : Present(d, c)

LEMMA AddressStep ==
    ASSUME BaseInv, AddressInv, [Next]_vars
    PROVE  AddressInv'
<1> USE DEF BaseInv, TypeOK, AddressInv, Registering, Present
<1>1. ASSUME NEW d \in Device, NEW ip \in Address, Reconnect(d, ip)
      PROVE  AddressInv'
  <2>1. /\ address[d] = NULL /\ address' = [address EXCEPT ![d] = ip]
        /\ overlap' = [overlap EXCEPT ![d] = Registering(d) # {}]
        /\ UNCHANGED <<row, call, registered>>
    BY <1>1 DEF Reconnect, TakeAddress, server
  <2>2. ~registered[d] /\ (~overlap'[d] => Registering(d)' = {})
    BY <2>1
  <2>3. \A e \in Device \ {d} : address'[e] = address[e] /\ overlap'[e] = overlap[e]
    BY <2>1
  <2>4. QED
    BY <2>1, <2>2, <2>3
<1>2. ASSUME NEW d \in Device, NEW ip \in Address, NEW c \in Call, Boot(d, ip, c)
      PROVE  AddressInv'
  <2> DEFINE new == [kind |-> "register", device |-> d, ip |-> ip, pc |-> "sent", loaded |-> NULL]
  <2>1. /\ address[d] = NULL /\ address' = [address EXCEPT ![d] = ip]
        /\ overlap' = [overlap EXCEPT ![d] = Registering(d) # {}]
        /\ call[c] = NULL /\ call' = [call EXCEPT ![c] = new]
        /\ UNCHANGED <<row, registered>>
    BY <1>2 DEF Boot, TakeAddress, server
  <2>2. new.kind = "register" /\ new.device = d /\ new.ip = ip /\ new.pc = "sent"
    OBVIOUS
  <2> HIDE DEF new
  <2>3. call'[c] = new /\ \A b \in Call \ {c} : call'[b] = call[b]
    BY <2>1
  <2>4. /\ address'[d] = ip
        /\ \A e \in Device \ {d} : address'[e] = address[e] /\ overlap'[e] = overlap[e]
    BY <2>1
  <2>5. \A e \in Device \ {d} : Registering(e)' = Registering(e)
    BY <2>1, <2>2, <2>3
  <2>6. ~registered[d] /\ (~overlap'[d] => Registering(d)' \subseteq {c})
    BY <2>1, <2>3
  <2>7. ASSUME NEW e \in Device \ {d}
        PROVE  /\ address'[e] = NULL => ~registered'[e]
               /\ address'[e] # NULL /\ ~overlap'[e] =>
                     /\ registered'[e] => row'[e] # NULL /\ row'[e].ip = address'[e]
                     /\ \A b \in Registering(e)' : Present(e, b)'
    <3>1. \A b \in Registering(e) : b # c
      BY <2>1
    <3>2. QED
      BY <2>1, <2>3, <2>4, <2>5, <3>1
  <2>8. /\ ~registered'[d] /\ address'[d] # NULL
        /\ ~overlap'[d] => \A b \in Registering(d)' : Present(d, b)'
    BY <2>1, <2>2, <2>3, <2>4, <2>6, NullAssumption
  <2>9. QED
    BY <2>7, <2>8
<1>3. ASSUME NEW d \in Device, LeaveNetwork(d)
      PROVE  AddressInv'
    BY <1>3 DEF LeaveNetwork, server
<1>4. ASSUME NEW d \in Device, NEW c \in Call, NEW kind \in {"heartbeat", "trigger"},
             Send(d, kind, c)
      PROVE  AddressInv'
    BY <1>4 DEF Send, server, history
<1>5. ASSUME NEW c \in Call, Lose(c)
      PROVE  AddressInv'
    BY <1>5 DEF Lose, server, history
<1>6. ASSUME NEW c \in Call, Dispatch(c)
      PROVE  AddressInv'
    BY <1>6 DEF Dispatch, history
<1>7. ASSUME NEW c \in Call, ReadRow(c)
      PROVE  AddressInv'
    BY <1>7, NullAssumption DEF ReadRow, history, Columns, Row, Request
<1>8. ASSUME NEW c \in Call, CommitRow(c)
      PROVE  AddressInv'
  <2> PICK r \in Request, d \in Device : r = call[c] /\ d = r.device
    BY <1>8 DEF CommitRow, Request
  <2>1. /\ r # NULL /\ r.pc = "commit"
        /\ r.kind = "register" => r.ip \in Address
    BY <1>8 DEF CommitRow, Request, LoopInv
  <2>2. /\ call' = [call EXCEPT ![c] = NULL]
        /\ registered' = [registered EXCEPT ![d] = @ \/ (r.kind = "register" /\ r.ip = address[d])]
        /\ UNCHANGED <<address, overlap>>
    BY <1>8 DEF CommitRow
  <2>3. /\ \A e \in Device \ {d} : row'[e] = row[e]
        /\ row'[d] # NULL
        /\ r.kind # "register" => row[d] # NULL /\ row'[d].ip = row[d].ip
        /\ r.kind = "register" =>
              \/ r.loaded = NULL /\ row[d] # NULL /\ row'[d] = row[d]
              \/ r.loaded = NULL /\ row[d] = NULL /\ row'[d].ip = r.ip
              \/ r.loaded # NULL /\ row'[d].ip = Written(row[d].ip, r.loaded.ip, r.ip)
    BY <1>8, CommitColumns
  <2>4. \A b \in Call : call'[b] # NULL => b # c /\ call'[b] = call[b]
    BY <2>2
  <2>5. /\ \A e \in Device \ {d} : registered'[e] <=> registered[e]
        /\ registered'[d] => registered[d] \/ (r.kind = "register" /\ r.ip = address[d])
    BY <2>1, <2>2
  <2> DEFINE Kept(e) ==
        /\ address'[e] = NULL => ~registered'[e]
        /\ address'[e] # NULL /\ ~overlap'[e] =>
              /\ registered'[e] => row'[e] # NULL /\ row'[e].ip = address'[e]
              /\ \A b \in Registering(e)' : Present(e, b)'
  <2>6. ASSUME NEW e \in Device \ {d}
        PROVE  Kept(e)
    <3>1. /\ registered'[e] <=> registered[e]
          /\ row'[e] = row[e] /\ address'[e] = address[e] /\ overlap'[e] = overlap[e]
      BY <2>2, <2>3, <2>5
    <3>2. QED
      BY <2>4, <3>1
  <2>7. address'[d] = NULL => ~registered'[d]
    BY <2>1, <2>2, <2>5, NullAssumption
  <2>8. ASSUME address[d] # NULL, ~overlap[d], r.kind = "register"
        PROVE  /\ row'[d] # NULL /\ row'[d].ip = address[d]
               /\ \A b \in Call : call'[b] # NULL /\ call'[b].device = d
                                     => call'[b].kind # "register"
    <3>1. /\ call[c].ip = address[d] /\ call[c].pc = "commit"
          /\ \A b \in Call : call[b] # NULL /\ call[b].kind = "register" /\ call[b].device = d
                                => b = c
          /\ call[c].loaded = NULL => row[d] = NULL
          /\ call[c].loaded # NULL => row[d].ip = call[c].loaded.ip
      BY <2>1, <2>8
    <3>2. row'[d].ip = address[d]
      BY <2>3, <2>8, <3>1 DEF Written
    <3>3. QED
      BY <2>3, <2>4, <3>1, <3>2
  <2>9. ASSUME address[d] # NULL, ~overlap[d], r.kind # "register"
        PROVE  /\ registered'[d] => row'[d] # NULL /\ row'[d].ip = address[d]
               /\ \A b \in Registering(d)' : Present(d, b)'
    <3>1. (registered'[d] => registered[d]) /\ row'[d].ip = row[d].ip /\ row[d] # NULL
      BY <2>3, <2>5, <2>9
    <3>2. registered[d] => row[d].ip = address[d]
      BY <2>1, <2>9
    <3>3. ASSUME NEW b \in Registering(d)'
          PROVE  Present(d, b)'
      <4>1. b \in Call /\ call'[b] = call[b] /\ b \in Registering(d)
        BY <2>4
      <4>2. Present(d, b)
        BY <2>1, <2>9, <4>1
      <4>3. ~registered'[d] /\ ~(call[b].pc = "commit" /\ call[b].loaded = NULL)
        BY <3>1, <4>2
      <4>4. \A a \in Registering(d)' : a = b
        BY <2>4, <4>2
      <4>5. QED
        BY <2>2, <3>1, <4>1, <4>2, <4>3, <4>4
    <3>4. \A b \in Registering(d)' : Present(d, b)'
      BY <3>3
    <3>5. QED
      BY <2>3, <3>1, <3>2, <3>4
  <2>10. CASE r.kind = "register"
    <3>1. Kept(d)
      BY <2>1, <2>2, <2>7, <2>8, <2>10
    <3> HIDE DEF Kept
    <3>2. \A e \in Device : Kept(e)
      BY <2>6, <3>1
    <3>3. QED
      BY <3>2 DEF Kept
  <2>11. CASE r.kind # "register"
    <3>1. Kept(d)
      BY <2>2, <2>7, <2>9, <2>11
    <3> HIDE DEF Kept
    <3>2. \A e \in Device : Kept(e)
      BY <2>6, <3>1
    <3>3. QED
      BY <3>2 DEF Kept
  <2>12. QED
    BY <2>10, <2>11
<1>9. CASE MarkOffline
    BY <1>9, NullAssumption DEF MarkOffline, history, Row, LoopInv
<1>10. CASE Restart
    BY <1>10 DEF Restart, history
<1>11. CASE Tick
  <2>1. /\ \A c \in Call : call[c] # NULL => call[c].pc # "commit"
        /\ loop # "watcher"
        /\ UNCHANGED <<address, call, stale, raced, registered, overlap>>
    BY <1>11 DEF Tick, history
  <2>2. ASSUME NEW d \in Device
        PROVE  /\ row[d] = NULL => row'[d] = NULL
               /\ row[d] # NULL => /\ row'[d] # NULL /\ row'[d].ip = row[d].ip
                                   /\ row'[d].status = row[d].status
                                   /\ row[d].age \in Nat /\ row'[d].age \in Nat
                                   /\ row'[d].age >= row[d].age
    <3>1. CASE row[d] = NULL
      BY <1>11, <3>1 DEF Tick
    <3>2. CASE row[d] # NULL
      <4>1. row[d] \in Row
        BY <3>2
      <4>2. row'[d] = [row[d] EXCEPT !.age = IF @ < OldAge THEN @ + 1 ELSE @]
        BY <1>11, <3>2 DEF Tick
      <4>3. row'[d] \in Row
        BY <4>1, <4>2, Times DEF Row
      <4>4. QED
        BY <4>1, <4>2, <4>3, NullAssumption, Times DEF Row
    <3>3. QED
      BY <3>1, <3>2
  <2>3. QED
    BY <2>1, <2>2
<1>12. CASE LegacyOcr \/ OcrDone \/ FindStale \/ UNCHANGED vars
    BY <1>12 DEF LegacyOcr, OcrDone, FindStale, vars, history
<1>13. QED
    BY <1>1, <1>2, <1>3, <1>4, <1>5, <1>6, <1>7, <1>8, <1>9, <1>10, <1>11, <1>12 DEF Next

(* Theorem for AddressIsCurrent: however requests were delayed, lost or
   overtaken (device_service.py:39), for any number of controllers. *)
THEOREM AddressCorrect == Spec => []AddressIsCurrent
<1>1. Init => AddressInv
    BY DEF Init, AddressInv
<1>2. AddressInv => AddressIsCurrent
    BY DEF AddressInv, AddressIsCurrent
<1>3. QED
    BY <1>1, <1>2, AddressStep, BaseAlways, PTL DEF Spec

-----------------------------------------------------------------------------
(* A request that read "online" before the watcher wrote "offline" was one
   that the round noticed as overlapping. *)
SilentInv ==
    /\ OfflineOnlyIfSilent
    /\ \A d \in stale : row[d].age = 0 \/ row[d].age > Threshold
    /\ \A c \in Call : /\ call[c] # NULL /\ call[c].pc = "commit" /\ call[c].loaded # NULL
                       /\ call[c].loaded.status = "online"
                       /\ row[call[c].device].status = "offline"
                       => raced[call[c].device]

LEMMA SilentStep ==
    ASSUME BaseInv, SilentInv, [Next]_vars
    PROVE  SilentInv'
<1> USE DEF BaseInv, TypeOK, SilentInv, OfflineOnlyIfSilent
<1>1. ASSUME NEW d \in Device, NEW ip \in Address, Reconnect(d, ip)
      PROVE  SilentInv'
    BY <1>1 DEF Reconnect, TakeAddress, server
<1>2. ASSUME NEW d \in Device, NEW ip \in Address, NEW c \in Call, Boot(d, ip, c)
      PROVE  SilentInv'
    BY <1>2 DEF Boot, TakeAddress, server
<1>3. ASSUME NEW d \in Device, LeaveNetwork(d)
      PROVE  SilentInv'
    BY <1>3 DEF LeaveNetwork, server
<1>4. ASSUME NEW d \in Device, NEW c \in Call, NEW kind \in {"heartbeat", "trigger"},
             Send(d, kind, c)
      PROVE  SilentInv'
    BY <1>4 DEF Send, server, history
<1>5. ASSUME NEW c \in Call, Lose(c)
      PROVE  SilentInv'
    BY <1>5 DEF Lose, server, history
<1>6. ASSUME NEW c \in Call, Dispatch(c)
      PROVE  SilentInv'
    BY <1>6 DEF Dispatch, history
<1>7. ASSUME NEW c \in Call, ReadRow(c)
      PROVE  SilentInv'
    BY <1>7, NullAssumption DEF ReadRow, history, Columns, Row, Request
<1>8. ASSUME NEW c \in Call, CommitRow(c)
      PROVE  SilentInv'
  <2> DEFINE r == call[c]
             d == r.device
  <2>1. /\ r \in Request /\ r # NULL /\ r.pc = "commit" /\ d \in Device
    BY <1>8 DEF CommitRow, Request
  <2>2. /\ call' = [call EXCEPT ![c] = NULL]
        /\ UNCHANGED <<stale, raced>>
    BY <1>8 DEF CommitRow
  <2>3. \A b \in Call : call'[b] # NULL => b # c /\ call'[b] = call[b]
    BY <2>2
  <2>4. /\ \A e \in Device \ {d} : row'[e] = row[e]
        /\ \/ row[d] # NULL /\ row'[d] = row[d]
           \/ row[d] = NULL /\ row'[d].age = 0 /\ row'[d].status = "online"
           \/ /\ r.loaded # NULL /\ row[d] # NULL /\ row'[d].age = 0
              /\ row'[d].status = Written(row[d].status, r.loaded.status, "online")
    BY <1>8, CommitColumns
  <2>5. /\ r.loaded # NULL /\ r.loaded.status = "online" /\ row[d].status = "offline" => raced[d]
        /\ row[d] # NULL => row[d] \in Row
    BY <2>1
  <2> HIDE DEF r, d
  <2>6. row'[d].status = "offline" => row[d].status = "offline" \/ row[d] = NULL
    BY <2>4 DEF Written
  <2>7. row'[d].status = "offline" => row[d] # NULL /\ (row'[d] = row[d] \/ raced[d])
    BY <2>4, <2>5 DEF Written
  <2>8. OfflineOnlyIfSilent'
    BY <2>1, <2>2, <2>4, <2>7
  <2>9. \A e \in stale' : row'[e].age = 0 \/ row'[e].age > Threshold
    BY <2>1, <2>2, <2>4 DEF LoopInv
  <2>10. ASSUME NEW b \in Call, call'[b] # NULL, call'[b].pc = "commit", call'[b].loaded # NULL,
                call'[b].loaded.status = "online", row'[call'[b].device].status = "offline"
         PROVE  raced'[call'[b].device]
    <3>1. call'[b] = call[b] /\ call[b].device \in Device
      BY <2>3, <2>10 DEF Request
    <3>2. CASE call[b].device = d
      BY <2>2, <2>7, <2>10, <3>1, <3>2
    <3>3. CASE call[b].device # d
      BY <2>2, <2>4, <2>10, <3>1, <3>3
    <3>4. QED
      BY <3>2, <3>3
  <2>11. QED
    BY <2>8, <2>9, <2>10
<1>9. CASE FindStale
    BY <1>9 DEF FindStale, Stale, history
<1>10. CASE MarkOffline
  <2>1. /\ row' = [d \in Device |-> IF d \in stale THEN [row[d] EXCEPT !.status = "offline"]
                                                   ELSE row[d]]
        /\ stale' = {} /\ call' = call
        /\ \A d \in stale : (row[d].age = 0 => raced'[d]) /\ (Committing(d) => raced'[d])
        /\ \A d \in Device \ stale : raced'[d] = raced[d]
    BY <1>10 DEF MarkOffline
  <2>2. ASSUME NEW d \in stale
        PROVE  /\ row'[d].age = row[d].age /\ row[d].age \in Nat
               /\ row[d].age = 0 \/ row[d].age > Threshold
               /\ row[d].age = 0 => raced'[d]
               /\ Committing(d) => raced'[d]
    <3>1. row[d] \in Row
      BY <2>2 DEF LoopInv
    <3>2. QED
      BY <2>1, <3>1 DEF Row
  <2>3. \A d \in Device \ stale : row'[d] = row[d] /\ (raced'[d] <=> raced[d])
    BY <2>1
  <2>4. OfflineOnlyIfSilent'
    BY <2>2, <2>3, Times
  <2>5. ASSUME NEW c \in Call, call'[c] # NULL, call'[c].pc = "commit", call'[c].loaded # NULL,
               call'[c].loaded.status = "online", row'[call'[c].device].status = "offline"
        PROVE  raced'[call'[c].device]
    <3>1. call'[c] = call[c] /\ call[c].device \in Device
      BY <2>1, <2>5 DEF Request
    <3>2. Committing(call[c].device)
      BY <2>5, <3>1 DEF Committing
    <3>3. QED
      BY <2>2, <2>3, <2>5, <3>1, <3>2
  <2>6. QED
    BY <2>1, <2>4, <2>5
<1>11. CASE Restart
    BY <1>11 DEF Restart, history
<1>12. CASE Tick
  <2>1. /\ \A c \in Call : call[c] # NULL => call[c].pc # "commit"
        /\ loop # "watcher"
        /\ UNCHANGED <<address, call, stale, raced, registered, overlap>>
    BY <1>12 DEF Tick, history
  <2>2. ASSUME NEW d \in Device
        PROVE  /\ row[d] = NULL => row'[d] = NULL
               /\ row[d] # NULL => /\ row'[d] # NULL /\ row'[d].ip = row[d].ip
                                   /\ row'[d].status = row[d].status
                                   /\ row[d].age \in Nat /\ row'[d].age \in Nat
                                   /\ row'[d].age >= row[d].age
    <3>1. CASE row[d] = NULL
      BY <1>12, <3>1 DEF Tick
    <3>2. CASE row[d] # NULL
      <4>1. row[d] \in Row
        BY <3>2
      <4>2. row'[d] = [row[d] EXCEPT !.age = IF @ < OldAge THEN @ + 1 ELSE @]
        BY <1>12, <3>2 DEF Tick
      <4>3. row'[d] \in Row
        BY <4>1, <4>2, Times DEF Row
      <4>4. QED
        BY <4>1, <4>2, <4>3, NullAssumption, Times DEF Row
    <3>3. QED
      BY <3>1, <3>2
  <2>3. stale = {}
    BY <2>1 DEF LoopInv
  <2>4. OfflineOnlyIfSilent'
    BY <2>1, <2>2, Times
  <2>5. QED
    BY <2>1, <2>3, <2>4
<1>13. CASE LegacyOcr \/ OcrDone \/ UNCHANGED vars
    BY <1>13 DEF LegacyOcr, OcrDone, vars, server, history
<1>14. QED
    BY <1>1, <1>2, <1>3, <1>4, <1>5, <1>6, <1>7, <1>8, <1>9, <1>10, <1>11, <1>12, <1>13 DEF Next

(* Theorem for OfflineOnlyIfSilent: the overlap of a request with a round of
   the watcher is the only way to a false "offline" (device_service.py:144). *)
THEOREM FalseOfflineExplained == Spec => []OfflineOnlyIfSilent
<1>1. Init => SilentInv
    BY DEF Init, SilentInv, OfflineOnlyIfSilent
<1>2. SilentInv => OfflineOnlyIfSilent
    BY DEF SilentInv
<1>3. QED
    BY <1>1, <1>2, SilentStep, BaseAlways, PTL DEF Spec
=============================================================================

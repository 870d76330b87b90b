--------------------------- MODULE WebPagesProofs ----------------------------
(***************************************************************************)
(* What the pages of the user's web app keep true for any number of        *)
(* requests under way, of pre-bookings, slots and moves, whatever is       *)
(* answered late, lost or carried out after the page has given up.         *)
(***************************************************************************)
EXTENDS UserApp, FiniteSetTheorems, WellFoundedInduction, TLAPS

-----------------------------------------------------------------------------
(* Requests *)

MessageFields == {"op", "arg", "open", "answer", "state", "heard"}

IsMessage(m) ==
    /\ DOMAIN m = MessageFields
    /\ m.heard \in BOOLEAN
    /\ m.state \in {"free", "sent", "answered", "refused"}
    /\ m.state = "free" <=> m.op = "idle"
    /\ m.state \in {"answered", "refused"} => m.heard
    /\ m.op \notin Writes => m.heard = (m.op # "idle")

(* Every number holds a message, the free ones none, and a request that    *)
(* only reads is there no longer than somebody waits for it.               *)
WireOK ==
    /\ wire = [c \in Call |-> wire[c]]
    /\ \A c \in Call : IsMessage(wire[c])

(* Nobody waits for anything once the page is left. *)
ClientInv ==
    /\ WireOK
    /\ moves \in 0 .. MaxMoves
    /\ mounted \in BOOLEAN
    /\ ~mounted => Quiet

Calls(op) == {c \in Call : wire[c].op = op}

LEMMA IdleIsMessage ==
    /\ IsMessage(Idle)
    /\ Idle.op = "idle" /\ Idle.state = "free" /\ Idle.heard = FALSE
BY DEF IsMessage, MessageFields, Idle, Writes

LEMMA PutKeeps ==
    ASSUME WireOK, NEW c \in Call, NEW m, IsMessage(m), wire' = [wire EXCEPT ![c] = m]
    PROVE  /\ WireOK'
           /\ wire'[c] = m
           /\ \A d \in Call \ {c} : wire'[d] = wire[d]
<1>1. wire'[c] = m /\ \A d \in Call \ {c} : wire'[d] = wire[d]
    BY DEF WireOK
<1>2. wire' = [d \in Call |-> wire'[d]]
    BY DEF WireOK
<1>3. \A d \in Call : IsMessage(wire'[d])
    BY <1>1 DEF WireOK
<1>4. QED
    BY <1>1, <1>2, <1>3 DEF WireOK, IsMessage

LEMMA FreshIsFree ==
    ASSUME WireOK, Room
    PROVE  Fresh \in Call /\ wire[Fresh].op = "idle" /\ wire[Fresh].state = "free"
<1>1. Fresh \in Call /\ wire[Fresh].state = "free"
    BY DEF Room, Fresh
<1>2. QED
    BY <1>1 DEF WireOK, IsMessage

LEMMA RequestIsMessage ==
    ASSUME NEW op, NEW arg, op # "idle"
    PROVE  IsMessage(Request(op, arg))
BY DEF IsMessage, MessageFields, Request

LEMMA RequestsIsMessage ==
    ASSUME NEW op, NEW parts, op # "idle"
    PROVE  IsMessage(Requests(op, parts))
BY DEF IsMessage, MessageFields, Requests

LEMMA SendEffect ==
    ASSUME WireOK, NEW op, NEW arg, op # "idle", Send(op, arg)
    PROVE  /\ WireOK'
           /\ Fresh \in Call /\ wire[Fresh].op = "idle"
           /\ wire'[Fresh] = Request(op, arg)
           /\ wire'[Fresh].op = op /\ wire'[Fresh].arg = arg
           /\ wire'[Fresh].state = "sent" /\ wire'[Fresh].heard
           /\ \A d \in Call \ {Fresh} : wire'[d] = wire[d]
<1>1. Fresh \in Call /\ wire[Fresh].op = "idle"
    BY FreshIsFree DEF Send
<1>2. /\ WireOK' /\ wire'[Fresh] = Request(op, arg)
      /\ \A d \in Call \ {Fresh} : wire'[d] = wire[d]
    BY <1>1, PutKeeps, RequestIsMessage DEF Send
<1>3. QED
    BY <1>1, <1>2 DEF Request

LEMMA SendAllEffect ==
    ASSUME WireOK, NEW c \in Call, NEW op, NEW parts, op # "idle", SendAll(c, op, parts)
    PROVE  /\ WireOK'
           /\ wire'[c] = Requests(op, parts)
           /\ \A d \in Call \ {c} : wire'[d] = wire[d]
<1>1. IsMessage(Requests(op, parts))
    BY RequestsIsMessage
<1>2. wire' = [wire EXCEPT ![c] = Requests(op, parts)]
    BY DEF SendAll
<1>3. QED
    BY <1>1, <1>2, PutKeeps

LEMMA FulfilEffect ==
    ASSUME WireOK, NEW c \in Call, NEW op, NEW p, NEW value, op # "idle",
           Fulfil(c, op, p, value)
    PROVE  /\ WireOK'
           /\ wire[c].op = op /\ p \in wire[c].open
           /\ wire'[c].op = wire[c].op /\ wire'[c].arg = wire[c].arg
           /\ wire'[c].heard = wire[c].heard /\ wire'[c].state = wire[c].state
           /\ wire'[c].open = wire[c].open \ {p}
           /\ DOMAIN wire'[c].answer = DOMAIN wire[c].answer
           /\ \A q \in DOMAIN wire[c].answer :
                 wire'[c].answer[q] = IF q = p THEN value ELSE wire[c].answer[q]
           /\ \A d \in Call \ {c} : wire'[d] = wire[d]
<1> DEFINE m == [wire[c] EXCEPT !.open = @ \ {p}, !.answer[p] = value]
<1>1. IsMessage(wire[c])
    BY DEF WireOK
<1>2. wire' = [wire EXCEPT ![c] = m]
    BY <1>1 DEF Fulfil, WireOK
<1>3. IsMessage(m) /\ m.op = wire[c].op /\ m.arg = wire[c].arg /\ m.heard = wire[c].heard
      /\ m.state = wire[c].state /\ m.open = wire[c].open \ {p}
      /\ m.answer = [wire[c].answer EXCEPT ![p] = value]
    BY <1>1 DEF IsMessage, MessageFields
<1>4. WireOK' /\ wire'[c] = m /\ \A d \in Call \ {c} : wire'[d] = wire[d]
    BY <1>2, <1>3, PutKeeps
<1>5. wire[c].op = op /\ p \in wire[c].open
    BY DEF Fulfil
<1>6. /\ DOMAIN m.answer = DOMAIN wire[c].answer
      /\ \A q \in DOMAIN wire[c].answer :
            m.answer[q] = IF q = p THEN value ELSE wire[c].answer[q]
    BY <1>3
<1> HIDE DEF m
<1>7. QED
    BY <1>3, <1>4, <1>5, <1>6

LEMMA DropEffect ==
    ASSUME WireOK, NEW c \in Call, NEW op, NEW p, op # "idle", Drop(c, op, p)
    PROVE  /\ WireOK'
           /\ wire[c].op = op /\ p \in wire[c].open
           /\ wire'[c].op = wire[c].op /\ wire'[c].arg = wire[c].arg
           /\ wire'[c].heard = wire[c].heard /\ wire'[c].state = wire[c].state
           /\ wire'[c].open = wire[c].open \ {p}
           /\ wire'[c].answer = wire[c].answer
           /\ \A d \in Call \ {c} : wire'[d] = wire[d]
<1> DEFINE m == [wire[c] EXCEPT !.open = @ \ {p}]
<1>1. IsMessage(wire[c])
    BY DEF WireOK
<1>2. wire' = [wire EXCEPT ![c] = m]
    BY <1>1 DEF Drop, WireOK
<1>3. IsMessage(m) /\ m.op = wire[c].op /\ m.arg = wire[c].arg /\ m.heard = wire[c].heard
      /\ m.state = wire[c].state /\ m.open = wire[c].open \ {p}
      /\ m.answer = wire[c].answer
    BY <1>1 DEF IsMessage, MessageFields
<1>4. WireOK' /\ wire'[c] = m /\ \A d \in Call \ {c} : wire'[d] = wire[d]
    BY <1>2, <1>3, PutKeeps
<1>5. QED
    BY <1>3, <1>4 DEF Drop

LEMMA ReplyEffect ==
    ASSUME WireOK, NEW c \in Call, wire[c].op # "idle", NEW state \in {"answered", "refused"},
           NEW answer, Reply(c, state, answer)
    PROVE  /\ WireOK'
           /\ \/ wire'[c].op = "idle" /\ ~wire'[c].heard
              \/ /\ wire[c].heard
                 /\ wire'[c].op = wire[c].op /\ wire'[c].arg = wire[c].arg
                 /\ wire'[c].heard = TRUE /\ wire'[c].state = state
                 /\ wire'[c].answer = answer
           /\ wire[c].heard => wire'[c].op = wire[c].op
           /\ ~wire[c].heard => wire'[c].op = "idle" /\ wire'[c].state = "free"
           /\ wire'[c].heard = wire[c].heard
           /\ \A d \in Call \ {c} : wire'[d] = wire[d]
<1>1. IsMessage(wire[c])
    BY DEF WireOK
<1>2. CASE wire[c].heard
  <2> DEFINE m == [wire[c] EXCEPT !.state = state, !.answer = answer]
  <2>1. wire' = [wire EXCEPT ![c] = m]
    BY <1>2 DEF Reply
  <2>2. IsMessage(m) /\ m.op = wire[c].op /\ m.arg = wire[c].arg /\ m.heard = wire[c].heard
        /\ m.state = state /\ m.answer = answer
    BY <1>1, <1>2 DEF IsMessage, MessageFields
  <2>3. WireOK' /\ wire'[c] = m /\ \A d \in Call \ {c} : wire'[d] = wire[d]
    BY <2>1, <2>2, PutKeeps
  <2>4. QED
    BY <1>1, <1>2, <2>2, <2>3 DEF IsMessage
<1>3. CASE ~wire[c].heard
  <2>1. wire' = [wire EXCEPT ![c] = Idle]
    BY <1>3 DEF Reply
  <2>2. WireOK' /\ wire'[c] = Idle /\ \A d \in Call \ {c} : wire'[d] = wire[d]
    BY <2>1, IdleIsMessage, PutKeeps
  <2>3. wire[c].heard = FALSE
    BY <1>1, <1>3 DEF IsMessage
  <2>4. QED
    BY <1>3, <2>2, <2>3, IdleIsMessage
<1>4. QED
    BY <1>2, <1>3

LEMMA TakeEffect ==
    ASSUME WireOK, NEW c \in Call, Take(c)
    PROVE  /\ WireOK'
           /\ wire'[c].op = "idle" /\ wire'[c].state = "free" /\ ~wire'[c].heard
           /\ \A d \in Call \ {c} : wire'[d] = wire[d]
BY PutKeeps, IdleIsMessage DEF Take

(* What is left is nothing, or a request that was sent and nobody hears. *)
LEMMA ForgottenMessage ==
    ASSUME NEW m, IsMessage(m)
    PROVE  /\ IsMessage(Forgotten(m))
           /\ ~Forgotten(m).heard
           /\ \/ Forgotten(m).op = "idle" /\ Forgotten(m).state = "free"
              \/ /\ m.op \in Writes /\ m.state = "sent"
                 /\ Forgotten(m).op = m.op /\ Forgotten(m).arg = m.arg
                 /\ Forgotten(m).state = "sent"
<1>1. CASE m.state = "sent" /\ m.op \in Writes
    BY <1>1 DEF Forgotten, IsMessage, MessageFields
<1>2. CASE ~(m.state = "sent" /\ m.op \in Writes)
    BY <1>2, IdleIsMessage DEF Forgotten
<1>3. QED
    BY <1>1, <1>2

LEMMA RejectedEffect ==
    ASSUME WireOK, NEW c \in Call, NEW op, Rejected(c, op)
    PROVE  /\ WireOK'
           /\ wire[c].op = op /\ wire[c].heard /\ ~wire'[c].heard
           /\ \/ wire'[c].op = "idle" /\ wire'[c].state = "free"
              \/ /\ op \in Writes /\ wire[c].state = "sent"
                 /\ wire'[c].op = op /\ wire'[c].arg = wire[c].arg
                 /\ wire'[c].state = "sent"
           /\ \A d \in Call \ {c} : wire'[d] = wire[d]
<1>1. IsMessage(wire[c]) /\ wire[c].op = op
    BY DEF WireOK, Rejected
<1>2. wire' = [wire EXCEPT ![c] = Forgotten(wire[c])]
    BY DEF Rejected
<1>3. IsMessage(Forgotten(wire[c]))
    BY <1>1, ForgottenMessage
<1>4. WireOK' /\ wire'[c] = Forgotten(wire[c]) /\ \A d \in Call \ {c} : wire'[d] = wire[d]
    BY <1>2, <1>3, PutKeeps
<1>5. QED
    BY <1>1, <1>4, ForgottenMessage DEF Rejected

LEMMA UnmountEffect ==
    ASSUME WireOK, Unmount
    PROVE  /\ WireOK'
           /\ \A c \in Call :
                 /\ ~wire'[c].heard
                 /\ \/ wire'[c].op = "idle" /\ wire'[c].state = "free"
                    \/ /\ wire[c].op \in Writes /\ wire[c].state = "sent"
                       /\ wire'[c].op = wire[c].op /\ wire'[c].arg = wire[c].arg
                       /\ wire'[c].state = "sent"
<1>1. \A c \in Call : wire'[c] = Forgotten(wire[c])
    BY DEF Unmount
<1>2. wire' = [c \in Call |-> wire'[c]]
    BY DEF Unmount
<1>3. \A c \in Call : IsMessage(wire[c])
    BY DEF WireOK
<1>4. \A c \in Call : IsMessage(wire'[c])
    BY <1>1, <1>3, ForgottenMessage
<1>5. WireOK'
    BY <1>2, <1>4 DEF WireOK, IsMessage
<1>6. QED
    BY <1>1, <1>3, <1>5, ForgottenMessage

-----------------------------------------------------------------------------
(* Whatever a page does, the requests stay well formed and nobody waits    *)
(* for the answers of a page that is left.                                 *)

LEMMA SendAllFreshEffect ==
    ASSUME WireOK, NEW op, NEW parts, op # "idle", Room, SendAll(Fresh, op, parts)
    PROVE  /\ WireOK'
           /\ Fresh \in Call /\ wire[Fresh].op = "idle"
           /\ wire'[Fresh] = Requests(op, parts)
           /\ \A d \in Call \ {Fresh} : wire'[d] = wire[d]
<1>1. Fresh \in Call /\ wire[Fresh].op = "idle"
    BY FreshIsFree
<1>2. QED
    BY <1>1, SendAllEffect

LEMMA WireUnchanged ==
    ASSUME WireOK, UNCHANGED wire
    PROVE  WireOK'
BY DEF WireOK, IsMessage

LEMMA ClientKept ==
    ASSUME ClientInv, WireOK', moves' = moves \/ Spend,
           \/ mounted' = TRUE
           \/ mounted' = mounted /\ \A c \in Call : wire'[c].heard => wire[c].heard
           \/ mounted' = FALSE /\ \A c \in Call : ~wire'[c].heard
    PROVE  ClientInv'
<1>1. moves' \in 0 .. MaxMoves
    BY ClientAssumption DEF ClientInv, Spend
<1>2. QED
    BY <1>1 DEF ClientInv, Quiet

LEMMA SendClient ==
    ASSUME ClientInv, NEW op, NEW arg, op # "idle", Send(op, arg),
           moves' = moves \/ Spend, mounted' = TRUE \/ (mounted' = mounted /\ mounted)
    PROVE  ClientInv'
BY SendEffect, ClientKept DEF ClientInv

LEMMA SendAllClient ==
    ASSUME ClientInv, NEW c \in Call, NEW op, NEW parts, op # "idle", SendAll(c, op, parts),
           moves' = moves \/ Spend,
           mounted' = TRUE \/ (mounted' = mounted /\ (mounted \/ wire[c].heard))
    PROVE  ClientInv'
<1>1. mounted' = TRUE
    BY DEF ClientInv, Quiet
<1>2. QED
    BY <1>1, SendAllEffect, ClientKept DEF ClientInv

LEMMA ReplyClient ==
    ASSUME ClientInv, NEW c \in Call, wire[c].op # "idle", NEW state \in {"answered", "refused"},
           NEW answer, Reply(c, state, answer), UNCHANGED <<moves, mounted>>
    PROVE  ClientInv'
<1>1. WireOK' /\ wire'[c].heard = wire[c].heard /\ \A d \in Call \ {c} : wire'[d] = wire[d]
    BY ReplyEffect DEF ClientInv
<1>2. QED
    BY <1>1, ClientKept

LEMMA FulfilClient ==
    ASSUME ClientInv, NEW c \in Call, NEW op, NEW p, NEW value, op # "idle",
           Fulfil(c, op, p, value) \/ Drop(c, op, p), moves' = moves \/ Spend, mounted' = mounted
    PROVE  ClientInv'
<1>1. WireOK' /\ wire'[c].heard = wire[c].heard /\ \A d \in Call \ {c} : wire'[d] = wire[d]
    BY FulfilEffect, DropEffect DEF ClientInv
<1>2. QED
    BY <1>1, ClientKept

LEMMA TakeClient ==
    ASSUME ClientInv, NEW c \in Call, NEW op, Take(c) \/ Rejected(c, op),
           UNCHANGED <<moves, mounted>>
    PROVE  ClientInv'
<1>1. WireOK' /\ ~wire'[c].heard /\ \A d \in Call \ {c} : wire'[d] = wire[d]
    BY TakeEffect, RejectedEffect DEF ClientInv
<1>2. QED
    BY <1>1, ClientKept

LEMMA UnmountClient ==
    ASSUME ClientInv, Unmount
    PROVE  ClientInv'
BY UnmountEffect, ClientKept DEF ClientInv, Unmount

LEMMA QuietClient ==
    ASSUME ClientInv, UNCHANGED <<wire, mounted>>, moves' = moves \/ Spend
    PROVE  ClientInv'
BY WireUnchanged, ClientKept DEF ClientInv

LEMMA BookingsClient ==
    ASSUME ClientInv, BookingsNext
    PROVE  ClientInv'
<1>1. ASSUME OpenBookings PROVE ClientInv'
    BY <1>1, SendClient DEF OpenBookings
<1>2. ASSUME Refresh PROVE ClientInv'
    BY <1>2, SendClient DEF Refresh
<1>3. ASSUME LeaveBookings PROVE ClientInv'
    BY <1>3, UnmountClient DEF LeaveBookings
<1>4. ASSUME NEW b \in Booking, handleCancel(b) PROVE ClientInv'
    BY <1>4, SendClient DEF handleCancel
<1>5. ASSUME NEW b \in Booking, BookedElsewhere(b) PROVE ClientInv'
    BY <1>5, QuietClient DEF BookedElsewhere
<1>6. ASSUME NEW c \in Call, Loaded(c) PROVE ClientInv'
    BY <1>6, TakeClient DEF Loaded
<1>7. ASSUME NEW c \in Call, Cancelled(c) PROVE ClientInv'
    BY <1>7, TakeClient DEF Cancelled
<1>8. ASSUME NEW c \in Call, CancelFailed(c) PROVE ClientInv'
    BY <1>8, TakeClient DEF CancelFailed
<1>9. ASSUME NEW c \in Call, ServeBookings(c) PROVE ClientInv'
    BY <1>9, ReplyClient DEF ServeBookings, Sent
<1>10. ASSUME NEW c \in Call, ServeCancel(c) PROVE ClientInv'
    BY <1>10, ReplyClient DEF ServeCancel, Sent
<1>11. QED
    BY <1>1, <1>2, <1>3, <1>4, <1>5, <1>6, <1>7, <1>8, <1>9, <1>10
    DEF BookingsNext, BookingsAnswer, BookingsServe

LEMMA WalletClient ==
    ASSUME ClientInv, WalletNext
    PROVE  ClientInv'
<1>1. ASSUME OpenWallet PROVE ClientInv'
    BY <1>1, FreshIsFree, SendAllClient DEF OpenWallet, ClientInv
<1>2. ASSUME LeaveWallet PROVE ClientInv'
    BY <1>2, UnmountClient DEF LeaveWallet
<1>3. ASSUME BookedByOthers PROVE ClientInv'
    BY <1>3, QuietClient DEF BookedByOthers
<1>4. ASSUME NEW amount \in Amount, handleTopUp(amount) PROVE ClientInv'
    BY <1>4, SendClient DEF handleTopUp
<1>5. ASSUME NEW c \in Call, fetchData(c) PROVE ClientInv'
    BY <1>5, TakeClient DEF fetchData
<1>6. ASSUME NEW c \in Call, ToppedUp(c) PROVE ClientInv'
  <2>1. wire[c].heard
    BY <1>6 DEF ToppedUp, Answered, ClientInv, WireOK, IsMessage
  <2>2. QED
    BY <1>6, <2>1, SendAllClient DEF ToppedUp
<1>7. ASSUME NEW c \in Call, TopUpFailed(c) PROVE ClientInv'
    BY <1>7, TakeClient DEF TopUpFailed
<1>8. ASSUME NEW c \in Call, ServeTopUp(c) PROVE ClientInv'
    BY <1>8, ReplyClient DEF ServeTopUp, Sent
<1>9. ASSUME NEW c \in Call, NEW r \in Reads, ServeRead(c, r) PROVE ClientInv'
    BY <1>9, FulfilClient DEF ServeRead
<1>10. ASSUME NEW c \in Call, NEW r \in Reads, FailRead(c, r) PROVE ClientInv'
    BY <1>10, FulfilClient DEF FailRead
<1>11. QED
    BY <1>1, <1>2, <1>3, <1>4, <1>5, <1>6, <1>7, <1>8, <1>9, <1>10
    DEF WalletNext, WalletAnswer, WalletServe

LEMMA ProfileClient ==
    ASSUME ClientInv, ProfileNext
    PROVE  ClientInv'
<1>1. ASSUME OpenProfile PROVE ClientInv'
    BY <1>1, SendClient DEF OpenProfile
<1>2. ASSUME LeaveProfile PROVE ClientInv'
    BY <1>2, UnmountClient DEF LeaveProfile
<1>3. ASSUME NEW p \in Plate, handleAddVehicle(p) PROVE ClientInv'
    BY <1>3, SendClient DEF handleAddVehicle
<1>4. ASSUME NEW id \in RemoveOffered, handleDeleteVehicle(id) PROVE ClientInv'
    BY <1>4, SendClient DEF handleDeleteVehicle
<1>5. ASSUME NEW c \in Call, ProfileAnswer(c) PROVE ClientInv'
    BY <1>5, TakeClient
    DEF ProfileAnswer, VehiclesLoaded, VehicleAdded, AddFailed, VehicleRemoved, RemoveFailed
<1>6. ASSUME NEW c \in Call, ProfileServe(c) PROVE ClientInv'
    BY <1>6, ReplyClient DEF ProfileServe, ServeVehicles, ServeAdd, ServeDelete, Sent
<1>7. ASSUME GarageChangesElsewhere PROVE ClientInv'
    BY <1>7, QuietClient DEF GarageChangesElsewhere
<1>8. QED
    BY <1>1, <1>2, <1>3, <1>4, <1>5, <1>6, <1>7 DEF ProfileNext

LEMMA DashboardClient ==
    ASSUME ClientInv, DashboardNext
    PROVE  ClientInv'
<1>1. ASSUME OpenDashboard PROVE ClientInv'
    BY <1>1, FreshIsFree, SendAllClient DEF OpenDashboard, Poll, ClientInv
<1>2. ASSUME LeaveDashboard PROVE ClientInv'
    BY <1>2, UnmountClient DEF LeaveDashboard
<1>3. ASSUME usePolling PROVE ClientInv'
    BY <1>3, FreshIsFree, SendAllClient DEF usePolling, Poll, ClientInv
<1>4. ASSUME NEW mode, onClose \/ setBookingMode(mode) \/ setPlate \/ LotChanges PROVE ClientInv'
    BY <1>4, QuietClient DEF onClose, setBookingMode, setPlate, LotChanges
<1>5. ASSUME NEW s \in Slot, onBook(s) PROVE ClientInv'
    BY <1>5, QuietClient DEF onBook
<1>6. ASSUME handleBook PROVE ClientInv'
    BY <1>6, SendClient DEF handleBook
<1>7. ASSUME NEW startTime, NEW endTime, handleSubmit(startTime, endTime) PROVE ClientInv'
    BY <1>7, SendClient DEF handleSubmit
<1>8. ASSUME NEW c \in Call, fetchAll(c) PROVE ClientInv'
    BY <1>8, TakeClient DEF fetchAll
<1>9. ASSUME NEW c \in Call, Booked(c) PROVE ClientInv'
  <2>1. wire[c].heard /\ UNCHANGED <<moves, mounted>> /\ (Poll(c) \/ Take(c))
    BY <1>9 DEF Booked, Answered, ClientInv, WireOK, IsMessage
  <2>2. QED
    BY <2>1, TakeClient, SendAllClient DEF Poll
<1>10. ASSUME NEW c \in Call, BookFailed(c) PROVE ClientInv'
    BY <1>10, TakeClient DEF BookFailed
<1>11. ASSUME NEW c \in Call, ServeBook(c) \/ ServePreBook(c) PROVE ClientInv'
  <2>1. /\ UNCHANGED <<moves, mounted>> /\ wire[c].op # "idle"
        /\ \E state \in {"answered", "refused"} : Reply(c, state, None)
    BY <1>11 DEF ServeBook, ServePreBook, Sent
  <2>2. QED
    BY <2>1, ReplyClient
<1>12. ASSUME NEW c \in Call, NEW p \in Parts, ServePart(c, p) PROVE ClientInv'
    BY <1>12, FulfilClient DEF ServePart
<1>13. ASSUME NEW c \in Call, NEW p \in Parts, FailPart(c, p) PROVE ClientInv'
    BY <1>13, FulfilClient DEF FailPart
<1>14. QED
    BY <1>1, <1>2, <1>3, <1>4, <1>5, <1>6, <1>7, <1>8, <1>9, <1>10, <1>11, <1>12, <1>13
    DEF DashboardNext, DashboardAnswer, DashboardServe

LEMMA WireInit ==
    ASSUME Init
    PROVE  ClientInv /\ \A c \in Call : wire[c] = Idle
<1>1. wire = [c \in Call |-> Idle] /\ moves = 0 /\ mounted = FALSE
    BY DEF Init, ClientInit
<1>2. \A c \in Call : wire[c] = Idle
    BY <1>1
<1>3. WireOK
    BY <1>1, <1>2, IdleIsMessage DEF WireOK
<1>4. moves \in 0 .. MaxMoves
    BY <1>1, ClientAssumption
<1>5. QED
    BY <1>1, <1>2, <1>3, <1>4, IdleIsMessage DEF ClientInv, Quiet

LEMMA ClientNext ==
    ASSUME ClientInv, [Next]_vars
    PROVE  ClientInv'
<1>1. ASSUME CameraNext /\ UNCHANGED clientVars PROVE ClientInv'
    BY <1>1, QuietClient DEF clientVars
<1>2. ASSUME UNCHANGED vars PROVE ClientInv'
    BY <1>2, QuietClient DEF vars, clientVars
<1>3. QED
    BY <1>1, <1>2, BookingsClient, WalletClient, ProfileClient, DashboardClient DEF Next

-----------------------------------------------------------------------------
(* My Pre-Bookings *)

BookingRowsTrue == ShownCancelledIsCancelled /\ CancelledStaysShown

(* Rows on their way to the page, and cancellations reported to it, are    *)
(* true of the server's rows by the time they arrive: a row that is        *)
(* cancelled stays so.                                                     *)
BookingMessage(m) ==
    /\ m.op \in {"idle", "bookings", "cancel"}
    /\ m.op = "cancel" => /\ m.arg \in Booking
                          /\ m.state = "answered" => status[m.arg] = "cancelled"
    /\ m.op = "bookings" /\ m.state = "answered" =>
         /\ m.answer \in [Booking -> {"absent", "active", "cancelled"}]
         /\ \A b \in Booking : m.answer[b] = "cancelled" => status[b] = "cancelled"

BookingMessages == \A c \in Call : BookingMessage(wire[c])

(* Unless Refresh was pressed with an answer outstanding, nothing else is  *)
(* waited for while the rows load, and no row cancelled here comes back.   *)
ReloadAlone ==
    \A c \in Calls("bookings") :
       /\ bookingsLoading
       /\ \A d \in Call : wire[d].heard => d = c
       /\ wire[c].state = "answered" => \A b \in told : wire[c].answer[b] # "active"

BookingsFirst == bookings = NoBookings /\ bookingsLoading /\ told = {}

BookingsInv ==
    /\ BookingsTypeOK
    /\ BookingRowsTrue
    /\ \A b \in told : status[b] = "cancelled"
    /\ page # "my-bookings" \/ ~mounted => BookingsFirst
    /\ page = "my-bookings" => BookingMessages /\ (~refreshedBusy => ReloadAlone)

LEMMA BookingsExpanded ==
    /\ BookingsTypeOK <=>
         /\ status \in [Booking -> {"absent", "active", "cancelled"}]
         /\ bookings \in [Booking -> {"absent", "active", "cancelled"}]
         /\ bookingsLoading \in BOOLEAN
         /\ cancelling \in Booking \cup {None}
         /\ told \subseteq Booking
         /\ refreshedBusy \in BOOLEAN
    /\ BookingRowsTrue <=>
         /\ \A b \in Booking : bookings[b] = "cancelled" => status[b] = "cancelled"
         /\ refreshedBusy \/ \A b \in told : bookings[b] # "active"
BY DEF BookingsTypeOK, BookingRowsTrue, BookingStatus,
       ShownCancelledIsCancelled, CancelledStaysShown

LEMMA BookingsInvInit ==
    ASSUME Init
    PROVE  BookingsInv
<1>1. \A c \in Call : wire[c].op = "idle"
    BY IdleIsMessage DEF Init, ClientInit
<1>2. BookingsInit
    BY DEF Init
<1>3. /\ status \in [Booking -> {"absent", "active"}] /\ bookings = [b \in Booking |-> "absent"]
      /\ bookingsLoading /\ cancelling = None /\ told = {} /\ ~refreshedBusy
      /\ BookingsFirst /\ bookingsLoading \in BOOLEAN /\ refreshedBusy \in BOOLEAN
    BY <1>2 DEF BookingsInit, NoBookings, BookingsFirst
<1>4. BookingsTypeOK /\ BookingRowsTrue
    BY <1>3, BookingsExpanded
<1>5. BookingMessages /\ ReloadAlone
    BY <1>1 DEF BookingMessages, BookingMessage, ReloadAlone, Calls
<1>6. QED
    BY <1>3, <1>4, <1>5 DEF BookingsInv

LEMMA BookingsInvStep ==
    ASSUME ClientInv, BookingsInv, BookingsNext, Others("my-bookings")
    PROVE  BookingsInv'
<1> USE DEF BookingsTypeOK, BookingRowsTrue, BookingStatus,
            ShownCancelledIsCancelled, CancelledStaysShown
<1>1. /\ WireOK /\ BookingsTypeOK /\ BookingRowsTrue
      /\ \A b \in told : status[b] = "cancelled"
      /\ \A c \in Call : IsMessage(wire[c]) /\ BookingMessage(wire[c])
      /\ ~refreshedBusy => ReloadAlone
      /\ page = "my-bookings" /\ page' = page
    BY DEF Others, ClientInv, WireOK, BookingsInv, BookingMessages
<1>2. \A c \in Calls("bookings") : wire[c].heard /\ mounted
    BY <1>1 DEF Calls, IsMessage, Writes, ClientInv, Quiet
<1>3. ASSUME UNCHANGED status, BookingMessages',
             ~refreshedBusy' => ReloadAlone', BookingsTypeOK', BookingRowsTrue',
             \A b \in told' : status[b] = "cancelled",
             ~mounted' => BookingsFirst'
      PROVE  BookingsInv'
    BY <1>1, <1>3 DEF BookingsInv
(* One call changes, the others keep what they carry.                      *)
<1>4. ASSUME NEW c \in Call, \A d \in Call \ {c} : wire'[d] = wire[d],
             \A b \in Booking : status[b] = "cancelled" => status'[b] = "cancelled",
             BookingMessage(wire[c]) => BookingMessage(wire[c])'
      PROVE  BookingMessages'
    BY <1>1, <1>4 DEF BookingMessages, BookingMessage
<1>5. ASSUME Send("bookings", None), UNCHANGED status
      PROVE  BookingMessages' /\ (Quiet /\ bookingsLoading' => ReloadAlone')
  <2>1. /\ Fresh \in Call /\ wire'[Fresh].op = "bookings" /\ wire'[Fresh].state = "sent"
        /\ \A d \in Call \ {Fresh} : wire'[d] = wire[d]
    BY <1>1, <1>5, SendEffect
  <2>2. BookingMessages'
    BY <1>4, <1>5, <2>1 DEF BookingMessage
  <2>3. ASSUME Quiet, bookingsLoading' PROVE ReloadAlone'
    <3>1. \A d \in Call : wire'[d].heard => d = Fresh
      BY <2>1, <2>3 DEF Quiet
    <3>2. \A d \in Calls("bookings")' : d = Fresh
      BY <1>2, <2>1, <2>3 DEF Calls, Quiet
    <3>3. QED
      BY <2>1, <2>3, <3>1, <3>2 DEF ReloadAlone
  <2>4. QED
    BY <2>2, <2>3
<1>6. ASSUME NEW c \in Call, wire[c].op = "cancel", wire[c].heard,
             ~wire'[c].heard, wire'[c].op \in {"idle", "cancel"},
             wire'[c].op = "cancel" => wire'[c].arg = wire[c].arg /\ wire'[c].state = "sent",
             \A d \in Call \ {c} : wire'[d] = wire[d],
             UNCHANGED <<status, refreshedBusy>>
      PROVE  BookingMessages' /\ (~refreshedBusy' => ReloadAlone')
  <2>1. BookingMessages'
    BY <1>4, <1>6 DEF BookingMessage
  <2>2. ASSUME ~refreshedBusy PROVE ReloadAlone'
    <3>1. Calls("bookings") = {}
      BY <1>1, <1>6, <2>2 DEF ReloadAlone, Calls
    <3>2. Calls("bookings")' = {}
      BY <1>6, <3>1 DEF Calls
    <3>3. QED
      BY <3>2 DEF ReloadAlone
  <2>3. QED
    BY <1>6, <2>1, <2>2
<1>7. CASE OpenBookings
  <2>1. /\ ~mounted /\ mounted' = TRUE /\ Send("bookings", None)
        /\ UNCHANGED <<status, bookings, bookingsLoading, cancelling, told, refreshedBusy>>
    BY <1>7 DEF OpenBookings, bookingVars
  <2>2. Send("bookings", None)
    BY <2>1
  <2>3. Quiet /\ bookingsLoading
    BY <2>1 DEF ClientInv, BookingsInv, BookingsFirst
  <2>4. BookingMessages' /\ ReloadAlone'
    BY <1>5, <2>1, <2>2, <2>3
  <2>5. BookingsTypeOK' /\ BookingRowsTrue'
    BY <1>1, <2>1
  <2>6. QED
    BY <1>1, <1>3, <2>1, <2>4, <2>5
<1>8. CASE LeaveBookings
  <2>1. /\ Unmount /\ bookings' = NoBookings /\ bookingsLoading' = TRUE /\ cancelling' = None
        /\ told' = {} /\ refreshedBusy' = FALSE /\ status' = status
    BY <1>8 DEF LeaveBookings
  <2>2. \A c \in Call : /\ ~wire'[c].heard
                        /\ \/ wire'[c].op = "idle" /\ wire'[c].state = "free"
                           \/ /\ wire[c].op \in Writes /\ wire'[c].op = wire[c].op
                              /\ wire'[c].arg = wire[c].arg /\ wire'[c].state = "sent"
    BY <1>1, <2>1, UnmountEffect
  <2>3. BookingMessages' /\ ReloadAlone'
    BY <1>1, <2>1, <2>2 DEF BookingMessages, BookingMessage, ReloadAlone, Calls, Writes
  <2>4. BookingsFirst'
    BY <2>1 DEF BookingsFirst
  <2>5. BookingsTypeOK' /\ BookingRowsTrue'
    <3>1. bookings' = [b \in Booking |-> "absent"]
      BY <2>1 DEF NoBookings
    <3>2. bookingsLoading' \in BOOLEAN /\ refreshedBusy' \in BOOLEAN
      BY <2>1
    <3>3. QED
      BY <1>1, <2>1, <3>1, <3>2
  <2>6. QED
    BY <1>3, <2>1, <2>3, <2>4, <2>5
<1>9. CASE Refresh
  <2>1. /\ mounted /\ mounted' = mounted
        /\ UNCHANGED <<status, bookings, cancelling, told>>
    BY <1>9 DEF Refresh
  <2>2. Send("bookings", None)
    BY <1>9 DEF Refresh
  <2>3. /\ bookingsLoading' /\ {bookingsLoading'} \subseteq BOOLEAN /\ {refreshedBusy'} \subseteq BOOLEAN
        /\ ~refreshedBusy' => Quiet /\ ~refreshedBusy
    <3>1. bookingsLoading' = TRUE /\ refreshedBusy' = (refreshedBusy \/ ~Quiet)
      BY <1>9 DEF Refresh
    <3>2. bookingsLoading' /\ {bookingsLoading'} \subseteq BOOLEAN
      BY <3>1
    <3>3. {refreshedBusy'} \subseteq BOOLEAN
      BY <3>1
    <3>4. ~refreshedBusy' => Quiet /\ ~refreshedBusy
      <4>1. refreshedBusy \in BOOLEAN
        BY <1>1
      <4>2. QED
        BY <3>1, <4>1 DEF Quiet
    <3>5. QED
      BY <3>2, <3>3, <3>4
  <2>4. BookingMessages' /\ (~refreshedBusy' => ReloadAlone')
    BY <1>5, <2>1, <2>2, <2>3
  <2>5. BookingsTypeOK' /\ BookingRowsTrue'
    <3>1. bookingsLoading' \in BOOLEAN /\ refreshedBusy' \in BOOLEAN
      BY <2>3
    <3>2. QED
      BY <1>1, <2>1, <2>3, <3>1
  <2>6. QED
    BY <1>1, <1>3, <2>1, <2>3, <2>4, <2>5
<1>10. ASSUME NEW b \in Booking, handleCancel(b) PROVE BookingsInv'
  <2>1. /\ mounted /\ mounted' = mounted /\ ~bookingsLoading /\ cancelling' = b
        /\ UNCHANGED <<status, bookings, bookingsLoading, told, refreshedBusy>>
    BY <1>10 DEF handleCancel, CancelOffered, BookingsScreen
  <2>2. Send("cancel", b)
    BY <1>10 DEF handleCancel
  <2>3. /\ Fresh \in Call /\ wire[Fresh].op = "idle" /\ wire'[Fresh].op = "cancel"
        /\ wire'[Fresh].arg = b /\ wire'[Fresh].state = "sent"
        /\ \A d \in Call \ {Fresh} : wire'[d] = wire[d]
    BY <1>1, <2>2, SendEffect
  <2>4. BookingMessages'
    BY <1>4, <2>1, <2>3 DEF BookingMessage
  <2>5. ASSUME ~refreshedBusy PROVE ReloadAlone'
    <3>1. Calls("bookings") = {}
      BY <1>1, <2>1, <2>5 DEF ReloadAlone
    <3>2. Calls("bookings")' = {}
      BY <2>3, <3>1 DEF Calls
    <3>3. QED
      BY <3>2 DEF ReloadAlone
  <2>6. BookingsTypeOK' /\ BookingRowsTrue'
    BY <1>1, <2>1
  <2>7. QED
    BY <1>1, <1>3, <2>1, <2>4, <2>5, <2>6
<1>11. ASSUME NEW b \in Booking, BookedElsewhere(b)
       PROVE  BookingsInv'
  <2>1. UNCHANGED <<wire, mounted, bookings, bookingsLoading, cancelling, told, refreshedBusy>>
    BY <1>11 DEF BookedElsewhere, bookingView
  <2>2. /\ status' \in [Booking -> {"absent", "active", "cancelled"}]
        /\ \A e \in Booking : status[e] = "cancelled" => status'[e] = "cancelled"
    BY <1>1, <1>11 DEF BookedElsewhere
  <2>3. BookingMessages'
    BY <1>1, <2>1, <2>2 DEF BookingMessages, BookingMessage
  <2>4. BookingsTypeOK' /\ BookingRowsTrue'
    BY <1>1, <2>1, <2>2
  <2>5. told \subseteq Booking
    BY <1>1
  <2>6. QED
    BY <1>1, <2>1, <2>2, <2>3, <2>4, <2>5
    DEF BookingsInv, ReloadAlone, Calls, BookingsFirst, NoBookings
<1>12. ASSUME NEW c \in Call, Loaded(c) PROVE BookingsInv'
  <2>1. /\ UNCHANGED <<mounted, status, cancelling, told, refreshedBusy>>
        /\ bookingsLoading' = FALSE
        /\ \/ Answered(c, "bookings") /\ Take(c) /\ bookings' = wire[c].answer
           \/ Rejected(c, "bookings") /\ UNCHANGED bookings
    BY <1>12 DEF Loaded
  <2>2. /\ wire[c].op = "bookings" /\ wire'[c].op = "idle"
        /\ \A d \in Call \ {c} : wire'[d] = wire[d]
    BY <1>1, <2>1, TakeEffect, RejectedEffect DEF Answered, Writes
  <2>3. c \in Calls("bookings") /\ mounted /\ wire[c].heard
    BY <1>2, <2>2 DEF Calls
  <2>4. BookingMessages'
    BY <1>4, <2>1, <2>2 DEF BookingMessage
  <2>5. ASSUME ~refreshedBusy PROVE ReloadAlone'
    <3>1. Calls("bookings") = {c}
      BY <1>1, <1>2, <2>3, <2>5 DEF ReloadAlone, Calls
    <3>2. Calls("bookings")' = {}
      BY <2>2, <3>1 DEF Calls
    <3>3. QED
      BY <3>2 DEF ReloadAlone
  <2>6. BookingsTypeOK' /\ BookingRowsTrue'
    <3>1. CASE UNCHANGED bookings
      BY <1>1, <2>1, <3>1
    <3>2. CASE Answered(c, "bookings") /\ bookings' = wire[c].answer
      <4>1. /\ bookings' \in [Booking -> {"absent", "active", "cancelled"}]
            /\ \A b \in Booking : bookings'[b] = "cancelled" => status[b] = "cancelled"
        BY <1>1, <3>2 DEF BookingMessage, Answered
      <4>2. ~refreshedBusy => \A b \in told : bookings'[b] # "active"
        BY <1>1, <2>3, <3>2 DEF ReloadAlone, Answered
      <4>3. QED
        BY <1>1, <2>1, <4>1, <4>2
    <3>3. QED
      BY <2>1, <3>1, <3>2
  <2>7. QED
    BY <1>1, <1>3, <2>1, <2>3, <2>4, <2>5, <2>6
<1>13. ASSUME NEW c \in Call, Cancelled(c) PROVE BookingsInv'
  <2>1. /\ Answered(c, "cancel") /\ Take(c)
        /\ bookings' = [b \in Booking |->
             IF b = wire[c].arg /\ bookings[b] # "absent" THEN "cancelled" ELSE bookings[b]]
        /\ cancelling' = None /\ told' = told \cup {wire[c].arg}
        /\ UNCHANGED <<mounted, status, bookingsLoading, refreshedBusy>>
    BY <1>13 DEF Cancelled
  <2>2. /\ wire[c].op = "cancel" /\ wire[c].state = "answered" /\ wire[c].heard
        /\ wire[c].arg \in Booking /\ status[wire[c].arg] = "cancelled"
    BY <1>1, <2>1 DEF Answered, IsMessage, BookingMessage
  <2>3. /\ ~wire'[c].heard /\ wire'[c].op = "idle"
        /\ \A d \in Call \ {c} : wire'[d] = wire[d]
    BY <1>1, <2>1, TakeEffect
  <2>4. mounted
    BY <2>2 DEF ClientInv, Quiet
  <2>5. BookingMessages' /\ (~refreshedBusy' => ReloadAlone')
    BY <1>6, <2>1, <2>2, <2>3
  <2>6. BookingsTypeOK' /\ BookingRowsTrue'
    BY <1>1, <2>1, <2>2
  <2>7. QED
    BY <1>1, <1>3, <2>1, <2>2, <2>4, <2>5, <2>6
<1>14. ASSUME NEW c \in Call, CancelFailed(c) PROVE BookingsInv'
  <2>1. /\ Rejected(c, "cancel") /\ cancelling' = None
        /\ UNCHANGED <<mounted, status, bookings, bookingsLoading, told, refreshedBusy>>
    BY <1>14 DEF CancelFailed
  <2>2. /\ wire[c].op = "cancel" /\ wire[c].heard /\ ~wire'[c].heard
        /\ \/ wire'[c].op = "idle"
           \/ wire'[c].op = "cancel" /\ wire'[c].arg = wire[c].arg /\ wire'[c].state = "sent"
        /\ \A d \in Call \ {c} : wire'[d] = wire[d]
    BY <1>1, <2>1, RejectedEffect
  <2>3. mounted
    BY <2>2 DEF ClientInv, Quiet
  <2>4. BookingMessages' /\ (~refreshedBusy' => ReloadAlone')
    BY <1>6, <2>1, <2>2
  <2>5. BookingsTypeOK' /\ BookingRowsTrue'
    BY <1>1, <2>1
  <2>6. QED
    BY <1>1, <1>3, <2>1, <2>3, <2>4, <2>5
<1>15. ASSUME NEW c \in Call, ServeBookings(c) PROVE BookingsInv'
  <2>1. /\ Sent(c, "bookings")
        /\ UNCHANGED <<mounted, status, bookings, bookingsLoading, cancelling, told,
                       refreshedBusy>>
    BY <1>15 DEF ServeBookings, bookingVars
  <2>2. Reply(c, "answered", status)
    BY <1>15 DEF ServeBookings
  <2>3. wire[c].op = "bookings" /\ c \in Calls("bookings") /\ wire[c].heard /\ mounted
    BY <1>2, <2>1 DEF Sent, Calls
  <2>4. /\ wire'[c].op = "bookings" /\ wire'[c].state = "answered"
        /\ wire'[c].answer = status /\ wire'[c].heard = wire[c].heard
        /\ \A d \in Call \ {c} : wire'[d] = wire[d]
    BY <1>1, <2>2, <2>3, ReplyEffect
  <2>5. BookingMessages'
    BY <1>1, <1>4, <2>1, <2>4 DEF BookingMessage
  <2>6. ASSUME ~refreshedBusy PROVE ReloadAlone'
    <3>1. Calls("bookings")' = Calls("bookings")
      BY <2>3, <2>4 DEF Calls
    <3>2. \A d \in Call : wire'[d].heard = wire[d].heard
      BY <2>4
    <3>3. \A b \in told : status[b] # "active"
      BY <1>1
    <3>4. \A d \in Calls("bookings") : d = c
      BY <1>1, <1>2, <2>3, <2>6 DEF ReloadAlone, Calls
    <3>5. QED
      BY <1>1, <2>1, <2>4, <2>6, <3>1, <3>2, <3>3, <3>4 DEF ReloadAlone
  <2>7. BookingsTypeOK' /\ BookingRowsTrue'
    BY <1>1, <2>1
  <2>8. QED
    BY <1>1, <1>3, <2>1, <2>3, <2>5, <2>6, <2>7
<1>16. ASSUME NEW c \in Call, ServeCancel(c) PROVE BookingsInv'
  <2>1. /\ Sent(c, "cancel")
        /\ UNCHANGED <<mounted, bookings, bookingsLoading, cancelling, told, refreshedBusy>>
    BY <1>16 DEF ServeCancel, bookingView
  <2>2. wire[c].op = "cancel" /\ wire[c].arg \in Booking
    BY <1>1, <2>1 DEF Sent, BookingMessage
  <2>3. \/ /\ status' = [status EXCEPT ![wire[c].arg] = "cancelled"]
           /\ Reply(c, "answered", None)
        \/ status' = status /\ Reply(c, "refused", None)
    BY <1>16 DEF ServeCancel
  <2>4. /\ status' \in [Booking -> {"absent", "active", "cancelled"}]
        /\ \A b \in Booking : status[b] = "cancelled" => status'[b] = "cancelled"
    BY <1>1, <2>2, <2>3
  <2>5. /\ wire'[c].heard = wire[c].heard
        /\ wire'[c].op \in {"idle", "cancel"}
        /\ wire'[c].op = "cancel" =>
             /\ wire'[c].arg = wire[c].arg
             /\ wire'[c].state = "answered" => status'[wire[c].arg] = "cancelled"
        /\ \A d \in Call \ {c} : wire'[d] = wire[d]
    <3>1. CASE Reply(c, "refused", None)
      BY <1>1, <2>2, <3>1, ReplyEffect
    <3>2. CASE /\ status' = [status EXCEPT ![wire[c].arg] = "cancelled"]
               /\ Reply(c, "answered", None)
      <4>1. status'[wire[c].arg] = "cancelled"
        BY <1>1, <2>2, <3>2
      <4>2. QED
        BY <1>1, <2>2, <3>2, <4>1, ReplyEffect
    <3>3. QED
      BY <2>3, <3>1, <3>2
  <2>6. BookingMessages'
    BY <1>4, <2>2, <2>4, <2>5 DEF BookingMessage
  <2>7. ASSUME ~refreshedBusy PROVE ReloadAlone'
    <3>1. Calls("bookings")' = Calls("bookings")
      BY <2>2, <2>5 DEF Calls
    <3>2. \A d \in Call : wire'[d].heard = wire[d].heard
      BY <2>5
    <3>3. \A d \in Calls("bookings") : wire'[d] = wire[d]
      BY <2>2, <2>5 DEF Calls
    <3>4. QED
      BY <1>1, <2>1, <2>7, <3>1, <3>2, <3>3 DEF ReloadAlone
  <2>8. BookingsTypeOK' /\ BookingRowsTrue' /\ told \subseteq Booking
    BY <1>1, <2>1, <2>4
  <2>9. QED
    BY <1>1, <2>1, <2>4, <2>6, <2>7, <2>8
    DEF BookingsInv, BookingsFirst, NoBookings
<1>17. QED
    BY <1>7, <1>8, <1>9, <1>9, <1>10, <1>11, <1>12, <1>13, <1>14, <1>15, <1>16
    DEF BookingsNext, BookingsAnswer, BookingsServe

LEMMA BookingsInvNext ==
    ASSUME ClientInv, BookingsInv, [Next]_vars
    PROVE  BookingsInv'
<1>1. CASE BookingsNext /\ Others("my-bookings")
    BY <1>1, BookingsInvStep
<1>2. CASE ~(BookingsNext /\ Others("my-bookings"))
  <2>1. UNCHANGED <<bookingVars, page>>
    BY <1>2 DEF BookingsInv, Next, Others, vars
  <2>2. page # "my-bookings" \/ UNCHANGED <<wire, mounted>>
    BY <1>2 DEF Next, Others, vars, clientVars
  <2>3. BookingsTypeOK' /\ BookingRowsTrue' /\ (BookingsFirst => BookingsFirst')
    BY <2>1 DEF BookingsInv, bookingVars, BookingsTypeOK, BookingRowsTrue, NoBookings,
                ShownCancelledIsCancelled, CancelledStaysShown, BookingsFirst
  <2>4. QED
    BY <2>1, <2>2, <2>3
    DEF BookingsInv, bookingVars, BookingMessages, BookingMessage, ReloadAlone, Calls
<1>3. QED
    BY <1>1, <1>2

(* No row of the page "My Pre-Bookings" is shown cancelled that is still   *)
(* active, for any number of pre-bookings and of requests under way        *)
(* (MyBookings.jsx handleCancel, fetchBookings).                           *)
THEOREM ShownCancelledCorrect == Spec => []ShownCancelledIsCancelled
<1>1. Init => ClientInv /\ BookingsInv
    BY WireInit, BookingsInvInit
<1>2. ClientInv /\ BookingsInv /\ [Next]_vars => (ClientInv /\ BookingsInv)'
    BY ClientNext, BookingsInvNext
<1>3. BookingsInv => ShownCancelledIsCancelled
    BY DEF BookingsInv, BookingRowsTrue
<1>4. QED
    BY <1>1, <1>2, <1>3, PTL DEF Spec

-----------------------------------------------------------------------------
(* My Wallet *)

(* Nothing, or what was read of a ledger that had come to n *)
ReadUpTo(a, n) == a = None \/ (a \in Nat /\ a <= n)

WalletInv ==
    /\ ClientInv
    /\ ledger \in Nat
    /\ ReadUpTo(balance, ledger)
    /\ transactions \in Nat /\ transactions <= ledger
    /\ page = "wallet" => \A c \in Call : wire[c].op \in {"idle", "wallet", "topup"}
    /\ page = "wallet" =>
         \A c \in Call : wire[c].op = "wallet" =>
            /\ DOMAIN wire[c].answer = Reads
            /\ \A r \in Reads : ReadUpTo(wire[c].answer[r], ledger)
    /\ page = "wallet" =>
         \A c \in Call : wire[c].op = "topup" /\ wire[c].state = "answered" =>
            /\ wire[c].answer.new_balance \in Nat
            /\ wire[c].answer.new_balance <= ledger

LEMMA WalletInvInit ==
    ASSUME Init
    PROVE  WalletInv
<1>1. ClientInv /\ \A c \in Call : wire[c].op = "idle" /\ wire[c].state = "free"
    BY WireInit, IdleIsMessage
<1>2. ledger = 0 /\ balance = None /\ transactions = 0
    BY DEF Init, WalletInit
<1>3. QED
    BY <1>1, <1>2 DEF WalletInv, ReadUpTo

LEMMA WalletInvStep ==
    ASSUME WalletInv, WalletNext, Others("wallet")
    PROVE  WalletInv'
<1>1. /\ page = "wallet" /\ page' = "wallet"
      /\ ClientInv' /\ WireOK /\ WireOK'
    BY WalletClient DEF WalletInv, ClientInv, Others
<1> DEFINE Typed(m) == m.op \in {"idle", "wallet", "topup"}
           Brings(m) == m.op = "wallet" =>
                           /\ DOMAIN m.answer = Reads
                           /\ \A r \in Reads : ReadUpTo(m.answer[r], ledger)
           Credits(m) == m.op = "topup" /\ m.state = "answered" =>
                            m.answer.new_balance \in Nat /\ m.answer.new_balance <= ledger
           Brings1(m) == m.op = "wallet" =>
                           /\ DOMAIN m.answer = Reads
                           /\ \A r \in Reads : ReadUpTo(m.answer[r], ledger')
           Credits1(m) == m.op = "topup" /\ m.state = "answered" =>
                            m.answer.new_balance \in Nat /\ m.answer.new_balance <= ledger'
<1>2. /\ ledger \in Nat /\ ReadUpTo(balance, ledger)
      /\ transactions \in Nat /\ transactions <= ledger
      /\ \A c \in Call : Typed(wire[c]) /\ Brings(wire[c]) /\ Credits(wire[c])
    BY <1>1 DEF WalletInv
<1> DEFINE Rest == /\ ledger' \in Nat /\ ReadUpTo(balance', ledger')
                   /\ transactions' \in Nat /\ transactions' <= ledger'
           Wires == \A c \in Call : Typed(wire'[c]) /\ Brings1(wire'[c]) /\ Credits1(wire'[c])
<1>3. SUFFICES Rest /\ Wires
    BY <1>1 DEF WalletInv, ReadUpTo
<1>4. ASSUME ledger' = ledger
      PROVE  \A c \in Call : Typed(wire[c]) /\ Brings1(wire[c]) /\ Credits1(wire[c])
    BY <1>2, <1>4 DEF ReadUpTo
<1>5. ASSUME OpenWallet PROVE Rest /\ Wires
  <2>1. /\ UNCHANGED walletVars /\ Room /\ SendAll(Fresh, "wallet", Reads)
    BY <1>5 DEF OpenWallet
  <2>2. /\ Fresh \in Call /\ wire'[Fresh] = Requests("wallet", Reads)
        /\ \A d \in Call \ {Fresh} : wire'[d] = wire[d]
    BY <1>1, <2>1, SendAllFreshEffect
  <2>3. Typed(wire'[Fresh]) /\ Brings1(wire'[Fresh]) /\ Credits1(wire'[Fresh])
    BY <2>2 DEF Requests, ReadUpTo
  <2>4. QED
    BY <1>2, <1>4, <2>1, <2>2, <2>3 DEF walletVars, ReadUpTo
<1>6. ASSUME LeaveWallet PROVE Rest /\ Wires
  <2>1. ledger' = ledger /\ balance' = None /\ transactions' = 0 /\ Unmount
    BY <1>6 DEF LeaveWallet
  <2>2. \A c \in Call : \/ wire'[c].op = "idle"
                        \/ wire[c].op \in Writes /\ wire'[c].op = wire[c].op
                           /\ wire'[c].state = "sent"
    BY <1>1, <2>1, UnmountEffect
  <2>3. Wires
    BY <1>2, <2>2 DEF Writes
  <2>4. Rest
    BY <1>2, <2>1 DEF ReadUpTo
  <2>5. QED
    BY <2>3, <2>4
<1>7. ASSUME NEW amount \in Amount, handleTopUp(amount) PROVE Rest /\ Wires
  <2>1. /\ UNCHANGED <<ledger, balance, transactions>> /\ Send("topup", None)
    BY <1>7 DEF handleTopUp
  <2>2. /\ Fresh \in Call /\ wire'[Fresh] = Request("topup", None)
        /\ \A d \in Call \ {Fresh} : wire'[d] = wire[d]
    BY <1>1, <2>1, SendEffect
  <2>3. Typed(wire'[Fresh]) /\ Brings1(wire'[Fresh]) /\ Credits1(wire'[Fresh])
    BY <2>2 DEF Request
  <2>4. QED
    BY <1>2, <1>4, <2>1, <2>2, <2>3 DEF ReadUpTo
<1>8. ASSUME BookedByOthers PROVE Rest /\ Wires
  <2>1. ledger' = ledger + 1 /\ UNCHANGED <<wire, balance, transactions>>
    BY <1>8 DEF BookedByOthers, walletView
  <2>2. Wires
    BY <1>2, <2>1 DEF ReadUpTo
  <2>3. Rest
    BY <1>2, <2>1 DEF ReadUpTo
  <2>4. QED
    BY <2>2, <2>3
<1>9. ASSUME NEW c \in Call, fetchData(c) PROVE Rest /\ Wires
  <2>1. /\ wire[c].op = "wallet" /\ ledger' = ledger
        /\ balance' = Brought(c, "balance", balance)
        /\ transactions' = Brought(c, "transactions", transactions)
        /\ Take(c)
    BY <1>9 DEF fetchData, Settled
  <2>2. wire'[c].op = "idle" /\ \A d \in Call \ {c} : wire'[d] = wire[d]
    BY <1>1, <2>1, TakeEffect
  <2>3. /\ ReadUpTo(wire[c].answer["balance"], ledger)
        /\ ReadUpTo(wire[c].answer["transactions"], ledger)
    BY <1>2, <2>1 DEF Reads
  <2>4. Rest
    BY <1>2, <2>1, <2>3 DEF ReadUpTo, Brought
  <2>5. Wires
    BY <1>2, <1>4, <2>1, <2>2
  <2>6. QED
    BY <2>4, <2>5
<1>10. ASSUME NEW c \in Call, ToppedUp(c) PROVE Rest /\ Wires
  <2>1. /\ wire[c].op = "topup" /\ wire[c].state = "answered"
        /\ UNCHANGED <<ledger, transactions>>
        /\ balance' = wire[c].answer.new_balance
        /\ SendAll(c, "wallet", Reads)
    BY <1>10 DEF ToppedUp, Answered
  <2>2. /\ wire'[c] = Requests("wallet", Reads)
        /\ \A d \in Call \ {c} : wire'[d] = wire[d]
    BY <1>1, <2>1, SendAllEffect
  <2>3. Typed(wire'[c]) /\ Brings1(wire'[c]) /\ Credits1(wire'[c])
    BY <2>2 DEF Requests, ReadUpTo
  <2>4. Rest
    BY <1>2, <2>1 DEF ReadUpTo
  <2>5. Wires
    BY <1>4, <2>1, <2>2, <2>3
  <2>6. QED
    BY <2>4, <2>5
<1>11. ASSUME NEW c \in Call, TopUpFailed(c) PROVE Rest /\ Wires
  <2>1. UNCHANGED <<ledger, balance, transactions>> /\ Rejected(c, "topup")
    BY <1>11 DEF TopUpFailed
  <2>2. /\ \A d \in Call \ {c} : wire'[d] = wire[d]
        /\ \/ wire'[c].op = "idle"
           \/ wire'[c].op = "topup" /\ wire'[c].state = "sent"
    BY <1>1, <2>1, RejectedEffect
  <2>3. QED
    BY <1>2, <1>4, <2>1, <2>2 DEF ReadUpTo
<1>12. ASSUME NEW c \in Call, ServeTopUp(c) PROVE Rest /\ Wires
  <2>1. /\ wire[c].op = "topup" /\ ledger' = ledger + 1
        /\ UNCHANGED <<balance, transactions>>
        /\ Reply(c, "answered", [new_balance |-> ledger + 1])
    BY <1>12 DEF ServeTopUp, Sent, walletView
  <2>2. /\ \A d \in Call \ {c} : wire'[d] = wire[d]
        /\ \/ wire'[c].op = "idle"
           \/ wire'[c].op = "topup" /\ wire'[c].answer = [new_balance |-> ledger + 1]
    BY <1>1, <2>1, ReplyEffect
  <2>3. Rest
    BY <1>2, <2>1 DEF ReadUpTo
  <2>4. \A d \in Call : Typed(wire[d]) /\ Brings1(wire[d]) /\ Credits1(wire[d])
    BY <1>2, <2>1 DEF ReadUpTo
  <2>5. Typed(wire'[c]) /\ Brings1(wire'[c]) /\ Credits1(wire'[c])
    BY <1>2, <2>1, <2>2
  <2>6. QED
    BY <2>2, <2>3, <2>4, <2>5
<1>13. ASSUME NEW c \in Call, NEW r \in Reads, ServeRead(c, r) PROVE Rest /\ Wires
  <2>1. UNCHANGED walletVars
    BY <1>13 DEF ServeRead
  <2>2. Fulfil(c, "wallet", r, ledger)
    BY <1>13 DEF ServeRead
  <2>3. /\ wire[c].op = "wallet" /\ wire'[c].op = "wallet"
        /\ DOMAIN wire'[c].answer = DOMAIN wire[c].answer
        /\ \A q \in DOMAIN wire[c].answer :
              wire'[c].answer[q] = IF q = r THEN ledger ELSE wire[c].answer[q]
        /\ \A d \in Call \ {c} : wire'[d] = wire[d]
    BY <1>1, <2>2, FulfilEffect
  <2>4. /\ DOMAIN wire'[c].answer = Reads
        /\ \A p \in Reads : ReadUpTo(wire'[c].answer[p], ledger)
    BY <1>2, <2>3 DEF ReadUpTo
  <2>5. Rest
    BY <1>2, <2>1 DEF ReadUpTo, walletVars
  <2>6. Wires
    BY <1>4, <2>1, <2>3, <2>4 DEF walletVars, ReadUpTo
  <2>7. QED
    BY <2>5, <2>6
<1>14. ASSUME NEW c \in Call, NEW r \in Reads, FailRead(c, r) PROVE Rest /\ Wires
  <2>1. UNCHANGED <<ledger, balance, transactions>> /\ Drop(c, "wallet", r)
    BY <1>14 DEF FailRead
  <2>2. /\ wire'[c].op = wire[c].op /\ wire'[c].answer = wire[c].answer
        /\ wire'[c].state = wire[c].state
        /\ \A d \in Call \ {c} : wire'[d] = wire[d]
    BY <1>1, <2>1, DropEffect
  <2>3. QED
    BY <1>2, <1>4, <2>1, <2>2 DEF ReadUpTo
<1>15. QED
    BY <1>5, <1>6, <1>7, <1>8, <1>9, <1>10, <1>11, <1>12, <1>13, <1>14
    DEF WalletNext, WalletAnswer, WalletServe

LEMMA WalletInvNext ==
    ASSUME WalletInv, [Next]_vars
    PROVE  WalletInv'
<1>1. CASE WalletNext /\ Others("wallet")
    BY <1>1, WalletInvStep
<1>2. CASE ~(WalletNext /\ Others("wallet"))
  <2>1. ClientInv' /\ UNCHANGED <<walletVars, page>>
    BY <1>2, ClientNext DEF WalletInv, Next, Others, vars
  <2>2. page # "wallet" \/ UNCHANGED wire
    BY <1>2 DEF Next, Others, vars, clientVars
  <2>3. QED
    BY <2>1, <2>2 DEF WalletInv, walletVars, ReadUpTo
<1>3. QED
    BY <1>1, <1>2

(* What is left of the page's own top-ups: a load under way when a top-up  *)
(* is clicked is a mixed one, so that otherwise the only load under way    *)
(* after a top-up left after its answer and brings at least that top-up.   *)
LoadComplete(m) ==
    m.op = "wallet" =>
       /\ m.open \subseteq Reads
       /\ ~failedRead => \A r \in Reads \ m.open : m.answer[r] # None

WalletFirst ==
    /\ balance = None /\ transactions = 0 /\ credited = 0
    /\ ~topping /\ ~mixedLoads /\ ~failedRead

TopUps == {c \in Call : wire[c].op = "topup" /\ wire[c].heard}

InclCredit(m) ==
    m.op = "wallet" => \A r \in Reads : m.answer[r] = None \/ m.answer[r] >= credited

CreditKept ==
    /\ \A c, d \in Calls("wallet") : c = d
    /\ TopUps = {} \/ Calls("wallet") = {}
    /\ \A c \in Call : InclCredit(wire[c])
    /\ credited > 0 => balance # None /\ balance >= credited
    /\ credited > 0 /\ Calls("wallet") = {} /\ ~failedRead => transactions >= credited

TopUpInv ==
    /\ {topping, mixedLoads, failedRead} \subseteq BOOLEAN
    /\ credited \in Nat /\ credited <= ledger
    /\ page # "wallet" \/ ~mounted => WalletFirst
    /\ page = "wallet" =>
         /\ \A c \in Call : LoadComplete(wire[c])
         /\ \A c, d \in TopUps : c = d
         /\ TopUps # {} => topping
         /\ ~mixedLoads => CreditKept

LEMMA TopUpInvInit ==
    ASSUME Init
    PROVE  TopUpInv
<1>1. \A c \in Call : wire[c].op = "idle"
    BY WireInit, IdleIsMessage
<1>2. /\ ledger = 0 /\ balance = None /\ transactions = 0 /\ topping = FALSE /\ credited = 0
      /\ mixedLoads = FALSE /\ failedRead = FALSE
    BY DEF Init, WalletInit
<1>3. WalletFirst /\ {topping, mixedLoads, failedRead} \subseteq BOOLEAN
    BY <1>2 DEF WalletFirst
<1>4. TopUps = {} /\ Calls("wallet") = {}
    BY <1>1 DEF TopUps, Calls
<1>5. CreditKept /\ \A c \in Call : LoadComplete(wire[c])
    BY <1>1, <1>2, <1>4 DEF CreditKept, LoadComplete, InclCredit
<1>6. QED
    BY <1>2, <1>3, <1>4, <1>5 DEF TopUpInv

LEMMA TopUpInvStep ==
    ASSUME WalletInv, WalletInv', TopUpInv, WalletNext, Others("wallet")
    PROVE  TopUpInv'
<1>1. /\ page = "wallet" /\ page' = page /\ WireOK /\ ledger \in Nat /\ None \notin Nat
      /\ \A c \in Call : wire[c].op \in {"idle", "wallet", "topup"}
      /\ \A c \in Call : wire[c].op = "wallet" =>
            /\ wire[c].heard
            /\ DOMAIN wire[c].answer = Reads
            /\ \A r \in Reads : ReadUpTo(wire[c].answer[r], ledger)
      /\ \A c \in Call : wire[c].op = "topup" /\ wire[c].state = "answered" =>
            /\ wire[c].heard
            /\ wire[c].answer.new_balance \in Nat
            /\ wire[c].answer.new_balance <= ledger
      /\ ~mounted => Quiet
    BY WalletAssumption DEF WalletInv, Others, ClientInv, WireOK, IsMessage, Writes
<1>2. /\ {topping, mixedLoads, failedRead} \subseteq BOOLEAN
      /\ credited \in Nat /\ credited <= ledger
      /\ ~mounted => WalletFirst
      /\ \A c \in Call : LoadComplete(wire[c])
      /\ \A c, d \in TopUps : c = d
      /\ TopUps # {} => topping
      /\ ~mixedLoads => CreditKept
    BY <1>1 DEF TopUpInv
<1>3. ledger' \in Nat /\ page' = "wallet"
    BY <1>1 DEF WalletInv
<1> DEFINE Loads == \A c \in Call : LoadComplete(wire[c])
           One == (\A c, d \in TopUps : c = d) /\ (TopUps # {} => topping)
           Types == /\ {topping, mixedLoads, failedRead} \subseteq BOOLEAN
                    /\ credited \in Nat /\ credited <= ledger
<1>4. ASSUME Types', Loads', One', ~mounted' => WalletFirst', ~mixedLoads' => CreditKept'
      PROVE  TopUpInv'
    BY <1>1, <1>4 DEF TopUpInv
<1>5. CASE OpenWallet
  <2>1. /\ ~mounted /\ mounted' /\ UNCHANGED walletVars /\ Room
        /\ SendAll(Fresh, "wallet", Reads)
    BY <1>5 DEF OpenWallet
  <2>2. /\ Fresh \in Call /\ wire'[Fresh] = Requests("wallet", Reads)
        /\ \A d \in Call \ {Fresh} : wire'[d] = wire[d]
    BY <1>1, <2>1, SendAllFreshEffect
  <2>3. /\ wire'[Fresh].op = "wallet" /\ wire'[Fresh].open = Reads
        /\ \A r \in Reads : wire'[Fresh].answer[r] = None
    BY <2>2 DEF Requests
  <2>4. \A d \in Call : ~wire[d].heard
    BY <1>1, <2>1 DEF Quiet
  <2>5. TopUps' = {} /\ Calls("wallet")' = {Fresh}
    BY <1>1, <2>2, <2>3, <2>4 DEF TopUps, Calls
  <2>6. Types' /\ credited' = 0
    BY <1>2, <2>1 DEF walletVars, WalletFirst
  <2>7. Loads' /\ One'
    BY <1>1, <2>2, <2>3, <2>4, <2>5 DEF LoadComplete
  <2>8. CreditKept'
    <3>1. \A d \in Call : InclCredit(wire[d])'
      BY <1>1, <2>2, <2>3, <2>4 DEF InclCredit
    <3>2. QED
      BY <2>5, <2>6, <3>1 DEF CreditKept
  <2>9. QED
    BY <1>4, <2>1, <2>6, <2>7, <2>8
<1>6. CASE LeaveWallet
  <2>1. /\ Unmount /\ balance' = None /\ transactions' = 0 /\ topping' = FALSE
        /\ credited' = 0 /\ mixedLoads' = FALSE /\ failedRead' = FALSE
    BY <1>6 DEF LeaveWallet
  <2>2. \A c \in Call : ~wire'[c].heard /\ wire'[c].op # "wallet"
    BY <1>1, <2>1, UnmountEffect DEF Writes
  <2>3. TopUps' = {} /\ Calls("wallet")' = {}
    BY <2>2 DEF TopUps, Calls
  <2>4. WalletFirst' /\ Types'
    <3>1. /\ {topping', mixedLoads', failedRead'} \subseteq BOOLEAN
          /\ ~topping' /\ ~mixedLoads' /\ ~failedRead'
      BY <2>1
    <3>2. credited' \in Nat /\ credited' <= ledger'
      BY <1>3, <2>1
    <3>3. QED
      BY <2>1, <3>1, <3>2 DEF WalletFirst
  <2>5. CreditKept' /\ Loads' /\ One'
    BY <2>1, <2>2, <2>3 DEF CreditKept, InclCredit, LoadComplete
  <2>6. QED
    BY <1>4, <2>4, <2>5
<1>7. CASE BookedByOthers
  <2>1. ledger' = ledger + 1 /\ UNCHANGED <<wire, mounted, balance, transactions, topping, credited,
                                             mixedLoads, failedRead>>
    BY <1>7 DEF BookedByOthers, walletView
  <2>2. Types' /\ Loads' /\ One' /\ (WalletFirst => WalletFirst') /\ (CreditKept => CreditKept')
    BY <1>1, <1>2, <2>1
    DEF LoadComplete, TopUps, WalletFirst, CreditKept, Calls, InclCredit
  <2>3. QED
    BY <1>2, <1>4, <2>1, <2>2
<1>8. ASSUME NEW amount \in Amount, handleTopUp(amount) PROVE TopUpInv'
  <2>1. /\ mounted /\ mounted' = mounted /\ ~topping /\ topping' = TRUE
        /\ UNCHANGED <<ledger, balance, transactions, credited, failedRead>>
        /\ mixedLoads' = (mixedLoads \/ Awaits("wallet"))
    BY <1>8 DEF handleTopUp, TopUpOffered
  <2>2. Send("topup", None)
    BY <1>8 DEF handleTopUp
  <2>3. /\ Fresh \in Call /\ wire[Fresh].op = "idle" /\ wire'[Fresh].op = "topup"
        /\ \A d \in Call \ {Fresh} : wire'[d] = wire[d]
    BY <1>1, <2>2, SendEffect
  <2>4. TopUps = {}
    BY <1>2, <2>1
  <2>5. TopUps' \subseteq {Fresh} /\ Calls("wallet")' = Calls("wallet")
    BY <2>3, <2>4 DEF TopUps, Calls
  <2>6. {mixedLoads'} \subseteq BOOLEAN /\ (~mixedLoads' => ~mixedLoads /\ Calls("wallet") = {})
    <3>1. {mixedLoads'} \subseteq BOOLEAN
      BY <2>1
    <3>2. ~mixedLoads' => ~mixedLoads /\ ~Awaits("wallet")
      <4>1. mixedLoads \in BOOLEAN
        BY <1>2
      <4>2. QED
        BY <2>1, <4>1 DEF Awaits
    <3>3. QED
      BY <1>1, <3>1, <3>2 DEF Awaits, Calls
  <2>7. Types'
    BY <1>2, <2>1, <2>6
  <2>8. One' /\ Loads'
    BY <1>2, <2>1, <2>3, <2>5 DEF LoadComplete
  <2>9. ASSUME ~mixedLoads' PROVE CreditKept'
    <3>1. /\ Calls("wallet") = {} /\ CreditKept
      BY <1>2, <2>6, <2>9
    <3>2. \A d \in Call : InclCredit(wire[d])'
      BY <2>5, <3>1 DEF Calls, InclCredit
    <3>3. QED
      BY <2>1, <2>5, <3>1, <3>2 DEF CreditKept
  <2>10. QED
    BY <1>4, <2>1, <2>7, <2>8, <2>9
<1>9. ASSUME NEW c \in Call, fetchData(c) PROVE TopUpInv'
  <2>1. /\ wire[c].op = "wallet" /\ wire[c].open = {} /\ Take(c)
        /\ balance' = Brought(c, "balance", balance)
        /\ transactions' = Brought(c, "transactions", transactions)
        /\ UNCHANGED <<mounted, ledger, topping, credited, mixedLoads, failedRead>>
    BY <1>9 DEF fetchData, Settled
  <2>2. /\ wire'[c].op = "idle" /\ ~wire'[c].heard /\ \A d \in Call \ {c} : wire'[d] = wire[d]
    BY <1>1, <2>1, TakeEffect
  <2>3. mounted
    BY <1>1, <2>1 DEF Quiet
  <2>4. TopUps' = TopUps /\ Calls("wallet")' = Calls("wallet") \ {c}
    BY <2>1, <2>2 DEF TopUps, Calls
  <2>5. Types' /\ One' /\ Loads'
    BY <1>2, <2>1, <2>2, <2>4 DEF LoadComplete
  <2>6. ASSUME ~mixedLoads PROVE CreditKept'
    <3>1. CreditKept
      BY <1>2, <2>6
    <3>2. \A r \in Reads : wire[c].answer[r] = None \/ wire[c].answer[r] >= credited
      BY <2>1, <3>1 DEF CreditKept, InclCredit
    <3>3. credited > 0 => balance' # None /\ balance' >= credited
      BY <2>1, <3>1, <3>2 DEF CreditKept, Brought, Reads
    <3>4. ~failedRead => transactions' >= credited
      <4>1. ~failedRead => wire[c].answer["transactions"] # None
        BY <1>2, <2>1 DEF LoadComplete, Reads
      <4>2. QED
        BY <2>1, <3>2, <4>1 DEF Brought, Reads
    <3>5. \A d \in Call : InclCredit(wire[d])'
      BY <2>1, <2>2, <3>1 DEF CreditKept, InclCredit
    <3>6. QED
      BY <2>1, <2>4, <3>1, <3>3, <3>4, <3>5 DEF CreditKept
  <2>7. QED
    BY <1>4, <2>1, <2>3, <2>5, <2>6
<1>10. ASSUME NEW c \in Call, ToppedUp(c) PROVE TopUpInv'
  <2>1. /\ wire[c].op = "topup" /\ wire[c].state = "answered"
        /\ balance' = wire[c].answer.new_balance /\ credited' = wire[c].answer.new_balance
        /\ topping' = FALSE /\ UNCHANGED <<mounted, ledger, transactions, mixedLoads, failedRead>>
    BY <1>10 DEF ToppedUp, Answered
  <2>2. SendAll(c, "wallet", Reads)
    BY <1>10 DEF ToppedUp
  <2>3. /\ wire'[c] = Requests("wallet", Reads)
        /\ \A d \in Call \ {c} : wire'[d] = wire[d]
    BY <1>1, <2>2, SendAllEffect
  <2>4. /\ wire'[c].op = "wallet" /\ wire'[c].open = Reads
        /\ \A r \in Reads : wire'[c].answer[r] = None
    BY <2>3 DEF Requests
  <2>5. c \in TopUps /\ mounted
    BY <1>1, <2>1 DEF TopUps, Quiet
  <2>6. TopUps' = {} /\ Calls("wallet")' = Calls("wallet") \cup {c}
    BY <1>2, <2>3, <2>4, <2>5 DEF TopUps, Calls
  <2>7. Types' /\ One' /\ Loads'
    <3>1. {topping', mixedLoads', failedRead'} \subseteq BOOLEAN
      BY <1>2, <2>1
    <3>2. credited' \in Nat /\ credited' <= ledger'
      BY <1>1, <2>1
    <3>3. LoadComplete(wire[c])'
      BY <2>4 DEF LoadComplete
    <3>4. \A d \in Call \ {c} : LoadComplete(wire[d])'
      BY <1>2, <2>1, <2>3 DEF LoadComplete
    <3>5. QED
      BY <2>6, <3>1, <3>2, <3>3, <3>4
  <2>8. ASSUME ~mixedLoads PROVE CreditKept'
    <3>1. Calls("wallet") = {}
      BY <1>2, <2>5, <2>8 DEF CreditKept
    <3>2. \A d \in Call : InclCredit(wire[d])'
      BY <2>3, <2>4, <3>1 DEF Calls, InclCredit
    <3>3. balance' # None /\ balance' >= credited'
      BY <1>1, <2>1
    <3>4. QED
      BY <2>6, <3>1, <3>2, <3>3 DEF CreditKept
  <2>9. QED
    BY <1>4, <2>1, <2>5, <2>7, <2>8
<1>11. ASSUME NEW c \in Call, TopUpFailed(c) PROVE TopUpInv'
  <2>1. /\ Rejected(c, "topup") /\ topping' = FALSE
        /\ UNCHANGED <<mounted, ledger, balance, transactions, credited, mixedLoads, failedRead>>
    BY <1>11 DEF TopUpFailed
  <2>2. /\ wire[c].op = "topup" /\ wire[c].heard /\ ~wire'[c].heard
        /\ wire'[c].op \in {"idle", "topup"}
        /\ \A d \in Call \ {c} : wire'[d] = wire[d]
    BY <1>1, <2>1, RejectedEffect
  <2>3. c \in TopUps /\ mounted
    BY <1>1, <2>2 DEF TopUps, Quiet
  <2>4. TopUps' = {} /\ Calls("wallet")' = Calls("wallet")
    BY <1>2, <2>2, <2>3 DEF TopUps, Calls
  <2>5. Types' /\ One' /\ Loads'
    BY <1>2, <2>1, <2>2, <2>4 DEF LoadComplete
  <2>6. ASSUME ~mixedLoads PROVE CreditKept'
    <3>1. CreditKept
      BY <1>2, <2>6
    <3>2. \A d \in Call : InclCredit(wire[d])'
      BY <2>1, <2>2, <3>1 DEF CreditKept, InclCredit
    <3>3. QED
      BY <2>1, <2>4, <3>1, <3>2 DEF CreditKept
  <2>7. QED
    BY <1>4, <2>1, <2>3, <2>5, <2>6
<1>12. ASSUME NEW c \in Call, ServeTopUp(c) PROVE TopUpInv'
  <2>1. /\ wire[c].op = "topup" /\ ledger' = ledger + 1
        /\ UNCHANGED <<mounted, balance, transactions, topping, credited, mixedLoads, failedRead>>
    BY <1>12 DEF ServeTopUp, Sent, walletView
  <2>2. Reply(c, "answered", [new_balance |-> ledger + 1])
    BY <1>12 DEF ServeTopUp
  <2>3. /\ wire'[c].heard = wire[c].heard /\ wire'[c].op \in {"idle", "topup"}
        /\ wire[c].heard => wire'[c].op = "topup"
        /\ \A d \in Call \ {c} : wire'[d] = wire[d]
    BY <1>1, <2>1, <2>2, ReplyEffect
  <2>4. TopUps' = TopUps /\ Calls("wallet")' = Calls("wallet")
    BY <2>1, <2>3 DEF TopUps, Calls
  <2>5. Types' /\ One' /\ Loads'
    BY <1>1, <1>2, <2>1, <2>3, <2>4 DEF LoadComplete
  <2>6. ASSUME ~mixedLoads PROVE CreditKept'
    <3>1. CreditKept
      BY <1>2, <2>6
    <3>2. \A d \in Call : InclCredit(wire[d])'
      BY <2>1, <2>3, <3>1 DEF CreditKept, InclCredit
    <3>3. QED
      BY <2>1, <2>4, <3>1, <3>2 DEF CreditKept
  <2>7. WalletFirst => WalletFirst'
    BY <2>1 DEF WalletFirst
  <2>8. QED
    BY <1>2, <1>4, <2>1, <2>5, <2>6, <2>7
<1>13. ASSUME NEW c \in Call, NEW r \in Reads, ServeRead(c, r) PROVE TopUpInv'
  <2>1. UNCHANGED <<mounted, ledger, balance, transactions, topping, credited, mixedLoads, failedRead>>
    BY <1>13 DEF ServeRead, walletVars
  <2>2. Fulfil(c, "wallet", r, ledger)
    BY <1>13 DEF ServeRead
  <2>3. /\ wire[c].op = "wallet" /\ wire'[c].op = "wallet" /\ wire'[c].heard = wire[c].heard
        /\ wire'[c].open = wire[c].open \ {r}
        /\ \A q \in DOMAIN wire[c].answer :
              wire'[c].answer[q] = IF q = r THEN ledger ELSE wire[c].answer[q]
        /\ \A d \in Call \ {c} : wire'[d] = wire[d]
    BY <1>1, <2>2, FulfilEffect
  <2>4. /\ wire'[c].answer[r] = ledger
        /\ \A p \in Reads \ {r} : wire'[c].answer[p] = wire[c].answer[p]
    BY <1>1, <2>3
  <2>5. mounted
    BY <1>1, <2>3 DEF Quiet
  <2>6. TopUps' = TopUps /\ Calls("wallet")' = Calls("wallet")
    BY <2>3 DEF TopUps, Calls
  <2>7. LoadComplete(wire[c])'
    BY <1>1, <1>2, <2>1, <2>3, <2>4 DEF LoadComplete
  <2>8. Types' /\ One' /\ Loads'
    <3>1. Types' /\ One'
      BY <1>2, <2>1, <2>6
    <3>2. \A d \in Call \ {c} : LoadComplete(wire[d])'
      BY <1>2, <2>1, <2>3 DEF LoadComplete
    <3>3. QED
      BY <2>7, <3>1, <3>2
  <2>9. ASSUME ~mixedLoads PROVE CreditKept'
    <3>1. CreditKept
      BY <1>2, <2>9
    <3>2. InclCredit(wire[c])'
      <4>1. credited <= ledger /\ \A p \in Reads : wire[c].answer[p] = None \/ wire[c].answer[p] >= credited
        BY <1>2, <2>3, <3>1 DEF CreditKept, InclCredit
      <4>2. \A p \in Reads : wire'[c].answer[p] = None \/ wire'[c].answer[p] >= credited
        BY <1>1, <1>2, <2>4, <4>1
      <4>3. QED
        BY <2>1, <4>2 DEF InclCredit
    <3>3. \A d \in Call : InclCredit(wire[d])'
      BY <2>1, <2>3, <3>1, <3>2 DEF CreditKept, InclCredit
    <3>4. QED
      BY <2>1, <2>6, <3>1, <3>3 DEF CreditKept
  <2>10. QED
    BY <1>4, <2>1, <2>5, <2>8, <2>9
<1>14. ASSUME NEW c \in Call, NEW r \in Reads, FailRead(c, r) PROVE TopUpInv'
  <2>1. /\ failedRead' = TRUE
        /\ UNCHANGED <<mounted, ledger, balance, transactions, topping, credited, mixedLoads>>
    BY <1>14 DEF FailRead
  <2>2. Drop(c, "wallet", r)
    BY <1>14 DEF FailRead
  <2>3. /\ wire[c].op = "wallet" /\ wire'[c].op = "wallet" /\ wire'[c].heard = wire[c].heard
        /\ wire'[c].open = wire[c].open \ {r} /\ wire'[c].answer = wire[c].answer
        /\ \A d \in Call \ {c} : wire'[d] = wire[d]
    BY <1>1, <2>2, DropEffect
  <2>4. mounted
    BY <1>1, <2>3 DEF Quiet
  <2>5. TopUps' = TopUps /\ Calls("wallet")' = Calls("wallet")
    BY <2>3 DEF TopUps, Calls
  <2>6. Types' /\ One' /\ Loads'
    BY <1>2, <2>1, <2>3, <2>5 DEF LoadComplete
  <2>7. ASSUME ~mixedLoads PROVE CreditKept'
    <3>1. CreditKept
      BY <1>2, <2>7
    <3>2. \A d \in Call : InclCredit(wire[d])'
      BY <2>1, <2>3, <3>1 DEF CreditKept, InclCredit
    <3>3. QED
      BY <2>1, <2>5, <3>1, <3>2 DEF CreditKept
  <2>8. QED
    BY <1>4, <2>1, <2>4, <2>6, <2>7
<1>15. QED
    BY <1>5, <1>6, <1>7, <1>8, <1>9, <1>10, <1>11, <1>12, <1>13, <1>14
    DEF WalletNext, WalletAnswer, WalletServe

LEMMA TopUpInvNext ==
    ASSUME WalletInv, TopUpInv, [Next]_vars
    PROVE  TopUpInv'
<1>1. CASE WalletNext /\ Others("wallet")
    BY <1>1, WalletInvNext, TopUpInvStep
<1>2. CASE ~(WalletNext /\ Others("wallet"))
  <2>1. UNCHANGED <<walletVars, page>>
    BY <1>2 DEF Next, Others, vars
  <2>2. page # "wallet" \/ UNCHANGED <<wire, mounted>>
    BY <1>2 DEF Next, Others, vars, clientVars
  <2>3. WalletFirst => WalletFirst'
    BY <2>1 DEF walletVars, WalletFirst
  <2>4. CASE page # "wallet"
    BY <2>1, <2>3, <2>4 DEF TopUpInv, walletVars
  <2>5. CASE UNCHANGED <<wire, mounted>>
    BY <2>1, <2>3, <2>5
    DEF TopUpInv, walletVars, LoadComplete, TopUps, CreditKept, Calls, InclCredit
  <2>6. QED
    BY <2>2, <2>4, <2>5
<1>3. QED
    BY <1>1, <1>2

LEMMA TopUpShown ==
    ASSUME WalletInv, TopUpInv
    PROVE  OwnTopUpShown /\ WalletTypeOK
<1>1. OwnTopUpShown
  <2>1. SUFFICES ASSUME mounted, Quiet, credited > 0, ~mixedLoads, ~failedRead
                 PROVE  /\ balance >= credited /\ transactions >= credited
                        /\ WalletScreen = [balance |-> "amount", history |-> "rows"]
    BY DEF OwnTopUpShown
  <2>2. page = "wallet" /\ credited \in Nat /\ CreditKept
    BY <2>1 DEF TopUpInv, WalletFirst
  <2>3. Calls("wallet") = {}
    BY <2>1 DEF WalletInv, ClientInv, WireOK, IsMessage, Writes, Calls, Quiet
  <2>4. balance # None /\ balance >= credited /\ transactions >= credited
    BY <2>1, <2>2, <2>3 DEF CreditKept
  <2>5. transactions # 0
    BY <2>1, <2>2, <2>4
  <2>6. QED
    BY <2>4, <2>5 DEF WalletScreen
<1>2. QED
    BY <1>1 DEF WalletInv, TopUpInv, WalletTypeOK, ReadUpTo

(* The wallet page shows nothing the server did not book, for any number   *)
(* of loads and top-ups under way and whatever part of them fails          *)
(* (Wallet.jsx fetchData, handleTopUp).                                    *)
THEOREM NothingInventedCorrect == Spec => []NothingInvented
<1>1. Init => WalletInv
    BY WalletInvInit
<1>2. WalletInv /\ [Next]_vars => WalletInv'
    BY WalletInvNext
<1>3. WalletInv => NothingInvented
    BY DEF WalletInv, NothingInvented, ReadUpTo
<1>4. QED
    BY <1>1, <1>2, <1>3, PTL DEF Spec

-----------------------------------------------------------------------------
(* Lists of vehicles *)

(* Induction, first order: a set of naturals that is not empty has a least *)
(* element (the intervals below its elements are well founded).            *)
LEMMA LeastNat ==
    ASSUME NEW T, T \subseteq Nat, T # {}
    PROVE  \E n \in T : \A m \in T : n <= m
<1> DEFINE Below == {0 .. n : n \in T}
<1>1. Below \subseteq FiniteSubsetsOf(Nat) /\ Below # {}
  <2>1. \A n \in T : IsFiniteSet(0 .. n) /\ 0 .. n \subseteq Nat
    <3> TAKE n \in T
    <3>1. 0 \in Int /\ n \in Int
      OBVIOUS
    <3>2. QED
      BY <3>1, FS_Interval
  <2>2. QED
    BY <2>1 DEF FiniteSubsetsOf
<1>2. PICK n \in T : \A m \in T : <<0 .. m, 0 .. n>> \notin StrictSubsetOrdering(Nat)
  <2>1. IsWellFoundedOn(StrictSubsetOrdering(Nat), FiniteSubsetsOf(Nat))
    BY FS_StrictSubsetOrderingWellFounded
  <2>2. \E U \in Below : \A V \in Below : <<V, U>> \notin StrictSubsetOrdering(Nat)
    <3> HIDE DEF Below
    <3> QED
      BY <1>1, <2>1, WFMin
  <2>3. QED
    BY <2>2
<1>3. ASSUME NEW m \in T, m < n PROVE FALSE
  <2>1. 0 .. m \subseteq Nat /\ 0 .. n \subseteq Nat /\ 0 .. m \subseteq 0 .. n
    BY <1>3
  <2>2. n \in 0 .. n /\ n \notin 0 .. m
    BY <1>3
  <2>3. <<0 .. m, 0 .. n>> \in StrictSubsetOrdering(Nat)
    BY <2>1, <2>2 DEF StrictSubsetOrdering
  <2>4. QED
    BY <1>2, <2>3
<1>4. QED
    BY <1>2, <1>3

(* The prefixes that Without builds, up to the n-th row *)
Kept(f, s, id, n) ==
    f = [m \in 0 .. n |-> IF m = 0 THEN <<>>
                          ELSE IF s[m].id = id THEN f[m - 1] ELSE Append(f[m - 1], s[m])]

LEMMA KeptExists ==
    ASSUME NEW s, NEW id, Len(s) \in Nat
    PROVE  \E f : Kept(f, s, id, Len(s))
<1> DEFINE T == {n \in Nat : ~ \E f : Kept(f, s, id, n)}
<1>1. ASSUME T # {} PROVE FALSE
  <2>1. PICK n \in T : \A m \in T : n <= m
    BY <1>1, LeastNat
  <2>2. CASE n = 0
    <3> DEFINE none == [m \in 0 .. 0 |-> <<>>]
    <3>1. none = [m \in 0 .. 0 |-> IF m = 0 THEN <<>>
                    ELSE IF s[m].id = id THEN none[m - 1] ELSE Append(none[m - 1], s[m])]
      OBVIOUS
    <3>2. Kept(none, s, id, 0)
      <4> HIDE DEF none
      <4> QED
        BY <3>1 DEF Kept
    <3>3. QED
      BY <2>1, <2>2, <3>2
  <2>3. CASE n # 0
    <3>1. n \in Nat /\ n - 1 \in Nat /\ n - 1 \notin T
      BY <2>1, <2>3
    <3>2. PICK f : Kept(f, s, id, n - 1)
      BY <3>1
    <3> DEFINE more == [m \in 0 .. n |-> IF m < n THEN f[m]
                          ELSE IF s[n].id = id THEN f[n - 1] ELSE Append(f[n - 1], s[n])]
    <3>3. \A m \in 0 .. n - 1 :
             f[m] = IF m = 0 THEN <<>>
                    ELSE IF s[m].id = id THEN f[m - 1] ELSE Append(f[m - 1], s[m])
      BY <3>2 DEF Kept
    <3>4. \A m \in 0 .. n : more[m] = IF m < n THEN f[m]
                          ELSE IF s[n].id = id THEN f[n - 1] ELSE Append(f[n - 1], s[n])
      OBVIOUS
    <3>5. more = [m \in 0 .. n |-> more[m]]
      OBVIOUS
    <3> HIDE DEF more
    <3>6. \A m \in 0 .. n : m # 0 => m - 1 \in 0 .. n /\ m - 1 < n
      BY <3>1
    <3>7. ASSUME NEW m \in 0 .. n
          PROVE  more[m] = IF m = 0 THEN <<>>
                   ELSE IF s[m].id = id THEN more[m - 1] ELSE Append(more[m - 1], s[m])
      <4>1. CASE m < n
        BY <3>1, <3>3, <3>4, <3>6, <4>1
      <4>2. CASE m = n
        BY <2>3, <3>1, <3>4, <3>6, <4>2
      <4>3. QED
        BY <3>1, <4>1, <4>2
    <3>8. Kept(more, s, id, n)
      BY <3>5, <3>7 DEF Kept
    <3>9. QED
      BY <2>1, <3>8
  <2>4. QED
    BY <2>2, <2>3
<1>2. QED
    BY <1>1

LEMMA WithoutIsKept ==
    ASSUME NEW s, NEW id, Len(s) \in Nat
    PROVE  \E f : Kept(f, s, id, Len(s)) /\ Without(s, id) = f[Len(s)]
<1> DEFINE kept == CHOOSE f : Kept(f, s, id, Len(s))
<1>1. Kept(kept, s, id, Len(s))
    BY KeptExists
<1>2. Without(s, id) = kept[Len(s)]
    BY Zenon DEF Without, Kept
<1> HIDE DEF kept
<1>3. QED
    BY <1>1, <1>2

LEMMA AppendRows ==
    ASSUME NEW s \in Seq(Vehicle), NEW v \in Vehicle
    PROVE  /\ Append(s, v) \in Seq(Vehicle)
           /\ Rows(Append(s, v)) = Rows(s) \cup {v}
           /\ \A but : DistinctIds(s, but) /\ (v.id \in but \/ \A w \in Rows(s) : w.id # v.id)
                         => DistinctIds(Append(s, v), but)
<1>1. /\ Append(s, v) \in Seq(Vehicle) /\ DOMAIN Append(s, v) = 1 .. Len(s) + 1
      /\ Append(s, v)[Len(s) + 1] = v /\ DOMAIN s = 1 .. Len(s)
      /\ \A i \in 1 .. Len(s) : Append(s, v)[i] = s[i]
    OBVIOUS
<1>2. \A i \in 1 .. Len(s) + 1 : i \in 1 .. Len(s) \/ i = Len(s) + 1
    OBVIOUS
<1>3. Rows(Append(s, v)) = Rows(s) \cup {v}
    BY <1>1, <1>2 DEF Rows
<1>4. ASSUME NEW but, v.id \in but \/ \A w \in Rows(s) : w.id # v.id, DistinctIds(s, but)
      PROVE  DistinctIds(Append(s, v), but)
    BY <1>1, <1>2, <1>4 DEF DistinctIds, Rows
<1>5. QED
    BY <1>1, <1>3, <1>4

(* Filtering the vehicle out leaves the other rows, each as often as it    *)
(* was there.                                                              *)
LEMMA WithoutRows ==
    ASSUME NEW s \in Seq(Vehicle), NEW id, NEW but
    PROVE  /\ Without(s, id) \in Seq(Vehicle)
           /\ Rows(Without(s, id)) = {v \in Rows(s) : v.id # id}
           /\ DistinctIds(s, but) => DistinctIds(Without(s, id), but)
<1>0. Len(s) \in Nat /\ DOMAIN s = 1 .. Len(s) /\ \A i \in 1 .. Len(s) : s[i] \in Vehicle
    OBVIOUS
<1>1. PICK f : Kept(f, s, id, Len(s)) /\ Without(s, id) = f[Len(s)]
    BY <1>0, WithoutIsKept
<1>2. \A m \in 0 .. Len(s) :
         f[m] = IF m = 0 THEN <<>>
                ELSE IF s[m].id = id THEN f[m - 1] ELSE Append(f[m - 1], s[m])
    BY <1>1 DEF Kept
<1> DEFINE Good(n) == /\ f[n] \in Seq(Vehicle)
                      /\ \A v : v \in Rows(f[n]) <=> v.id # id /\ \E i \in 1 .. n : v = s[i]
                      /\ DistinctIds(s, but) => DistinctIds(f[n], but)
           T == {n \in 0 .. Len(s) : ~Good(n)}
<1>3. ASSUME T # {} PROVE FALSE
  <2>1. PICK n \in T : \A m \in T : n <= m
    <3>1. T \subseteq Nat
      OBVIOUS
    <3> HIDE DEF T
    <3>2. QED
      BY <1>3, <3>1, LeastNat
  <2>2. n \in 0 .. Len(s) /\ ~Good(n)
    BY <2>1
  <2>3. CASE n = 0
    <3>1. f[n] = <<>>
      BY <1>0, <1>2, <2>3
    <3>2. f[n] \in Seq(Vehicle) /\ DOMAIN f[n] = {}
      BY <3>1
    <3>3. Good(n)
      BY <2>3, <3>2 DEF Rows, DistinctIds
    <3>4. QED
      BY <2>2, <3>3
  <2>4. CASE n # 0
    <3>1. n - 1 \in 0 .. Len(s) /\ n - 1 \notin T /\ n \in 1 .. Len(s)
      <4>1. n \in Nat /\ n - 1 \in 0 .. Len(s) /\ n \in 1 .. Len(s) /\ ~(n <= n - 1)
        BY <1>0, <2>2, <2>4
      <4> HIDE DEF T
      <4>2. QED
        BY <2>1, <4>1
    <3>2. Good(n - 1)
      BY <3>1
    <3>3. f[n] = IF s[n].id = id THEN f[n - 1] ELSE Append(f[n - 1], s[n])
      BY <1>2, <2>2, <2>4
    <3>4. \A v : (\E i \in 1 .. n : v = s[i]) <=> v = s[n] \/ \E i \in 1 .. n - 1 : v = s[i]
      BY <1>0, <3>1
    <3>5. CASE s[n].id = id
      <4>1. f[n] = f[n - 1]
        BY <3>3, <3>5
      <4>2. Good(n)
        BY <3>2, <3>4, <3>5, <4>1
      <4>3. QED
        BY <2>2, <4>2
    <3>6. CASE s[n].id # id
      <4>1. f[n] = Append(f[n - 1], s[n]) /\ f[n - 1] \in Seq(Vehicle) /\ s[n] \in Vehicle
        BY <1>0, <3>1, <3>2, <3>3, <3>6
      <4>2. f[n] \in Seq(Vehicle) /\ Rows(f[n]) = Rows(f[n - 1]) \cup {s[n]}
        BY <4>1, AppendRows
      <4>3. \A v : v \in Rows(f[n]) <=> v.id # id /\ \E i \in 1 .. n : v = s[i]
        BY <3>2, <3>4, <3>6, <4>2
      <4>4. ASSUME DistinctIds(s, but) PROVE DistinctIds(f[n], but)
        <5>1. s[n].id \in but \/ \A i \in 1 .. n - 1 : s[i].id # s[n].id
          BY <1>0, <3>1, <4>4 DEF DistinctIds
        <5>2. s[n].id \in but \/ \A w \in Rows(f[n - 1]) : w.id # s[n].id
          BY <3>2, <5>1
        <5>3. DistinctIds(f[n - 1], but)
          BY <3>2, <4>4
        <5>4. QED
          BY <4>1, <5>2, <5>3, AppendRows
      <4>5. QED
        BY <2>2, <4>2, <4>3, <4>4
    <3>7. QED
      BY <3>5, <3>6
  <2>5. QED
    BY <2>3, <2>4
<1>4. Good(Len(s))
  <2>1. Len(s) \in 0 .. Len(s) /\ Len(s) \notin T
    <3>1. Len(s) \in 0 .. Len(s)
      BY <1>0
    <3> HIDE DEF T
    <3>2. QED
      BY <1>3, <3>1
  <2> HIDE DEF Good
  <2>2. QED
    BY <2>1
<1>5. \A v : v \in Rows(s) <=> \E i \in 1 .. Len(s) : v = s[i]
    BY <1>0 DEF Rows
<1>6. QED
    BY <1>1, <1>4, <1>5

-----------------------------------------------------------------------------
(* Profile *)

VehicleMessage(m) ==
    /\ m.op \in {"idle", "vehicles", "addVehicle", "deleteVehicle"}
    /\ m.op = "addVehicle" =>
         m.arg \in Plate /\ (m.state = "answered" => m.answer \in Vehicle)
    /\ m.op = "deleteVehicle" => m.arg \in Nat
    /\ m.op = "vehicles" /\ m.state = "answered" => m.answer \in Seq(Vehicle)

Adds    == {c \in Call : wire[c].op = "addVehicle" /\ wire[c].state = "answered"}
Deletes == {c \in Call : wire[c].op = "deleteVehicle" /\ wire[c].state = "answered"}

(* Once the list is loaded it differs from the server's rows by the edits  *)
(* whose answers are under way, but for the vehicles whose id is blurred.  *)
Differs ==
    \A v : v.id \notin blurred =>
       (v \in Rows(garage) <=>
           \/ v \in Rows(vehicles) /\ \A c \in Deletes : wire[c].arg # v.id
           \/ \E c \in Adds : v = wire[c].answer)

(* An id the server gave is no other row's, and nothing that would remove  *)
(* it is under way, unless it is blurred.                                  *)
OwnId(c) ==
    /\ \A v \in Rows(vehicles) : v.id # wire[c].answer.id
    /\ \A d \in Adds : wire[d].answer.id = wire[c].answer.id => d = c
    /\ \A d \in Call : wire[d].op = "deleteVehicle" => wire[d].arg # wire[c].answer.id

AddedIsNew == \A c \in Adds : wire[c].answer.id \in blurred \/ OwnId(c)

Synced == DistinctIds(vehicles, blurred) /\ AddedIsNew /\ Differs

(* A list that was read and is still true but for blurred ids.             *)
Agrees(s) ==
    /\ DistinctIds(s, blurred)
    /\ \A v : v.id \notin blurred => (v \in Rows(s) <=> v \in Rows(garage))

(* As long as no edit was clicked before the list was there and none was   *)
(* given up: while the list loads nothing else is under way, and it brings *)
(* what the server has.                                                    *)
InStep ==
    /\ \A c \in Call : wire[c].heard \/ wire[c].op \notin {"addVehicle", "deleteVehicle"}
    /\ \A c \in Calls("vehicles") :
         /\ \A d \in Call \ {c} : wire[d].op = "idle"
         /\ Answered(c, "vehicles") => Agrees(wire[c].answer)
    /\ Calls("vehicles") = {} => Synced

ProfileInv ==
    /\ ProfileTypeOK
    /\ DistinctIds(garage, {})
    /\ page # "profile" => garage = <<>>
    /\ page # "profile" \/ ~mounted => vehicles = <<>> /\ ~early
    /\ page = "profile" => \A c \in Call : VehicleMessage(wire[c])
    /\ page = "profile" /\ mounted /\ ~early /\ ~inDoubt => InStep

LEMMA ProfileInvInit ==
    ASSUME Init
    PROVE  ProfileInv
<1>1. /\ \A c \in Call : wire[c].op = "idle"
      /\ ~mounted
    BY WireInit, IdleIsMessage DEF Init, ClientInit
<1>2. /\ garage = <<>> \/ \E n \in VehicleId, p \in Plate : garage = <<[id |-> n, plate |-> p]>>
      /\ vehicles = <<>> /\ blurred = {}
      /\ ~addingVehicle /\ ~early /\ ~inDoubt
      /\ {addingVehicle, early, inDoubt} \subseteq BOOLEAN
      /\ page # "profile" => garage = <<>>
  <2>1. ProfileInit /\ (page # "profile" => garage = <<>>)
    BY DEF Init
  <2>2. garage = <<>> \/ \E n \in VehicleId, p \in Plate : garage = <<[id |-> n, plate |-> p]>>
    BY <2>1 DEF ProfileInit
  <2>3. vehicles = <<>> /\ addingVehicle = FALSE /\ early = FALSE /\ inDoubt = FALSE
        /\ blurred = {}
    BY <2>1, Zenon DEF ProfileInit
  <2>4. QED
    BY <2>1, <2>2, <2>3
<1>3. garage \in Seq(Vehicle) /\ DistinctIds(garage, {})
  <2>1. CASE garage = <<>>
    BY <1>2, <2>1 DEF DistinctIds
  <2>2. ASSUME NEW n \in VehicleId, NEW p \in Plate, garage = <<[id |-> n, plate |-> p]>>
        PROVE  garage \in Seq(Vehicle) /\ DistinctIds(garage, {})
    <3> DEFINE row == [id |-> n, plate |-> p]
    <3>1. row \in Vehicle
      BY ProfileAssumption DEF Vehicle
    <3> HIDE DEF row
    <3>2. garage = <<row>>
      BY <2>2 DEF row
    <3>3. garage \in Seq(Vehicle) /\ DOMAIN garage = {1}
      BY <3>1, <3>2
    <3>4. QED
      BY <3>3 DEF DistinctIds
  <2>3. QED
    BY <1>2, <2>1, <2>2
<1>4. vehicles \in Seq(Vehicle)
    BY <1>2
<1>5. \A c \in Call : VehicleMessage(wire[c])
    BY <1>1 DEF VehicleMessage
<1>6. QED
    BY <1>1, <1>2, <1>3, <1>4, <1>5 DEF ProfileInv, ProfileTypeOK

(* Steps that neither answer an edit nor take such an answer, and change   *)
(* no row at the server but blurred ones                                   *)
LEMMA SyncedKept ==
    ASSUME Synced, vehicles' = vehicles, blurred \subseteq blurred',
           \A v : v.id \notin blurred' => (v \in Rows(garage') <=> v \in Rows(garage)),
           Adds' = Adds, Deletes' = Deletes,
           \A c \in Adds \cup Deletes : wire'[c] = wire[c],
           \A c \in Call : wire'[c].op = "deleteVehicle" =>
              \/ wire[c].op = "deleteVehicle" /\ wire'[c].arg = wire[c].arg
              \/ \E v \in Rows(vehicles) : wire'[c].arg = v.id
    PROVE  Synced'
<1>1. DistinctIds(vehicles, blurred)'
    BY DEF Synced, DistinctIds
<1>2. Rows(vehicles') = Rows(vehicles)
    BY DEF Rows
<1>3. (\A c \in Adds : wire'[c] = wire[c]) /\ \A c \in Deletes : wire'[c] = wire[c]
    OBVIOUS
<1>4. AddedIsNew'
    <2>1. ASSUME NEW c \in Adds, wire[c].answer.id \notin blurred,
                 NEW d \in Call, wire'[d].op = "deleteVehicle"
          PROVE  wire'[d].arg # wire[c].answer.id
      BY <2>1 DEF Synced, AddedIsNew, OwnId
    <2>2. ASSUME NEW c \in Adds, wire'[c].answer.id \notin blurred' PROVE OwnId(c)'
      <3>1. wire'[c] = wire[c] /\ wire[c].answer.id \notin blurred
        BY <1>3, <2>2
      <3>2. /\ \A v \in Rows(vehicles) : v.id # wire[c].answer.id
            /\ \A d \in Adds : wire[d].answer.id = wire[c].answer.id => d = c
        BY <3>1 DEF Synced, AddedIsNew, OwnId
      <3>3. QED
        BY <1>2, <1>3, <2>1, <3>1, <3>2 DEF OwnId
    <2>3. QED
      BY <2>2 DEF AddedIsNew
<1>5. Differs'
    <2>1. \A v : v.id \notin blurred =>
            (v \in Rows(garage) <=>
                \/ v \in Rows(vehicles) /\ \A c \in Deletes : wire[c].arg # v.id
                \/ \E c \in Adds : v = wire[c].answer)
      BY DEF Synced, Differs
    <2>2. (\A c \in Adds : wire'[c].answer = wire[c].answer)
          /\ \A c \in Deletes : wire'[c].arg = wire[c].arg
      BY <1>3
    <2>3. \A v : v.id \notin blurred' =>
            (v \in Rows(garage') <=>
                \/ v \in Rows(vehicles') /\ \A c \in Deletes : wire'[c].arg # v.id
                \/ \E c \in Adds : v = wire'[c].answer)
      BY <1>2, <2>1, <2>2
    <2>4. QED
      BY <2>3 DEF Differs
<1>6. QED
    BY <1>1, <1>4, <1>5 DEF Synced

LEMMA ProfileInvStep ==
    ASSUME ClientInv, ProfileInv, ProfileNext, Others("profile")
    PROVE  ProfileInv'
<1>1. /\ page = "profile" /\ page' = page /\ WireOK
      /\ garage \in Seq(Vehicle) /\ vehicles \in Seq(Vehicle) /\ blurred \subseteq Nat
      /\ {addingVehicle, early, inDoubt} \subseteq BOOLEAN
      /\ DistinctIds(garage, {})
      /\ ~mounted => vehicles = <<>> /\ ~early /\ Quiet
      /\ mounted /\ ~early /\ ~inDoubt => InStep
    BY DEF ProfileInv, ProfileTypeOK, ClientInv, Others
<1>2. \A c \in Call : IsMessage(wire[c]) /\ VehicleMessage(wire[c])
    BY <1>1 DEF WireOK, ProfileInv
<1>3. ASSUME garage' \in Seq(Vehicle), vehicles' \in Seq(Vehicle), blurred' \subseteq Nat,
             {addingVehicle', early', inDoubt'} \subseteq BOOLEAN, DistinctIds(garage', {}),
             ~mounted' => vehicles' = <<>> /\ ~early',
             \A c \in Call : VehicleMessage(wire'[c]),
             mounted' /\ ~early' /\ ~inDoubt' => InStep'
      PROVE  ProfileInv'
    BY <1>1, <1>3 DEF ProfileInv, ProfileTypeOK
<1>4. ASSUME NEW c \in Call, \A d \in Call \ {c} : wire'[d] = wire[d], VehicleMessage(wire'[c])
      PROVE  \A d \in Call : VehicleMessage(wire'[d])
    BY <1>2, <1>4
<1>5. ASSUME UNCHANGED <<garage, blurred>>
      PROVE  garage' \in Seq(Vehicle) /\ blurred' \subseteq Nat /\ DistinctIds(garage', {})
    BY <1>1, <1>5
<1>6. \A c \in Call : /\ wire[c].op = "vehicles" => wire[c].heard
                      /\ wire[c].state \in {"answered", "refused"} => wire[c].heard
    BY <1>2 DEF IsMessage, Writes
<1>7. \A c \in Call : wire[c].heard => mounted
    BY <1>1 DEF Quiet
(* An edit under way, unless there are doubts: the list is loaded.         *)
<1>8. ASSUME NEW c \in Call, wire[c].op \in {"addVehicle", "deleteVehicle"}, wire[c].heard,
             ~early, ~inDoubt
      PROVE  InStep /\ Calls("vehicles") = {} /\ Synced
  <2>1. InStep
    BY <1>1, <1>7, <1>8
  <2>2. ASSUME NEW d \in Calls("vehicles") PROVE FALSE
    <3>1. d \in Call /\ wire[d].op = "vehicles"
      BY DEF Calls
    <3>2. \A e \in Call \ {d} : wire[e].op = "idle"
      BY <2>1 DEF InStep
    <3>3. QED
      BY <1>8, <3>1, <3>2
  <2>3. QED
    BY <2>1, <2>2 DEF InStep
(* An edit that was clicked *)
<1>9. ASSUME NEW op \in {"addVehicle", "deleteVehicle"}, NEW arg, mounted,
             Fresh \in Call, wire[Fresh].op = "idle", wire'[Fresh].op = op, wire'[Fresh].arg = arg,
             wire'[Fresh].state = "sent", wire'[Fresh].heard,
             \A d \in Call \ {Fresh} : wire'[d] = wire[d],
             op = "deleteVehicle" => \E v \in Rows(vehicles) : v.id = arg,
             UNCHANGED <<garage, blurred, vehicles>>,
             ~early, ~inDoubt, ~Awaits("vehicles")
      PROVE  InStep'
  <2>1. InStep
    BY <1>1, <1>9
  <2>2. Calls("vehicles") = {} /\ Synced
    BY <1>6, <1>9, <2>1 DEF InStep, Awaits, Calls
  <2>3. Adds' = Adds /\ Deletes' = Deletes /\ Calls("vehicles")' = {}
    BY <1>9, <2>2 DEF Adds, Deletes, Calls
  <2>4. \A c \in Adds \cup Deletes : wire'[c] = wire[c]
    BY <1>9 DEF Adds, Deletes
  <2>5. \A c \in Call : wire'[c].op = "deleteVehicle" =>
              \/ wire[c].op = "deleteVehicle" /\ wire'[c].arg = wire[c].arg
              \/ \E v \in Rows(vehicles) : wire'[c].arg = v.id
    BY <1>9
  <2>6. Synced'
    BY <1>9, <2>2, <2>3, <2>4, <2>5, SyncedKept
  <2>7. QED
    BY <1>9, <2>1, <2>3, <2>6 DEF InStep
(* An edit that was refused *)
<1>10. ASSUME NEW c \in Call, wire[c].op \in {"addVehicle", "deleteVehicle"}, wire[c].heard,
              wire[c].state # "answered", wire'[c].heard = wire[c].heard \/ wire'[c].op = "idle",
              wire'[c].op \in {"idle", wire[c].op}, wire'[c].state # "answered",
              wire'[c].op = "deleteVehicle" => wire'[c].arg = wire[c].arg,
              \A d \in Call \ {c} : wire'[d] = wire[d],
              UNCHANGED <<garage, blurred, vehicles>>,
              ~early, ~inDoubt
       PROVE  InStep'
  <2>1. InStep /\ Calls("vehicles") = {} /\ Synced
    BY <1>8, <1>10
  <2>2. Adds' = Adds /\ Deletes' = Deletes /\ Calls("vehicles")' = {}
    BY <1>10, <2>1 DEF Adds, Deletes, Calls
  <2>3. \A d \in Adds \cup Deletes : wire'[d] = wire[d]
    BY <1>10 DEF Adds, Deletes
  <2>4. Synced'
    BY <1>10, <2>1, <2>2, <2>3, SyncedKept
  <2>5. QED
    BY <1>10, <2>1, <2>2, <2>4 DEF InStep
<1>11. CASE OpenProfile
  <2>1. /\ ~mounted /\ mounted' = TRUE
        /\ inDoubt' = (InFlight("addVehicle") \/ InFlight("deleteVehicle"))
        /\ UNCHANGED <<garage, blurred, vehicles, addingVehicle, early>>
    BY <1>11 DEF OpenProfile
  <2>2. Send("vehicles", None)
    BY <1>11 DEF OpenProfile
  <2>3. PICK k \in Call :
           /\ wire'[k].op = "vehicles" /\ wire'[k].state = "sent"
           /\ wire'[k].heard /\ \A d \in Call \ {k} : wire'[d] = wire[d]
    BY <1>1, <2>2, SendEffect
  <2>4. \A d \in Call : VehicleMessage(wire'[d])
    BY <1>4, <2>3 DEF VehicleMessage
  <2>5. {inDoubt'} \subseteq BOOLEAN
    BY <2>1 DEF InFlight
  <2>6. ASSUME ~inDoubt' PROVE InStep'
    <3>1. \A c \in Call : wire[c].op \notin {"addVehicle", "deleteVehicle"}
      BY <2>1, <2>6 DEF InFlight
    <3>2. \A c \in Call : wire[c].op = "idle"
      BY <1>1, <1>2, <1>6, <2>1, <3>1 DEF VehicleMessage, Quiet
    <3>3. /\ Calls("vehicles")' = {k}
          /\ ~Answered(k, "vehicles")'
          /\ \A d \in Call \ {k} : wire'[d].op = "idle"
      <4>1. \A d \in Call \ {k} : wire'[d].op = "idle"
        BY <2>3, <3>2
      <4>2. Calls("vehicles")' = {k}
        BY <2>3, <4>1 DEF Calls
      <4>3. ~Answered(k, "vehicles")'
        BY <2>3 DEF Answered
      <4>4. QED
        BY <4>1, <4>2, <4>3
    <3>4. \A c \in Call : wire'[c].op \notin {"addVehicle", "deleteVehicle"}
      BY <2>3, <3>3
    <3>5. QED
      BY <3>3, <3>4 DEF InStep
  <2>7. QED
    BY <1>1, <1>3, <1>5, <2>1, <2>4, <2>5, <2>6
<1>12. CASE LeaveProfile
  <2>1. /\ Unmount /\ mounted' = FALSE /\ vehicles' = <<>>
        /\ addingVehicle' = FALSE /\ early' = FALSE
        /\ UNCHANGED <<garage, blurred, inDoubt>>
    BY <1>12 DEF LeaveProfile, Unmount
  <2>2. \A c \in Call : \/ wire'[c].op = "idle"
                        \/ /\ wire'[c].op = wire[c].op /\ wire'[c].arg = wire[c].arg
                           /\ wire'[c].state = "sent"
    BY <1>1, <2>1, UnmountEffect
  <2>3. \A d \in Call : VehicleMessage(wire'[d])
    BY <1>2, <2>2 DEF VehicleMessage
  <2>4. vehicles' \in Seq(Vehicle)
    BY <2>1
  <2>5. {addingVehicle', early', inDoubt'} \subseteq BOOLEAN /\ ~early' /\ ~mounted'
    BY <1>1, <2>1
  <2>6. QED
    BY <1>1, <1>3, <1>5, <2>1, <2>3, <2>4, <2>5
<1>13. ASSUME NEW p \in Plate, handleAddVehicle(p) PROVE ProfileInv'
  <2>1. /\ mounted /\ mounted' = mounted /\ addingVehicle' = TRUE
        /\ early' = (early \/ Awaits("vehicles"))
        /\ UNCHANGED <<garage, blurred, vehicles, inDoubt>>
    BY <1>13 DEF handleAddVehicle
  <2>2. Send("addVehicle", p)
    BY <1>13 DEF handleAddVehicle
  <2>3. /\ Fresh \in Call /\ wire[Fresh].op = "idle" /\ wire'[Fresh].op = "addVehicle"
        /\ wire'[Fresh].arg = p /\ wire'[Fresh].state = "sent" /\ wire'[Fresh].heard
        /\ \A d \in Call \ {Fresh} : wire'[d] = wire[d]
    BY <1>1, <2>2, SendEffect
  <2>4. \A d \in Call : VehicleMessage(wire'[d])
    BY <1>4, <2>3 DEF VehicleMessage
  <2>5. {early', addingVehicle'} \subseteq BOOLEAN
    BY <2>1 DEF Awaits
  <2>6. ~early' => ~early /\ ~Awaits("vehicles")
    BY <1>1, <2>1 DEF Awaits
  <2>7. mounted' /\ ~early' /\ ~inDoubt' => InStep'
    BY <1>9, <2>1, <2>3, <2>6
  <2>8. QED
    BY <1>1, <1>3, <1>5, <2>1, <2>4, <2>5, <2>7
<1>14. ASSUME NEW id \in RemoveOffered, handleDeleteVehicle(id) PROVE ProfileInv'
  <2>1. /\ mounted /\ mounted' = mounted
        /\ early' = (early \/ Awaits("vehicles"))
        /\ UNCHANGED <<garage, blurred, vehicles, addingVehicle, inDoubt>>
    BY <1>14 DEF handleDeleteVehicle
  <2>2. Send("deleteVehicle", id)
    BY <1>14 DEF handleDeleteVehicle
  <2>3. /\ Fresh \in Call /\ wire[Fresh].op = "idle" /\ wire'[Fresh].op = "deleteVehicle"
        /\ wire'[Fresh].arg = id /\ wire'[Fresh].state = "sent" /\ wire'[Fresh].heard
        /\ \A d \in Call \ {Fresh} : wire'[d] = wire[d]
    BY <1>1, <2>2, SendEffect
  <2>4. (\E v \in Rows(vehicles) : v.id = id) /\ id \in Nat
    <3>1. \E v \in Rows(vehicles) : v.id = id
      BY DEF RemoveOffered
    <3>2. \A v \in Rows(vehicles) : v \in Vehicle
      BY <1>1 DEF Rows
    <3>3. QED
      BY <3>1, <3>2 DEF Vehicle
  <2>5. \A d \in Call : VehicleMessage(wire'[d])
    BY <1>4, <2>3, <2>4 DEF VehicleMessage
  <2>6. {early'} \subseteq BOOLEAN
    BY <2>1 DEF Awaits
  <2>7. ~early' => ~early /\ ~Awaits("vehicles")
    BY <1>1, <2>1 DEF Awaits
  <2>8. mounted' /\ ~early' /\ ~inDoubt' => InStep'
    BY <1>9, <2>1, <2>3, <2>4, <2>7
  <2>9. QED
    BY <1>1, <1>3, <1>5, <2>1, <2>5, <2>6, <2>8
<1>15. ASSUME NEW c \in Call, VehiclesLoaded(c) PROVE ProfileInv'
  <2>1. /\ \/ Answered(c, "vehicles") /\ Take(c) /\ vehicles' = wire[c].answer /\ early' = early
           \/ Rejected(c, "vehicles") /\ early' = TRUE /\ vehicles' = vehicles
        /\ UNCHANGED <<mounted, garage, blurred, addingVehicle, inDoubt>>
    BY <1>15 DEF VehiclesLoaded
  <2>2. /\ wire[c].op = "vehicles" /\ wire'[c].op = "idle"
        /\ \A d \in Call \ {c} : wire'[d] = wire[d]
    BY <1>1, <2>1, TakeEffect, RejectedEffect DEF Answered, Writes
  <2>3. mounted /\ \A d \in Call : VehicleMessage(wire'[d])
    BY <1>4, <1>6, <1>7, <2>2 DEF VehicleMessage
  <2>4. vehicles' \in Seq(Vehicle) /\ {early'} \subseteq BOOLEAN
    BY <1>1, <1>2, <2>1 DEF Answered, VehicleMessage
  <2>5. ASSUME ~early', ~inDoubt PROVE InStep'
    <3>1. Answered(c, "vehicles") /\ vehicles' = wire[c].answer /\ early' = early
      BY <2>1, <2>5
    <3>2. InStep
      BY <1>1, <2>3, <2>5, <3>1
    <3>3. c \in Calls("vehicles")
      BY <2>2 DEF Calls
    <3>4. /\ Agrees(vehicles')
          /\ \A d \in Call \ {c} : wire[d].op = "idle"
      BY <3>1, <3>2, <3>3 DEF InStep
    <3>5. \A d \in Call : wire'[d].op = "idle"
      BY <2>2, <3>4
    <3>6. Adds' = {} /\ Deletes' = {} /\ Calls("vehicles")' = {}
      BY <3>5 DEF Adds, Deletes, Calls
    <3>7. /\ DistinctIds(vehicles', blurred)
          /\ \A v : v.id \notin blurred => (v \in Rows(vehicles') <=> v \in Rows(garage))
      BY <3>4 DEF Agrees
    <3>8. Synced'
      BY <2>1, <3>6, <3>7 DEF Synced, AddedIsNew, Differs
    <3>9. QED
      BY <3>5, <3>6, <3>8 DEF InStep
  <2>6. QED
    BY <1>1, <1>3, <1>5, <2>1, <2>3, <2>4, <2>5
<1>16. ASSUME NEW c \in Call, VehicleAdded(c) PROVE ProfileInv'
  <2>1. /\ wire[c].op = "addVehicle" /\ wire[c].state = "answered" /\ Take(c)
        /\ vehicles' = Append(vehicles, wire[c].answer) /\ addingVehicle' = FALSE
        /\ UNCHANGED <<mounted, garage, blurred, early, inDoubt>>
    BY <1>16 DEF VehicleAdded, Answered
  <2>2. /\ wire'[c].op = "idle" /\ \A d \in Call \ {c} : wire'[d] = wire[d]
    BY <1>1, <2>1, TakeEffect
  <2>3. wire[c].answer \in Vehicle /\ mounted /\ wire[c].heard
    BY <1>2, <1>6, <1>7, <2>1 DEF VehicleMessage
  <2>4. /\ vehicles' \in Seq(Vehicle)
        /\ Rows(vehicles') = Rows(vehicles) \cup {wire[c].answer}
        /\ DistinctIds(vehicles, blurred)
           /\ (wire[c].answer.id \in blurred \/ \A w \in Rows(vehicles) : w.id # wire[c].answer.id)
             => DistinctIds(vehicles', blurred)
    BY <1>1, <2>1, <2>3, AppendRows
  <2>5. \A d \in Call : VehicleMessage(wire'[d])
    BY <1>4, <2>2 DEF VehicleMessage
  <2>6. ASSUME ~early, ~inDoubt PROVE InStep'
    <3>1. InStep /\ Calls("vehicles") = {} /\ Synced
      BY <1>8, <2>1, <2>3, <2>6
    <3>2. /\ Calls("vehicles")' = {} /\ Adds' = Adds \ {c} /\ Deletes' = Deletes
          /\ c \in Adds /\ c \notin Deletes
      BY <2>1, <2>2, <3>1 DEF Calls, Adds, Deletes
    <3>3. wire[c].answer.id \in blurred \/ OwnId(c)
      BY <3>1, <3>2 DEF Synced, AddedIsNew
    <3>4. DistinctIds(vehicles', blurred)
      BY <2>4, <3>1, <3>3 DEF Synced, OwnId
    <3>5. AddedIsNew'
      <4>1. ASSUME NEW e \in Adds \ {c}, wire[e].answer.id \notin blurred PROVE OwnId(e)'
        <5>1. \A d \in Adds \ {c} : wire'[d] = wire[d]
          BY <2>2 DEF Adds
        <5>2. OwnId(e)
          BY <3>1, <4>1 DEF Synced, AddedIsNew
        <5>3. /\ \A v \in Rows(vehicles) : v.id # wire[e].answer.id
              /\ \A d \in Adds : wire[d].answer.id = wire[e].answer.id => d = e
              /\ \A d \in Call : wire[d].op = "deleteVehicle" => wire[d].arg # wire[e].answer.id
          BY <5>2 DEF OwnId
        <5>4. wire[e].answer.id # wire[c].answer.id
          BY <3>2, <4>1, <5>3
        <5>5. \A d \in Call : wire'[d].op = "deleteVehicle" => wire'[d] = wire[d]
          BY <2>2
        <5>6. /\ \A v \in Rows(vehicles') : v.id # wire'[e].answer.id
              /\ \A d \in Adds \ {c} : wire'[d].answer.id = wire'[e].answer.id => d = e
              /\ \A d \in Call : wire'[d].op = "deleteVehicle"
                                   => wire'[d].arg # wire'[e].answer.id
          BY <2>4, <4>1, <5>1, <5>3, <5>4, <5>5
        <5>7. QED
          BY <3>2, <5>6 DEF OwnId
      <4>2. \A e \in Adds \ {c} : wire'[e] = wire[e]
        BY <2>2 DEF Adds
      <4>3. QED
        BY <2>1, <3>2, <4>1, <4>2 DEF AddedIsNew
    <3>6. Differs'
      <4>0. wire[c].answer.id \notin blurred => \A d \in Deletes : wire[d].arg # wire[c].answer.id
        BY <3>3 DEF Deletes, OwnId
      <4>1. \A d \in Deletes : wire'[d].arg = wire[d].arg
        BY <2>2, <3>2 DEF Deletes
      <4>2. \A d \in Adds \ {c} : wire'[d] = wire[d]
        BY <2>2 DEF Adds
      <4>3. \A v : v.id \notin blurred =>
              (v \in Rows(garage) <=>
                 \/ v \in Rows(vehicles) /\ \A d \in Deletes : wire[d].arg # v.id
                 \/ \E d \in Adds : v = wire[d].answer)
        BY <3>1 DEF Synced, Differs
      <4>4. ASSUME NEW v, v.id \notin blurred
            PROVE  v \in Rows(garage) <=>
                      \/ v \in Rows(vehicles') /\ \A d \in Deletes : wire'[d].arg # v.id
                      \/ \E d \in Adds \ {c} : v = wire'[d].answer
        <5>1. CASE v = wire[c].answer
          <6>1. v \in Rows(garage) /\ v \in Rows(vehicles')
            BY <2>4, <3>2, <4>3, <4>4, <5>1
          <6>2. \A d \in Deletes : wire'[d].arg # v.id
            BY <4>0, <4>1, <4>4, <5>1
          <6>3. QED
            BY <6>1, <6>2
        <5>2. CASE v # wire[c].answer
          <6>1. v \in Rows(vehicles') <=> v \in Rows(vehicles)
            BY <2>4, <5>2
          <6>2. (\E d \in Adds : v = wire[d].answer) <=> \E d \in Adds \ {c} : v = wire'[d].answer
            BY <4>2, <5>2
          <6>3. (\A d \in Deletes : wire'[d].arg # v.id) <=> \A d \in Deletes : wire[d].arg # v.id
            BY <4>1
          <6>4. v \in Rows(garage) <=>
                   \/ v \in Rows(vehicles) /\ \A d \in Deletes : wire[d].arg # v.id
                   \/ \E d \in Adds : v = wire[d].answer
            BY <4>3, <4>4
          <6>5. QED
            BY <6>1, <6>2, <6>3, <6>4
        <5>3. QED
          BY <5>1, <5>2
      <4>5. QED
        BY <2>1, <3>2, <4>4 DEF Differs
    <3>7. Synced'
      BY <2>1, <3>4, <3>5, <3>6 DEF Synced
    <3>8. QED
      BY <2>2, <3>1, <3>2, <3>7 DEF InStep
  <2>7. addingVehicle' \in BOOLEAN
    BY <2>1
  <2>8. QED
    BY <1>1, <1>3, <1>5, <2>1, <2>3, <2>4, <2>5, <2>6, <2>7
<1>17. ASSUME NEW c \in Call, NEW op \in {"addVehicle", "deleteVehicle"}, Rejected(c, op),
              inDoubt' = (inDoubt \/ wire[c].state # "refused"), {addingVehicle'} \subseteq BOOLEAN,
              UNCHANGED <<mounted, garage, blurred, vehicles, early>>
       PROVE  ProfileInv'
  <2>1. /\ wire[c].op = op /\ wire[c].heard
        /\ \/ wire'[c].op = "idle"
           \/ wire[c].state = "sent" /\ wire'[c].op = op /\ wire'[c].arg = wire[c].arg
              /\ wire'[c].state = "sent"
        /\ wire'[c].state \in {"free", "sent"}
        /\ \A d \in Call \ {c} : wire'[d] = wire[d]
    BY <1>1, <1>17, RejectedEffect
  <2>2. mounted /\ \A d \in Call : VehicleMessage(wire'[d])
    BY <1>2, <1>4, <1>7, <2>1 DEF VehicleMessage
  <2>3. {inDoubt'} \subseteq BOOLEAN
    BY <1>17
  <2>4. ~inDoubt' => ~inDoubt /\ wire[c].state = "refused"
    <3>1. inDoubt \in BOOLEAN
      BY <1>1
    <3>2. QED
      BY <1>17, <3>1
  <2>5. ASSUME ~early, ~inDoubt' PROVE InStep'
    <3>1. ~inDoubt /\ wire[c].state = "refused" /\ wire'[c].op = "idle"
      BY <2>1, <2>4, <2>5
    <3>2. wire[c].op \in {"addVehicle", "deleteVehicle"} /\ wire'[c].state # "answered"
      BY <2>1
    <3>3. QED
      BY <1>10, <1>17, <2>1, <2>5, <3>1, <3>2
  <2>6. QED
    BY <1>1, <1>3, <1>5, <1>17, <2>2, <2>3, <2>5
<1>18. ASSUME NEW c \in Call, AddFailed(c) PROVE ProfileInv'
  <2>1. Rejected(c, "addVehicle")
    BY <1>18 DEF AddFailed
  <2>2. /\ inDoubt' = (inDoubt \/ wire[c].state # "refused") /\ addingVehicle' = FALSE
        /\ UNCHANGED <<mounted, garage, blurred, vehicles, early>>
    BY <1>18 DEF AddFailed
  <2>3. {addingVehicle'} \subseteq BOOLEAN
    BY <2>2
  <2>4. QED
    BY <1>17, <2>1, <2>2, <2>3
<1>19. ASSUME NEW c \in Call, RemoveFailed(c) PROVE ProfileInv'
  <2>1. Rejected(c, "deleteVehicle")
    BY <1>19 DEF RemoveFailed
  <2>2. /\ inDoubt' = (inDoubt \/ wire[c].state # "refused") /\ addingVehicle' = addingVehicle
        /\ UNCHANGED <<mounted, garage, blurred, vehicles, early>>
    BY <1>19 DEF RemoveFailed
  <2>3. {addingVehicle'} \subseteq BOOLEAN
    BY <1>1, <2>2
  <2>4. QED
    BY <1>17, <2>1, <2>2, <2>3
<1>20. ASSUME NEW c \in Call, VehicleRemoved(c) PROVE ProfileInv'
  <2>1. /\ wire[c].op = "deleteVehicle" /\ wire[c].state = "answered" /\ Take(c)
        /\ vehicles' = Without(vehicles, wire[c].arg)
        /\ UNCHANGED <<mounted, garage, blurred, addingVehicle, early, inDoubt>>
    BY <1>20 DEF VehicleRemoved, Answered
  <2>2. /\ wire'[c].op = "idle" /\ \A d \in Call \ {c} : wire'[d] = wire[d]
    BY <1>1, <2>1, TakeEffect
  <2>3. mounted /\ wire[c].heard
    BY <1>6, <1>7, <2>1
  <2>4. /\ vehicles' \in Seq(Vehicle)
        /\ Rows(vehicles') = {v \in Rows(vehicles) : v.id # wire[c].arg}
        /\ DistinctIds(vehicles, blurred) => DistinctIds(vehicles', blurred)
    BY <1>1, <2>1, WithoutRows
  <2>5. \A d \in Call : VehicleMessage(wire'[d])
    BY <1>4, <2>2 DEF VehicleMessage
  <2>6. ASSUME ~early, ~inDoubt PROVE InStep'
    <3>1. InStep /\ Calls("vehicles") = {} /\ Synced
      BY <1>8, <2>1, <2>3, <2>6
    <3>2. /\ Calls("vehicles")' = {} /\ Adds' = Adds /\ Deletes' = Deletes \ {c}
          /\ c \in Deletes /\ c \notin Adds
      BY <2>1, <2>2, <3>1 DEF Calls, Adds, Deletes
    <3>3. DistinctIds(vehicles', blurred)
      BY <2>4, <3>1 DEF Synced
    <3>4. AddedIsNew'
      <4>1. \A e \in Adds : wire'[e] = wire[e]
        BY <2>2, <3>2 DEF Adds
      <4>2. ASSUME NEW e \in Adds, wire[e].answer.id \notin blurred PROVE OwnId(e)'
        <5>1. OwnId(e)
          BY <3>1, <4>2 DEF Synced, AddedIsNew
        <5>2. /\ \A v \in Rows(vehicles) : v.id # wire[e].answer.id
              /\ \A d \in Adds : wire[d].answer.id = wire[e].answer.id => d = e
              /\ \A d \in Call : wire[d].op = "deleteVehicle" => wire[d].arg # wire[e].answer.id
          BY <5>1 DEF OwnId
        <5>3. \A d \in Call : wire'[d].op = "deleteVehicle" => wire'[d] = wire[d]
          BY <2>2
        <5>4. /\ \A v \in Rows(vehicles') : v.id # wire'[e].answer.id
              /\ \A d \in Adds : wire'[d].answer.id = wire'[e].answer.id => d = e
              /\ \A d \in Call : wire'[d].op = "deleteVehicle"
                                   => wire'[d].arg # wire'[e].answer.id
          BY <2>4, <4>1, <5>2, <5>3
        <5>5. QED
          BY <3>2, <5>4 DEF OwnId
      <4>3. QED
        BY <2>1, <3>2, <4>1, <4>2 DEF AddedIsNew
    <3>5. Differs'
      <4>1. \A d \in Deletes \ {c} : wire'[d] = wire[d]
        BY <2>2 DEF Deletes
      <4>2. \A d \in Adds : wire'[d] = wire[d]
        BY <2>2, <3>2 DEF Adds
      <4>3. \A v : v.id \notin blurred =>
              (v \in Rows(garage) <=>
                 \/ v \in Rows(vehicles) /\ \A d \in Deletes : wire[d].arg # v.id
                 \/ \E d \in Adds : v = wire[d].answer)
        BY <3>1 DEF Synced, Differs
      <4>4. \A v : v.id \notin blurred =>
              (v \in Rows(garage) <=>
                 \/ v \in Rows(vehicles') /\ \A d \in Deletes \ {c} : wire'[d].arg # v.id
                 \/ \E d \in Adds : v = wire'[d].answer)
        BY <2>4, <3>2, <4>1, <4>2, <4>3
      <4>5. QED
        BY <2>1, <3>2, <4>4 DEF Differs
    <3>6. Synced'
      BY <2>1, <3>3, <3>4, <3>5 DEF Synced
    <3>7. QED
      BY <2>2, <3>1, <3>2, <3>6 DEF InStep
  <2>7. QED
    BY <1>1, <1>3, <1>5, <2>1, <2>3, <2>4, <2>5, <2>6
<1>21. ASSUME NEW c \in Call, ServeVehicles(c) PROVE ProfileInv'
  <2>1. /\ wire[c].op = "vehicles"
        /\ UNCHANGED <<mounted, garage, vehicles, addingVehicle, early, inDoubt>>
        /\ blurred' = {}
    BY <1>21 DEF ServeVehicles, Sent, profileView
  <2>2. Reply(c, "answered", garage)
    BY <1>21 DEF ServeVehicles
  <2>3. /\ wire'[c].op = "vehicles" /\ wire'[c].answer = garage
        /\ \A d \in Call \ {c} : wire'[d] = wire[d]
    BY <1>1, <1>6, <2>1, <2>2, ReplyEffect
  <2>4. mounted /\ \A d \in Call : VehicleMessage(wire'[d])
    BY <1>1, <1>4, <1>6, <1>7, <2>1, <2>3 DEF VehicleMessage
  <2>5. ASSUME ~early, ~inDoubt PROVE InStep'
    <3>1. InStep
      BY <1>1, <2>4, <2>5
    <3>2. c \in Calls("vehicles") /\ c \in Calls("vehicles")'
      BY <2>1, <2>3 DEF Calls
    <3>3. \A d \in Call \ {c} : wire'[d].op = "idle"
      BY <2>3, <3>1, <3>2 DEF InStep
    <3>4. Agrees(garage)'
      BY <1>1, <2>1 DEF Agrees
    <3>5. Calls("vehicles")' = {c} /\ wire'[c].answer = garage'
      BY <2>1, <2>3, <3>2, <3>3 DEF Calls
    <3>6. \A d \in Call : wire'[d].op \notin {"addVehicle", "deleteVehicle"}
      BY <2>3, <3>3
    <3>7. QED
      BY <3>3, <3>4, <3>5, <3>6 DEF InStep
  <2>6. garage' \in Seq(Vehicle) /\ DistinctIds(garage', {}) /\ blurred' \subseteq Nat
    BY <1>1, <2>1
  <2>7. QED
    BY <1>1, <1>3, <2>1, <2>4, <2>5, <2>6
<1>22. ASSUME NEW c \in Call, ServeAdd(c) PROVE ProfileInv'
  <2>1. /\ wire[c].op = "addVehicle" /\ wire[c].state = "sent"
        /\ UNCHANGED <<mounted, vehicles, addingVehicle, early, inDoubt>>
    BY <1>22 DEF ServeAdd, Sent, profileView
  <2>2. ASSUME mounted, ~early, ~inDoubt
        PROVE  wire[c].heard /\ InStep /\ Calls("vehicles") = {} /\ Synced
    <3>1. wire[c].heard
      BY <1>1, <2>1, <2>2 DEF InStep
    <3>2. QED
      BY <1>8, <2>1, <2>2, <3>1
  <2>3. CASE Reply(c, "refused", None) /\ UNCHANGED <<garage, blurred>>
    <3>1. /\ ~wire[c].heard => wire'[c].op = "idle" /\ wire'[c].state = "free"
          /\ wire[c].heard => wire'[c].op = "addVehicle" /\ wire'[c].arg = wire[c].arg
                              /\ wire'[c].state = "refused"
          /\ wire'[c].heard = wire[c].heard
          /\ \A d \in Call \ {c} : wire'[d] = wire[d]
      BY <1>1, <2>1, <2>3, ReplyEffect
    <3>2. \A d \in Call : VehicleMessage(wire'[d])
      BY <1>2, <1>4, <2>1, <3>1 DEF VehicleMessage
    <3>3. ASSUME mounted, ~early, ~inDoubt PROVE InStep'
      <4>1. wire[c].heard
        BY <2>2, <3>3
      <4>2. QED
        BY <1>10, <2>1, <2>3, <3>1, <3>3, <4>1
    <3>4. QED
      BY <1>1, <1>3, <1>5, <2>1, <2>3, <3>2, <3>3
  <2>4. ASSUME NEW n \in NewIds, NEW row, row = [id |-> n, plate |-> wire[c].arg],
               garage' = Append(garage, row), Reply(c, "answered", row),
               blurred' = IF DeletionUnderWay(n) THEN blurred \cup {n} ELSE blurred
        PROVE  ProfileInv'
    <3>0. n \in Nat /\ \A v \in Rows(garage) : v.id \in Nat /\ v.id # n
      <4>1. \A v \in Rows(garage) : v \in Vehicle
        BY <1>1 DEF Rows
      <4>2. QED
        BY <4>1, ProfileAssumption DEF NewIds, Vehicle
    <3>1. row \in Vehicle /\ row.id = n
      BY <1>2, <2>1, <2>4, <3>0 DEF VehicleMessage, Vehicle
    <3>2. /\ ~wire[c].heard => wire'[c].op = "idle" /\ wire'[c].state = "free"
          /\ wire[c].heard => wire'[c].op = "addVehicle" /\ wire'[c].arg = wire[c].arg
                              /\ wire'[c].state = "answered" /\ wire'[c].answer = row
          /\ wire'[c].heard = wire[c].heard
          /\ \A d \in Call \ {c} : wire'[d] = wire[d]
      BY <1>1, <2>1, <2>4, ReplyEffect
    <3>3. \A d \in Call : VehicleMessage(wire'[d])
      BY <1>2, <1>4, <2>1, <3>1, <3>2 DEF VehicleMessage
    <3>4. /\ garage' \in Seq(Vehicle) /\ Rows(garage') = Rows(garage) \cup {row}
          /\ DistinctIds(garage', {})
      BY <1>1, <2>4, <3>0, <3>1, AppendRows
    <3>5. blurred' \subseteq Nat /\ blurred \subseteq blurred'
      BY <1>1, <2>4, <3>0
    <3>6. ASSUME mounted, ~early, ~inDoubt PROVE InStep'
      <4>1. wire[c].heard /\ InStep /\ Calls("vehicles") = {} /\ Synced
        BY <2>2, <3>6
      <4>2. /\ Calls("vehicles")' = {} /\ Adds' = Adds \cup {c} /\ Deletes' = Deletes
            /\ c \notin Adds /\ c \notin Deletes /\ wire'[c].answer = row
        BY <2>1, <3>2, <4>1 DEF Calls, Adds, Deletes
      <4>3. /\ \A d \in Adds \cup Deletes : wire'[d] = wire[d]
            /\ \A d \in Call : wire'[d].op = "deleteVehicle" => wire'[d] = wire[d]
        BY <3>2, <4>1, <4>2 DEF Adds, Deletes
      <4>4. DistinctIds(vehicles', blurred')
        BY <2>1, <3>5, <4>1 DEF Synced, DistinctIds
      <4>5. \A v : v.id \notin blurred =>
              (v \in Rows(garage) <=>
                 \/ v \in Rows(vehicles) /\ \A d \in Deletes : wire[d].arg # v.id
                 \/ \E d \in Adds : v = wire[d].answer)
        BY <4>1 DEF Synced, Differs
(* A row or an answered add of this id would be a row of the garage, or a  *)
(* deletion of it is under way and the id is blurred now.                  *)
      <4>6. ASSUME n \notin blurred'
            PROVE  /\ \A v \in Rows(vehicles) : v.id # n
                   /\ \A d \in Adds : wire[d].answer.id # n
                   /\ \A d \in Call : wire[d].op = "deleteVehicle" => wire[d].arg # n
        <5>1. n \notin blurred /\ ~DeletionUnderWay(n)
          BY <2>4, <4>6
        <5>2. \A d \in Call : wire[d].op = "deleteVehicle" => wire[d].arg # n
          BY <5>1 DEF DeletionUnderWay
        <5>3. \A d \in Deletes : wire[d].arg # n
          BY <5>2 DEF Deletes
        <5>4. \A v \in Rows(vehicles) : v.id # n
          BY <3>0, <4>5, <5>1, <5>3
        <5>5. \A d \in Adds : wire[d].answer.id # n
          BY <3>0, <4>5, <5>1
        <5>6. QED
          BY <5>2, <5>4, <5>5
      <4>7. AddedIsNew'
        <5>1. ASSUME n \notin blurred' PROVE OwnId(c)'
          <6>1. /\ \A v \in Rows(vehicles) : v.id # n
                /\ \A d \in Adds : wire'[d].answer.id # n
                /\ \A d \in Call : wire'[d].op = "deleteVehicle" => wire'[d].arg # n
            BY <4>3, <4>6, <5>1
          <6>2. QED
            BY <2>1, <3>1, <4>2, <6>1 DEF OwnId
        <5>2. ASSUME NEW e \in Adds, wire[e].answer.id \notin blurred' PROVE OwnId(e)'
          <6>1. OwnId(e) /\ e \in Adds' /\ wire'[e] = wire[e]
            BY <3>5, <4>1, <4>2, <4>3, <5>2 DEF Synced, AddedIsNew
          <6>2. /\ \A v \in Rows(vehicles) : v.id # wire[e].answer.id
                /\ \A d \in Adds : wire[d].answer.id = wire[e].answer.id => d = e
                /\ \A d \in Call : wire[d].op = "deleteVehicle" => wire[d].arg # wire[e].answer.id
            BY <6>1 DEF OwnId
          <6>3. wire[e].answer.id # n
            BY <3>0, <3>5, <4>5, <5>2
          <6>4. /\ \A v \in Rows(vehicles') : v.id # wire'[e].answer.id
                /\ \A d \in Adds \cup {c} : wire'[d].answer.id = wire'[e].answer.id => d = e
                /\ \A d \in Call : wire'[d].op = "deleteVehicle" => wire'[d].arg # wire'[e].answer.id
            BY <2>1, <3>1, <4>2, <4>3, <6>1, <6>2, <6>3
          <6>5. QED
            BY <4>2, <6>4 DEF OwnId
        <5>3. wire'[c].answer.id = n /\ \A e \in Adds : wire'[e].answer = wire[e].answer
          BY <3>1, <4>2, <4>3
        <5>4. QED
          BY <4>2, <5>1, <5>2, <5>3 DEF AddedIsNew
      <4>8. Differs'
        <5>1. \A v : v.id \notin blurred' =>
                (v \in Rows(garage') <=>
                   \/ v \in Rows(vehicles) /\ \A d \in Deletes : wire'[d].arg # v.id
                   \/ \E d \in Adds \cup {c} : v = wire'[d].answer)
          BY <3>4, <3>5, <4>2, <4>3, <4>5
        <5>2. QED
          BY <2>1, <4>2, <5>1 DEF Differs
      <4>9. QED
        BY <3>2, <4>1, <4>2, <4>4, <4>7, <4>8 DEF InStep, Synced
    <3>7. QED
      BY <1>1, <1>3, <2>1, <3>3, <3>4, <3>5, <3>6
  <2>5. \/ Reply(c, "refused", None) /\ UNCHANGED <<garage, blurred>>
        \/ \E n \in NewIds :
             /\ garage' = Append(garage, [id |-> n, plate |-> wire[c].arg])
             /\ Reply(c, "answered", [id |-> n, plate |-> wire[c].arg])
             /\ blurred' = IF DeletionUnderWay(n) THEN blurred \cup {n} ELSE blurred
    BY <1>22 DEF ServeAdd
  <2>6. QED
    BY <2>3, <2>4, <2>5
<1>23. ASSUME NEW c \in Call, ServeDelete(c) PROVE ProfileInv'
  <2>1. /\ wire[c].op = "deleteVehicle" /\ wire[c].state = "sent"
        /\ UNCHANGED <<mounted, blurred, vehicles, addingVehicle, early, inDoubt>>
    BY <1>23 DEF ServeDelete, Sent, profileView
  <2>2. \/ Reply(c, "refused", None) /\ garage' = garage
        \/ garage' = Without(garage, wire[c].arg) /\ Reply(c, "answered", None)
    BY <1>23 DEF ServeDelete
  <2>3. ASSUME mounted, ~early, ~inDoubt
        PROVE  wire[c].heard /\ InStep /\ Calls("vehicles") = {} /\ Synced
    <3>1. wire[c].heard
      BY <1>1, <2>1, <2>3 DEF InStep
    <3>2. QED
      BY <1>8, <2>1, <2>3, <3>1
  <2>4. CASE Reply(c, "refused", None) /\ garage' = garage
    <3>1. /\ ~wire[c].heard => wire'[c].op = "idle" /\ wire'[c].state = "free"
          /\ wire[c].heard => wire'[c].op = "deleteVehicle" /\ wire'[c].arg = wire[c].arg
                              /\ wire'[c].state = "refused"
          /\ wire'[c].heard = wire[c].heard
          /\ \A d \in Call \ {c} : wire'[d] = wire[d]
      BY <1>1, <2>1, <2>4, ReplyEffect
    <3>2. \A d \in Call : VehicleMessage(wire'[d])
      BY <1>2, <1>4, <2>1, <3>1 DEF VehicleMessage
    <3>3. ASSUME mounted, ~early, ~inDoubt PROVE InStep'
      <4>1. wire[c].heard
        BY <2>3, <3>3
      <4>2. QED
        BY <1>10, <2>1, <2>4, <3>1, <3>3, <4>1
    <3>4. QED
      BY <1>1, <1>3, <1>5, <2>1, <2>4, <3>2, <3>3
  <2>5. CASE garage' = Without(garage, wire[c].arg) /\ Reply(c, "answered", None)
    <3>1. /\ ~wire[c].heard => wire'[c].op = "idle" /\ wire'[c].state = "free"
          /\ wire[c].heard => wire'[c].op = "deleteVehicle" /\ wire'[c].arg = wire[c].arg
                              /\ wire'[c].state = "answered"
          /\ wire'[c].heard = wire[c].heard
          /\ \A d \in Call \ {c} : wire'[d] = wire[d]
      BY <1>1, <2>1, <2>5, ReplyEffect
    <3>2. \A d \in Call : VehicleMessage(wire'[d])
      BY <1>2, <1>4, <2>1, <3>1 DEF VehicleMessage
    <3>3. /\ garage' \in Seq(Vehicle)
          /\ Rows(garage') = {v \in Rows(garage) : v.id # wire[c].arg}
          /\ DistinctIds(garage', {})
      BY <1>1, <2>5, WithoutRows
    <3>4. blurred' \subseteq Nat
      BY <1>1, <2>1
    <3>5. ASSUME mounted, ~early, ~inDoubt PROVE InStep'
      <4>1. wire[c].heard /\ InStep /\ Calls("vehicles") = {} /\ Synced
        BY <2>3, <3>5
      <4>2. /\ Calls("vehicles")' = {} /\ Adds' = Adds /\ Deletes' = Deletes \cup {c}
            /\ c \notin Adds /\ wire'[c].arg = wire[c].arg
        BY <2>1, <3>1, <4>1 DEF Calls, Adds, Deletes
      <4>3. /\ \A d \in Adds : wire'[d] = wire[d]
            /\ \A d \in Call : wire'[d].op = wire[d].op /\ wire'[d].arg = wire[d].arg
        <5>1. \A d \in Adds : wire'[d] = wire[d]
          BY <3>1, <4>2 DEF Adds
        <5>2. wire'[c].op = wire[c].op /\ wire'[c].arg = wire[c].arg
          BY <2>1, <3>1, <4>1
        <5>3. QED
          BY <3>1, <5>1, <5>2
      <4>4. DistinctIds(vehicles', blurred')
        BY <2>1, <4>1 DEF Synced
      <4>5. AddedIsNew'
        <5>1. ASSUME NEW e \in Adds, wire[e].answer.id \notin blurred PROVE OwnId(e)'
          <6>1. OwnId(e)
            BY <4>1, <5>1 DEF Synced, AddedIsNew
          <6>2. QED
            BY <2>1, <4>2, <4>3, <6>1 DEF OwnId
        <5>2. QED
          BY <2>1, <4>2, <4>3, <5>1 DEF AddedIsNew
      <4>6. Differs'
        <5>1. \A v : v.id \notin blurred =>
                (v \in Rows(garage) <=>
                   \/ v \in Rows(vehicles) /\ \A d \in Deletes : wire[d].arg # v.id
                   \/ \E d \in Adds : v = wire[d].answer)
          BY <4>1 DEF Synced, Differs
        <5>2. \A d \in Adds : wire[d].answer.id \notin blurred => wire[d].answer.id # wire[c].arg
          BY <2>1, <4>1 DEF Synced, AddedIsNew, OwnId
        <5>3. \A d \in Deletes : d \in Call
          BY DEF Deletes
        <5>4. \A v : v.id \notin blurred =>
                (v \in Rows(garage') <=>
                   \/ v \in Rows(vehicles) /\ \A d \in Deletes \cup {c} : wire'[d].arg # v.id
                   \/ \E d \in Adds : v = wire'[d].answer)
          BY <3>3, <4>2, <4>3, <5>1, <5>2, <5>3
        <5>5. QED
          BY <2>1, <4>2, <5>4 DEF Differs
      <4>7. QED
        BY <3>1, <4>1, <4>2, <4>4, <4>5, <4>6 DEF InStep, Synced
    <3>6. QED
      BY <1>1, <1>3, <2>1, <3>2, <3>3, <3>4, <3>5
  <2>6. QED
    BY <2>2, <2>4, <2>5
<1>24. CASE GarageChangesElsewhere
  <2>1. UNCHANGED <<wire, mounted, vehicles, addingVehicle, early, inDoubt>>
    BY <1>24 DEF GarageChangesElsewhere, profileView
(* All that differs at the server is one row, which is blurred now.        *)
  <2>2. ASSUME garage' \in Seq(Vehicle), DistinctIds(garage', {}),
               NEW id \in Nat, blurred' = blurred \cup {id},
               \A v : v.id # id => (v \in Rows(garage') <=> v \in Rows(garage))
        PROVE  ProfileInv'
    <3>1. /\ blurred \subseteq blurred' /\ blurred' \subseteq Nat
          /\ \A v : v.id \notin blurred' => (v \in Rows(garage') <=> v \in Rows(garage))
      BY <1>1, <2>2
    <3>2. ASSUME mounted, ~early, ~inDoubt PROVE InStep'
      <4>1. InStep
        BY <1>1, <3>2
      <4>2. /\ Adds' = Adds /\ Deletes' = Deletes /\ Calls("vehicles")' = Calls("vehicles")
            /\ \A c \in Call : Answered(c, "vehicles")' <=> Answered(c, "vehicles")
        BY <2>1 DEF Adds, Deletes, Calls, Answered
      <4>3. Synced => Synced'
        BY <2>1, <3>1, <4>2, SyncedKept
      <4>4. \A s : Agrees(s) => /\ DistinctIds(s, blurred')
                                /\ \A v : v.id \notin blurred' =>
                                     (v \in Rows(s) <=> v \in Rows(garage'))
        BY <3>1 DEF Agrees, DistinctIds
      <4>5. \A c \in Call : Agrees(wire[c].answer) => Agrees(wire[c].answer)'
        BY <2>1, <4>4 DEF Agrees
      <4>6. Calls("vehicles") \subseteq Call
        BY DEF Calls
      <4>7. QED
        BY <2>1, <4>1, <4>2, <4>3, <4>5, <4>6 DEF InStep
    <3>3. QED
      BY <1>1, <1>2, <1>3, <2>1, <2>2, <3>1, <3>2
  <2>3. ASSUME NEW n \in NewIds, NEW p \in Plate,
               garage' = Append(garage, [id |-> n, plate |-> p]), blurred' = blurred \cup {n}
        PROVE  ProfileInv'
    <3>1. n \in Nat /\ \A v \in Rows(garage) : v.id # n
      <4>1. \A v \in Rows(garage) : v \in Vehicle
        BY <1>1 DEF Rows
      <4>2. QED
        BY <4>1, ProfileAssumption DEF NewIds, Vehicle
    <3> DEFINE row == [id |-> n, plate |-> p]
    <3>2. row \in Vehicle /\ row.id = n
      BY <3>1 DEF Vehicle
    <3>3. garage' = Append(garage, row)
      BY <2>3
    <3> HIDE DEF row
    <3>4. garage' \in Seq(Vehicle) /\ Rows(garage') = Rows(garage) \cup {row}
          /\ DistinctIds(garage', {})
      BY <1>1, <3>1, <3>2, <3>3, AppendRows
    <3>5. QED
      BY <2>2, <2>3, <3>1, <3>2, <3>4
  <2>4. ASSUME NEW v \in Rows(garage), garage' = Without(garage, v.id),
               blurred' = blurred \cup {v.id}
        PROVE  ProfileInv'
    <3>1. v.id \in Nat
      <4>1. v \in Vehicle
        BY <1>1, <2>4 DEF Rows
      <4>2. QED
        BY <4>1 DEF Vehicle
    <3>2. /\ garage' \in Seq(Vehicle)
          /\ Rows(garage') = {w \in Rows(garage) : w.id # v.id}
          /\ DistinctIds(garage', {})
      BY <1>1, <2>4, WithoutRows
    <3>3. QED
      BY <2>2, <2>4, <3>1, <3>2
  <2>5. QED
    BY <1>24, <2>3, <2>4 DEF GarageChangesElsewhere
<1>25. QED
    BY <1>11, <1>12, <1>13, <1>14, <1>15, <1>16, <1>18, <1>19, <1>20, <1>21, <1>22, <1>23, <1>24
    DEF ProfileNext, ProfileAnswer, ProfileServe

LEMMA ProfileInvNext ==
    ASSUME ClientInv, ProfileInv, [Next]_vars
    PROVE  ProfileInv'
<1>1. CASE ProfileNext /\ Others("profile")
    BY <1>1, ProfileInvStep
<1>2. CASE ~(ProfileNext /\ Others("profile"))
  <2>1. UNCHANGED <<profileVars, page>>
    BY <1>2 DEF Next, Others, vars
  <2>2. page # "profile" \/ UNCHANGED <<wire, mounted>>
    BY <1>2 DEF Next, Others, vars, clientVars
  <2>3. /\ ProfileTypeOK' /\ DistinctIds(garage, {})'
        /\ UNCHANGED <<garage, blurred, vehicles, early, inDoubt, page>>
    BY <2>1 DEF ProfileInv, ProfileTypeOK, profileVars, DistinctIds
  <2>4. CASE page # "profile"
    BY <2>3, <2>4 DEF ProfileInv
  <2>5. CASE UNCHANGED <<wire, mounted>>
    <3>1. InStep => InStep'
      BY <2>3, <2>5
      DEF InStep, Synced, Agrees, DistinctIds, Rows, Differs, AddedIsNew, OwnId, Adds, Deletes,
          Calls, Answered
    <3>2. QED
      BY <2>3, <2>5, <3>1 DEF ProfileInv
  <2>6. QED
    BY <2>2, <2>4, <2>5
<1>3. QED
    BY <1>1, <1>2

LEMMA ShownAreHeld ==
    ASSUME ClientInv, ProfileInv
    PROVE  VehiclesShownAreHeld
<1>1. SUFFICES ASSUME mounted, Quiet, ~early, ~inDoubt
               PROVE  Sure(vehicles) = Sure(garage) /\ DistinctIds(vehicles, blurred)
    BY DEF VehiclesShownAreHeld
<1>2. CASE page # "profile"
    BY <1>2 DEF ProfileInv, DistinctIds
<1>3. CASE page = "profile"
  <2>1. InStep
    BY <1>1, <1>3 DEF ProfileInv
  <2>2. \A c \in Call : wire[c].op # "vehicles" /\ wire[c].state # "answered"
    BY <1>1 DEF ClientInv, WireOK, IsMessage, Writes, Quiet
  <2>3. Calls("vehicles") = {} /\ Adds = {} /\ Deletes = {}
    BY <2>2 DEF Calls, Adds, Deletes
  <2>4. Synced
    BY <2>1, <2>3 DEF InStep
  <2>5. \A v : v.id \notin blurred => (v \in Rows(garage) <=> v \in Rows(vehicles))
    BY <2>3, <2>4 DEF Synced, Differs
  <2>6. QED
    BY <2>4, <2>5 DEF Synced, Sure
<1>4. QED
    BY <1>2, <1>3

-----------------------------------------------------------------------------
(* The dialogs of the dashboard *)

Dialog == [kind : {"none", "instant", "prebook"}, slot : Slot \cup {None}, no : Nat,
           busy : BOOLEAN, plate : BOOLEAN]

(* A booking the page waits for; arg is the dialog it was confirmed in. *)
Asks(m) == m.op \in {"book", "prebook"} /\ m.heard

(* Every dialog has a number of its own and a booking carries the number   *)
(* of its dialog: a busy dialog has a booking of that number under way,    *)
(* and as long as no busy dialog was closed there is no other booking.     *)
DialogInv ==
    /\ ClientInv
    /\ dialogs \in Nat
    /\ bookingMode \in {"instant", "prebook"}
    /\ abandoned \in BOOLEAN
    /\ dialog \in Dialog /\ dialog.no <= dialogs
    /\ dialog = NoDialog \/ (dialog.kind # "none" /\ dialog.no # 0)
    /\ page # "dashboard" => dialog = NoDialog
    /\ page = "dashboard" =>
         /\ \A c \in Call : wire[c].op \in {"idle", "all", "book", "prebook"}
         /\ ~mounted => dialog = NoDialog /\ \A c \in Call : ~wire[c].heard
    /\ page = "dashboard" =>
         \A c \in Call : Asks(wire[c]) =>
            /\ wire[c].arg.no \in 1 .. dialogs
            /\ wire[c].arg.no = dialog.no => wire[c].arg.kind = dialog.kind
    /\ page = "dashboard" =>
         (dialog.busy => \E c \in Call : Asks(wire[c]) /\ wire[c].arg.no = dialog.no)
    /\ page = "dashboard" =>
         (~abandoned =>
            /\ \A c, d \in Call : Asks(wire[c]) /\ Asks(wire[d]) => c = d
            /\ \A c \in Call : Asks(wire[c]) => dialog.busy /\ wire[c].arg.no = dialog.no)

LEMMA NoDialogIsDialog ==
    NoDialog \in Dialog /\ NoDialog.no = 0 /\ NoDialog.busy = FALSE /\ NoDialog.kind = "none"
BY DEF NoDialog, Dialog

LEMMA DialogInvInit ==
    ASSUME Init
    PROVE  DialogInv
<1>1. ClientInv /\ \A c \in Call : wire[c].op = "idle" /\ ~wire[c].heard
    BY WireInit, IdleIsMessage
<1>2. /\ dialog = NoDialog /\ dialogs = 0 /\ bookingMode = "instant" /\ abandoned = FALSE
    BY DEF Init, DashboardInit
<1>3. dialog \in Dialog /\ dialog.no <= dialogs /\ ~dialog.busy
    BY <1>2, NoDialogIsDialog
<1>4. QED
    BY <1>1, <1>2, <1>3 DEF DialogInv, Asks

(* Steps that neither touch a dialog nor a booking the page waits for *)
LEMMA DialogKept ==
    ASSUME DialogInv, page = "dashboard", page' = page, ClientInv',
           UNCHANGED <<dialog, dialogs, abandoned>>,
           bookingMode' \in {"instant", "prebook"},
           mounted \/ UNCHANGED mounted \/ mounted',
           ~mounted' => ~mounted /\ \A c \in Call : ~wire'[c].heard,
           \A c \in Call : wire'[c].op \in {"idle", "all", "book", "prebook"},
           \A c \in Call : Asks(wire'[c]) <=> Asks(wire[c]),
           \A c \in Call : Asks(wire[c]) => wire'[c].arg = wire[c].arg
    PROVE  DialogInv'
BY DEF DialogInv

LEMMA DialogInvStep ==
    ASSUME DialogInv, DashboardNext, Others("dashboard")
    PROVE  DialogInv'
<1>1. /\ page = "dashboard" /\ page' = page
      /\ ClientInv' /\ WireOK /\ WireOK'
    BY DashboardClient DEF DialogInv, ClientInv, Others
<1>2. /\ dialogs \in Nat /\ bookingMode \in {"instant", "prebook"} /\ abandoned \in BOOLEAN
      /\ dialog \in Dialog /\ dialog.no <= dialogs
      /\ dialog = NoDialog \/ (dialog.kind # "none" /\ dialog.no # 0)
    BY <1>1 DEF DialogInv
<1>3. /\ \A c \in Call : wire[c].op \in {"idle", "all", "book", "prebook"}
      /\ ~mounted => dialog = NoDialog /\ \A c \in Call : ~wire[c].heard
    BY <1>1 DEF DialogInv
<1>4. \A c \in Call : Asks(wire[c]) =>
         /\ wire[c].arg.no \in 1 .. dialogs
         /\ wire[c].arg.no = dialog.no => wire[c].arg.kind = dialog.kind
    BY <1>1 DEF DialogInv
<1>5. dialog.busy => \E c \in Call : Asks(wire[c]) /\ wire[c].arg.no = dialog.no
    BY <1>1 DEF DialogInv
<1>6. ~abandoned =>
         /\ \A c, d \in Call : Asks(wire[c]) /\ Asks(wire[d]) => c = d
         /\ \A c \in Call : Asks(wire[c]) => dialog.busy /\ wire[c].arg.no = dialog.no
    BY <1>1 DEF DialogInv
<1>7. \A c \in Call : wire[c].state \in {"answered", "refused"} => wire[c].heard
    BY <1>1 DEF WireOK, IsMessage
<1>8. ASSUME OpenDashboard PROVE DialogInv'
  <2>1. /\ ~mounted /\ mounted' /\ UNCHANGED dashboardVars
        /\ Room /\ SendAll(Fresh, "all", Parts)
    BY <1>8 DEF OpenDashboard, Poll
  <2>2. /\ Fresh \in Call /\ wire[Fresh].op = "idle" /\ wire'[Fresh] = Requests("all", Parts)
        /\ \A d \in Call \ {Fresh} : wire'[d] = wire[d]
    BY <1>1, <2>1, SendAllFreshEffect
  <2>3. wire'[Fresh].op = "all"
    BY <2>2 DEF Requests
  <2>4. QED
    BY <1>1, <1>2, <1>3, <2>1, <2>2, <2>3, DialogKept DEF Asks, dashboardVars
<1>9. ASSUME LeaveDashboard PROVE DialogInv'
  <2>1. /\ Unmount /\ mounted' = FALSE /\ dialog' = NoDialog /\ dialogs' = 0
        /\ bookingMode' = "instant" /\ abandoned' = FALSE
    BY <1>9 DEF LeaveDashboard, Unmount
  <2>2. \A c \in Call : /\ ~wire'[c].heard
                        /\ wire'[c].op = "idle" \/ wire'[c].op = wire[c].op
    BY <1>1, <2>1, UnmountEffect
  <2>3. dialog' \in Dialog /\ dialog'.no <= dialogs' /\ ~dialog'.busy
    BY <2>1, NoDialogIsDialog
  <2>4. \A c \in Call : ~Asks(wire'[c]) /\ wire'[c].op \in {"idle", "all", "book", "prebook"}
    BY <1>3, <2>2 DEF Asks
  <2>5. QED
    BY <1>1, <2>1, <2>2, <2>3, <2>4 DEF DialogInv
<1>10. ASSUME usePolling PROVE DialogInv'
  <2>1. /\ mounted /\ UNCHANGED <<mounted, dialog, dialogs, bookingMode, abandoned>>
        /\ Room /\ SendAll(Fresh, "all", Parts)
    BY <1>10 DEF usePolling, Poll
  <2>2. /\ Fresh \in Call /\ wire[Fresh].op = "idle" /\ wire'[Fresh] = Requests("all", Parts)
        /\ \A d \in Call \ {Fresh} : wire'[d] = wire[d]
    BY <1>1, <2>1, SendAllFreshEffect
  <2>3. wire'[Fresh].op = "all"
    BY <2>2 DEF Requests
  <2>4. QED
    BY <1>1, <1>2, <1>3, <2>1, <2>2, <2>3, DialogKept DEF Asks
<1>11. ASSUME NEW mode \in {"instant", "prebook"}, setBookingMode(mode) \/ LotChanges
       PROVE  DialogInv'
  <2>1. /\ UNCHANGED <<wire, mounted, dialog, dialogs, abandoned>>
        /\ bookingMode' \in {"instant", "prebook"}
    BY <1>2, <1>11 DEF setBookingMode, LotChanges, dashboardView
  <2>2. QED
    BY <1>1, <1>3, <2>1, DialogKept
<1>12. ASSUME onClose PROVE DialogInv'
  <2>1. /\ mounted /\ UNCHANGED <<wire, mounted, bookingMode, dialogs>>
        /\ dialog' = NoDialog /\ abandoned' = (abandoned \/ dialog.busy)
    BY <1>12 DEF onClose
  <2>2. abandoned' \in BOOLEAN
    BY <1>2, <2>1 DEF Dialog
  <2>3. ~abandoned' => \A c \in Call : ~Asks(wire'[c])
    BY <1>6, <2>1
  <2>4. QED
    BY <1>1, <1>2, <1>3, <1>4, <2>1, <2>2, <2>3, NoDialogIsDialog DEF DialogInv
<1>13. ASSUME NEW s \in Slot, onBook(s) PROVE DialogInv'
  <2>1. /\ mounted /\ dialog = NoDialog
        /\ UNCHANGED <<wire, mounted, bookingMode, abandoned>>
        /\ dialogs' = dialogs + 1
        /\ dialog' = [kind |-> bookingMode, slot |-> s, no |-> dialogs + 1,
                      busy |-> FALSE, plate |-> FALSE]
    BY <1>13 DEF onBook, Clickable
  <2>2. /\ dialog' \in Dialog /\ dialog'.no = dialogs + 1 /\ dialog'.busy = FALSE
        /\ dialog'.kind # "none" /\ dialog'.no # 0
    BY <1>2, <2>1 DEF Dialog
  <2>3. ~abandoned' => \A c \in Call : ~Asks(wire'[c])
    BY <1>6, <2>1, NoDialogIsDialog
  <2>4. \A c \in Call : Asks(wire'[c]) => wire'[c].arg.no \in 1 .. dialogs' /\ wire'[c].arg.no # dialog'.no
    BY <1>2, <1>4, <2>1, <2>2
  <2>5. QED
    BY <1>1, <1>2, <1>3, <2>1, <2>2, <2>3, <2>4 DEF DialogInv
<1>14. ASSUME setPlate PROVE DialogInv'
  <2>1. /\ mounted /\ dialog.kind = "instant"
        /\ UNCHANGED <<wire, mounted, bookingMode, abandoned, dialogs>>
        /\ dialog' = [dialog EXCEPT !.plate = TRUE]
    BY <1>14 DEF setPlate
  <2>2. /\ dialog' \in Dialog /\ dialog'.no = dialog.no /\ dialog'.busy = dialog.busy
        /\ dialog'.kind = dialog.kind
    BY <1>2, <2>1 DEF Dialog
  <2>3. dialog.kind # "none" /\ dialog.no # 0
    BY <1>2, <2>1, NoDialogIsDialog
  <2>4. \A c \in Call : Asks(wire'[c]) =>
            /\ wire'[c].arg.no \in 1 .. dialogs'
            /\ wire'[c].arg.no = dialog'.no => wire'[c].arg.kind = dialog'.kind
    BY <1>4, <2>1, <2>2
  <2>5. dialog'.busy => \E c \in Call : Asks(wire'[c]) /\ wire'[c].arg.no = dialog'.no
    BY <1>5, <2>1, <2>2
  <2>6. ~abandoned' =>
            /\ \A c, d \in Call : Asks(wire'[c]) /\ Asks(wire'[d]) => c = d
            /\ \A c \in Call : Asks(wire'[c]) => dialog'.busy /\ wire'[c].arg.no = dialog'.no
    BY <1>6, <2>1, <2>2
  <2>7. QED
    BY <1>1, <1>2, <1>3, <2>1, <2>2, <2>3, <2>4, <2>5, <2>6 DEF DialogInv
<1>15. ASSUME NEW op \in {"book", "prebook"}, mounted, dialog.kind # "none", ~dialog.busy,
              Send(op, dialog), dialog' = [dialog EXCEPT !.busy = TRUE],
              UNCHANGED <<mounted, bookingMode, dialogs, abandoned>>
       PROVE  DialogInv'
  <2>1. /\ Fresh \in Call /\ wire[Fresh].op = "idle" /\ wire'[Fresh] = Request(op, dialog)
        /\ \A d \in Call \ {Fresh} : wire'[d] = wire[d]
    BY <1>1, <1>15, SendEffect
  <2>2. wire'[Fresh].op = op /\ wire'[Fresh].arg = dialog /\ wire'[Fresh].heard = TRUE
    BY <2>1 DEF Request
  <2>3. /\ dialog' \in Dialog /\ dialog'.no = dialog.no /\ dialog'.busy = TRUE
        /\ dialog'.kind = dialog.kind
    BY <1>2, <1>15 DEF Dialog
  <2>4. dialog.no \in 1 .. dialogs
    BY <1>2, <1>15, NoDialogIsDialog DEF Dialog
  <2>5. ~abandoned' => \A c \in Call : Asks(wire'[c]) => c = Fresh
    BY <1>6, <1>15, <2>1
  <2>6. Asks(wire'[Fresh])
    BY <1>15, <2>2 DEF Asks
  <2>7. \A c \in Call : wire'[c].op \in {"idle", "all", "book", "prebook"}
    BY <1>3, <2>1, <2>2
  <2>8. \A c \in Call : Asks(wire'[c]) =>
            /\ wire'[c].arg.no \in 1 .. dialogs'
            /\ wire'[c].arg.no = dialog'.no => wire'[c].arg.kind = dialog'.kind
    BY <1>4, <1>15, <2>1, <2>2, <2>3, <2>4
  <2>9. QED
    BY <1>1, <1>2, <1>15, <2>1, <2>2, <2>3, <2>4, <2>5, <2>6, <2>7, <2>8 DEF DialogInv
<1>16. ASSUME handleBook PROVE DialogInv'
    BY <1>15, <1>16 DEF handleBook
<1>17. ASSUME NEW startTime, NEW endTime, handleSubmit(startTime, endTime) PROVE DialogInv'
    BY <1>15, <1>17 DEF handleSubmit
<1>18. ASSUME NEW c \in Call, fetchAll(c) PROVE DialogInv'
  <2>1. /\ UNCHANGED <<mounted, dialog, dialogs, bookingMode, abandoned>>
        /\ wire[c].op = "all" /\ Take(c)
    BY <1>18 DEF fetchAll, Settled
  <2>2. /\ wire'[c].op = "idle" /\ ~wire'[c].heard
        /\ \A d \in Call \ {c} : wire'[d] = wire[d]
    BY <1>1, <2>1, TakeEffect
  <2>3. QED
    BY <1>1, <1>2, <1>3, <2>1, <2>2, DialogKept DEF Asks
<1>19. ASSUME NEW c \in Call, Booked(c) PROVE DialogInv'
  <2>1. /\ UNCHANGED <<mounted, dialogs, bookingMode, abandoned>>
        /\ Asks(wire[c])
        /\ dialog' = IF dialog.kind = wire[c].arg.kind THEN NoDialog ELSE dialog
    BY <1>7, <1>19 DEF Booked, Answered, Asks
  <2>2. /\ wire'[c].op \in {"idle", "all"}
        /\ \A d \in Call \ {c} : wire'[d] = wire[d]
    <3>1. CASE wire[c].op = "book"
      <4>1. SendAll(c, "all", Parts)
        BY <1>19, <3>1 DEF Booked, Poll
      <4>2. wire'[c] = Requests("all", Parts) /\ \A d \in Call \ {c} : wire'[d] = wire[d]
        BY <1>1, <4>1, SendAllEffect
      <4>3. QED
        BY <4>2 DEF Requests
    <3>2. CASE wire[c].op # "book"
      BY <1>1, <1>19, <3>2, TakeEffect DEF Booked
    <3>3. QED
      BY <3>1, <3>2
  <2>3. mounted
    BY <1>3, <2>1 DEF Asks
  <2>4. ~Asks(wire'[c]) /\ \A d \in Call : Asks(wire'[d]) => d # c /\ wire'[d] = wire[d]
    BY <2>2 DEF Asks
  <2>5. \A d \in Call : wire'[d].op \in {"idle", "all", "book", "prebook"}
    BY <1>3, <2>2
  <2>6. CASE dialog.kind = wire[c].arg.kind
    <3>1. dialog' = NoDialog
      BY <2>1, <2>6
    <3>2. ~abandoned' => \A d \in Call : ~Asks(wire'[d])
      BY <1>6, <2>1, <2>4
    <3>3. \A d \in Call : Asks(wire'[d]) => wire'[d].arg.no \in 1 .. dialogs'
      BY <1>4, <2>1, <2>4
    <3>4. QED
      BY <1>1, <1>2, <2>1, <2>3, <2>5, <3>1, <3>2, <3>3, NoDialogIsDialog DEF DialogInv
  <2>7. CASE dialog.kind # wire[c].arg.kind
    <3>1. dialog' = dialog /\ wire[c].arg.no # dialog.no
      BY <1>4, <2>1, <2>7
    <3>2. dialog'.busy => \E d \in Call : Asks(wire'[d]) /\ wire'[d].arg.no = dialog'.no
      BY <1>5, <2>2, <3>1
    <3>3. ~abandoned' => \A d \in Call : ~Asks(wire'[d])
      BY <1>6, <2>1, <2>4
    <3>4. \A d \in Call : Asks(wire'[d]) =>
             /\ wire'[d].arg.no \in 1 .. dialogs'
             /\ wire'[d].arg.no = dialog'.no => wire'[d].arg.kind = dialog'.kind
      BY <1>4, <2>1, <2>4, <3>1
    <3>5. QED
      BY <1>1, <1>2, <2>1, <2>3, <2>5, <3>1, <3>2, <3>3, <3>4 DEF DialogInv
  <2>8. QED
    BY <2>6, <2>7
<1>20. ASSUME NEW c \in Call, BookFailed(c) PROVE DialogInv'
  <2>1. /\ UNCHANGED <<mounted, dialogs, bookingMode, abandoned>>
        /\ Asks(wire[c])
        /\ dialog' = IF dialog.no = wire[c].arg.no THEN [dialog EXCEPT !.busy = FALSE] ELSE dialog
    BY <1>20 DEF BookFailed, Rejected, Asks
  <2>2. /\ ~wire'[c].heard
        /\ wire'[c].op \in {"idle", "book", "prebook"}
        /\ \A d \in Call \ {c} : wire'[d] = wire[d]
    BY <1>1, <1>20, RejectedEffect DEF BookFailed
  <2>3. mounted
    BY <1>3, <2>1 DEF Asks
  <2>4. ~Asks(wire'[c]) /\ \A d \in Call : Asks(wire'[d]) => d # c /\ wire'[d] = wire[d]
    BY <2>2 DEF Asks
  <2>5. \A d \in Call : wire'[d].op \in {"idle", "all", "book", "prebook"}
    BY <1>3, <2>2
  <2>6. ~abandoned' => \A d \in Call : ~Asks(wire'[d])
    BY <1>6, <2>1, <2>4
  <2>7. /\ dialog' \in Dialog /\ dialog'.no = dialog.no /\ dialog'.kind = dialog.kind
        /\ dialog'.busy => dialog.busy /\ dialog.no # wire[c].arg.no
    BY <1>2, <2>1 DEF Dialog
  <2>8. dialog'.busy => \E d \in Call : Asks(wire'[d]) /\ wire'[d].arg.no = dialog'.no
    BY <1>5, <2>2, <2>7
  <2>9. \A d \in Call : Asks(wire'[d]) =>
             /\ wire'[d].arg.no \in 1 .. dialogs'
             /\ wire'[d].arg.no = dialog'.no => wire'[d].arg.kind = dialog'.kind
    BY <1>4, <2>1, <2>4, <2>7
  <2>10. dialog' = NoDialog \/ (dialog'.kind # "none" /\ dialog'.no # 0)
    BY <1>2, <1>4, <2>1, <2>7, NoDialogIsDialog
  <2>11. QED
    BY <1>1, <1>2, <2>1, <2>3, <2>5, <2>6, <2>7, <2>8, <2>9, <2>10 DEF DialogInv
<1>21. ASSUME NEW c \in Call, ServeBook(c) \/ ServePreBook(c) PROVE DialogInv'
  <2>1. /\ UNCHANGED <<mounted, dialog, dialogs, bookingMode, abandoned>>
        /\ wire[c].op \in {"book", "prebook"}
        /\ \E state \in {"answered", "refused"} : Reply(c, state, None)
    BY <1>21 DEF ServeBook, ServePreBook, Sent, dashboardVars, dashboardView
  <2>2. /\ \A d \in Call \ {c} : wire'[d] = wire[d]
        /\ wire[c].heard => wire'[c].op = wire[c].op
        /\ \/ wire'[c].op = "idle" /\ ~wire'[c].heard
           \/ /\ wire[c].heard /\ wire'[c].heard = TRUE
              /\ wire'[c].op = wire[c].op /\ wire'[c].arg = wire[c].arg
    BY <1>1, <2>1, ReplyEffect
  <2>3. ~mounted => \A d \in Call : ~wire'[d].heard
    BY <1>3, <2>2
  <2>4. QED
    BY <1>1, <1>2, <1>3, <2>1, <2>2, <2>3, DialogKept DEF Asks
<1>22. ASSUME NEW c \in Call, NEW p \in Parts, ServePart(c, p) \/ FailPart(c, p)
       PROVE  DialogInv'
  <2>1. /\ UNCHANGED <<mounted, dialog, dialogs, bookingMode, abandoned>>
        /\ Fulfil(c, "all", p, Now(p)) \/ Drop(c, "all", p)
    BY <1>22 DEF ServePart, FailPart, dashboardVars
  <2>2. /\ wire[c].op = "all" /\ wire'[c].op = "all" /\ wire'[c].heard = wire[c].heard
        /\ \A d \in Call \ {c} : wire'[d] = wire[d]
    BY <1>1, <2>1, FulfilEffect, DropEffect
  <2>3. QED
    BY <1>1, <1>2, <1>3, <2>1, <2>2, DialogKept DEF Asks
<1>23. QED
    BY <1>8, <1>9, <1>10, <1>11, <1>12, <1>13, <1>14, <1>16, <1>17, <1>18, <1>19, <1>20,
       <1>21, <1>22
    DEF DashboardNext, DashboardAnswer, DashboardServe

LEMMA DialogInvNext ==
    ASSUME DialogInv, [Next]_vars
    PROVE  DialogInv'
<1>1. CASE DashboardNext /\ Others("dashboard")
    BY <1>1, DialogInvStep
<1>2. CASE ~(DashboardNext /\ Others("dashboard"))
  <2>1. ClientInv' /\ UNCHANGED <<dashboardVars, page>>
    BY <1>2, ClientNext DEF DialogInv, Next, Others, vars
  <2>2. page # "dashboard" \/ UNCHANGED <<wire, mounted>>
    BY <1>2 DEF Next, Others, vars, clientVars
  <2>3. QED
    BY <2>1, <2>2 DEF DialogInv, dashboardVars
<1>3. QED
    BY <1>1, <1>2

(* A dialog never says "Booking" for nothing: the request whose answer     *)
(* enables its button again or closes it is under way (BookingModal.jsx    *)
(* handleBook, PreBookModal.jsx handleSubmit).                             *)
THEOREM BusyDialogCorrect == Spec => []BusyDialogHasRequest
<1>1. Init => DialogInv
    BY DialogInvInit
<1>2. DialogInv /\ [Next]_vars => DialogInv'
    BY DialogInvNext
<1>3. DialogInv => BusyDialogHasRequest
    BY NoDialogIsDialog DEF DialogInv, BusyDialogHasRequest, Asks
<1>4. QED
    BY <1>1, <1>2, <1>3, PTL DEF Spec

OwnAnswer ==
    abandoned \/ \A c \in Call :
        (Answered(c, "book") \/ Answered(c, "prebook")) /\ wire'[c] # wire[c]
            /\ dialog # NoDialog /\ dialog' = NoDialog /\ mounted'
               => wire[c].arg.no = dialog.no

LEMMA OwnAnswerStep ==
    ASSUME DialogInv, [Next]_vars
    PROVE  [OwnAnswer]_dialog
<1>1. CASE UNCHANGED dialog
    BY <1>1
<1>2. CASE ~UNCHANGED dialog
  <2>1. page = "dashboard"
    BY <1>2 DEF Next, Others, vars, dashboardVars
  <2>2. \A c \in Call : Answered(c, "book") \/ Answered(c, "prebook") => Asks(wire[c])
    BY DEF DialogInv, ClientInv, WireOK, IsMessage, Answered, Asks
  <2>3. ~abandoned => \A c \in Call : Asks(wire[c]) => wire[c].arg.no = dialog.no
    BY <2>1 DEF DialogInv
  <2>4. OwnAnswer
    BY <2>2, <2>3 DEF OwnAnswer
  <2>5. QED
    BY <2>4
<1>3. QED
    BY <1>1, <1>2

(* The dashboard's dialog is closed by the answer to its own booking, as   *)
(* long as no dialog was closed while it was booking (Dashboard.jsx        *)
(* onSuccess).                                                             *)
THEOREM OwnAnswerCorrect == Spec => ClosedByItsOwnAnswer
<1>1. Init => DialogInv
    BY DialogInvInit
<1>2. DialogInv /\ [Next]_vars => DialogInv' /\ [OwnAnswer]_dialog
    BY DialogInvNext, OwnAnswerStep
<1>3. ClosedByItsOwnAnswer <=> [][OwnAnswer]_dialog
    BY DEF ClosedByItsOwnAnswer, OwnAnswer
<1>4. QED
    BY <1>1, <1>2, <1>3, PTL DEF Spec

-----------------------------------------------------------------------------
(* The polls of the dashboard *)

Polls(m) == m.op = "all"

(* An account on its way was read when it was not yet newer than it is     *)
(* now; as long as no two polls were under way at once it is not older     *)
(* than the one shown.                                                     *)
PollInv ==
    /\ account \in Nat /\ ReadUpTo(mine, account) /\ crowded \in BOOLEAN
    /\ page = "dashboard" =>
         \A c \in Call : Polls(wire[c]) =>
            /\ wire[c].heard
            /\ DOMAIN wire[c].answer = Parts
            /\ ReadUpTo(wire[c].answer["account"], account)
    /\ page = "dashboard" =>
         (~crowded =>
            /\ \A c, d \in Call : Polls(wire[c]) /\ Polls(wire[d]) => c = d
            /\ \A c \in Call : Polls(wire[c]) =>
                  \/ wire[c].answer["account"] = None
                  \/ mine = None
                  \/ wire[c].answer["account"] >= mine)

LEMMA PollInvInit ==
    ASSUME Init
    PROVE  PollInv
<1>1. \A c \in Call : wire[c].op = "idle"
    BY WireInit, IdleIsMessage
<1>2. account = 0 /\ mine = None /\ crowded = FALSE
    BY DEF Init, DashboardInit
<1>3. QED
    BY <1>1, <1>2 DEF PollInv, ReadUpTo, Polls

LEMMA PollsKept ==
    ASSUME PollInv, page' = page, mine' = mine, account' \in Nat, account' >= account,
           crowded' = crowded,
           \A c \in Call : Polls(wire'[c]) =>
              Polls(wire[c]) /\ wire'[c].heard = wire[c].heard /\ wire'[c].answer = wire[c].answer
    PROVE  PollInv'
BY DEF PollInv, ReadUpTo

LEMMA PollSent ==
    ASSUME PollInv, page = "dashboard", page' = page, mine' = mine, account' = account,
           NEW c \in Call, wire'[c] = Requests("all", Parts),
           \A d \in Call \ {c} : wire'[d] = wire[d],
           crowded' = (crowded \/ Awaits("all"))
    PROVE  PollInv'
<1>1. /\ Polls(wire'[c]) /\ wire'[c].heard /\ DOMAIN wire'[c].answer = Parts
      /\ wire'[c].answer["account"] = None
    BY DEF Requests, Parts, Polls
<1>2. ~crowded' => ~crowded /\ \A d \in Call : ~Polls(wire[d])
    BY DEF PollInv, Awaits, Polls
<1>3. crowded' \in BOOLEAN
    BY DEF PollInv, Awaits
<1>4. QED
    BY <1>1, <1>2, <1>3 DEF PollInv, ReadUpTo

LEMMA PollInvStep ==
    ASSUME DialogInv, PollInv, DashboardNext, Others("dashboard")
    PROVE  PollInv'
<1>1. page = "dashboard" /\ page' = page /\ WireOK
    BY DEF DialogInv, ClientInv, Others
<1>2. /\ account \in Nat /\ ReadUpTo(mine, account) /\ crowded \in BOOLEAN
      /\ \A c \in Call : Polls(wire[c]) =>
            /\ wire[c].heard
            /\ DOMAIN wire[c].answer = Parts
            /\ ReadUpTo(wire[c].answer["account"], account)
    BY <1>1 DEF PollInv
<1>3. ~crowded =>
         /\ \A c, d \in Call : Polls(wire[c]) /\ Polls(wire[d]) => c = d
         /\ \A c \in Call : Polls(wire[c]) =>
               \/ wire[c].answer["account"] = None
               \/ mine = None
               \/ wire[c].answer["account"] >= mine
    BY <1>1 DEF PollInv
<1>4. ~mounted => \A c \in Call : ~wire[c].heard
    BY <1>1 DEF DialogInv
<1>5. ASSUME OpenDashboard PROVE PollInv'
  <2>1. /\ ~mounted /\ UNCHANGED dashboardVars /\ Room /\ SendAll(Fresh, "all", Parts)
    BY <1>5 DEF OpenDashboard, Poll
  <2>2. /\ Fresh \in Call /\ wire'[Fresh] = Requests("all", Parts)
        /\ \A d \in Call \ {Fresh} : wire'[d] = wire[d]
    BY <1>1, <2>1, SendAllFreshEffect
  <2>3. /\ crowded' = (crowded \/ Awaits("all")) /\ mine' = mine /\ account' = account
    BY <1>2, <1>4, <2>1 DEF Awaits, dashboardVars
  <2>4. QED
    BY <1>1, <2>2, <2>3, PollSent
<1>6. ASSUME usePolling PROVE PollInv'
  <2>1. /\ UNCHANGED <<mine, account>> /\ Room /\ SendAll(Fresh, "all", Parts)
        /\ crowded' = (crowded \/ Awaits("all"))
    BY <1>6 DEF usePolling, Poll
  <2>2. /\ Fresh \in Call /\ wire'[Fresh] = Requests("all", Parts)
        /\ \A d \in Call \ {Fresh} : wire'[d] = wire[d]
    BY <1>1, <2>1, SendAllFreshEffect
  <2>3. QED
    BY <1>1, <2>1, <2>2, PollSent
<1>7. ASSUME LeaveDashboard PROVE PollInv'
  <2>1. Unmount /\ mine' = None /\ account' = account /\ crowded' = FALSE
    BY <1>7 DEF LeaveDashboard
  <2>2. \A c \in Call : ~Polls(wire'[c])
    BY <1>1, <2>1, UnmountEffect DEF Polls, Writes
  <2>3. QED
    BY <1>2, <2>1, <2>2 DEF PollInv, ReadUpTo
<1>8. ASSUME NEW c \in Call, fetchAll(c) PROVE PollInv'
  <2>1. /\ Polls(wire[c]) /\ UNCHANGED <<account, crowded>> /\ Take(c)
        /\ mine' = IF wire[c].answer["account"] = None THEN mine ELSE wire[c].answer["account"]
    BY <1>8 DEF fetchAll, Settled, Brought, Polls
  <2>2. wire'[c].op = "idle" /\ \A d \in Call \ {c} : wire'[d] = wire[d]
    BY <1>1, <2>1, TakeEffect
  <2>3. ReadUpTo(mine', account')
    BY <1>2, <2>1
  <2>4. ~crowded' => \A d \in Call : ~Polls(wire'[d])
    BY <1>3, <2>1, <2>2 DEF Polls
  <2>5. \A d \in Call : Polls(wire'[d]) => wire'[d] = wire[d]
    BY <2>2 DEF Polls
  <2>6. QED
    BY <1>1, <1>2, <2>1, <2>3, <2>4, <2>5 DEF PollInv
<1>9. ASSUME NEW c \in Call, Booked(c) PROVE PollInv'
  <2>1. UNCHANGED <<mine, account>>
    BY <1>9 DEF Booked
  <2>2. CASE wire[c].op = "book"
    <3>1. SendAll(c, "all", Parts) /\ crowded' = (crowded \/ Awaits("all"))
      BY <1>9, <2>2 DEF Booked, Poll
    <3>2. wire'[c] = Requests("all", Parts) /\ \A d \in Call \ {c} : wire'[d] = wire[d]
      BY <1>1, <3>1, SendAllEffect
    <3>3. QED
      BY <1>1, <2>1, <3>1, <3>2, PollSent
  <2>3. CASE wire[c].op # "book"
    <3>1. Take(c) /\ crowded' = crowded
      BY <1>9, <2>3 DEF Booked
    <3>2. wire'[c].op = "idle" /\ \A d \in Call \ {c} : wire'[d] = wire[d]
      BY <1>1, <3>1, TakeEffect
    <3>3. QED
      BY <1>1, <1>2, <2>1, <3>1, <3>2, PollsKept DEF Polls
  <2>4. QED
    BY <2>2, <2>3
<1>10. ASSUME NEW c \in Call, NEW p \in Parts, ServePart(c, p) PROVE PollInv'
  <2>1. UNCHANGED <<mine, account, crowded>>
    BY <1>10 DEF ServePart, dashboardVars
  <2>2. Fulfil(c, "all", p, Now(p))
    BY <1>10 DEF ServePart
  <2>3. /\ wire[c].op = "all" /\ wire'[c].op = "all" /\ wire'[c].heard = wire[c].heard
        /\ DOMAIN wire'[c].answer = DOMAIN wire[c].answer
        /\ \A q \in DOMAIN wire[c].answer :
              wire'[c].answer[q] = IF q = p THEN Now(p) ELSE wire[c].answer[q]
        /\ \A d \in Call \ {c} : wire'[d] = wire[d]
    BY <1>1, <2>2, FulfilEffect
  <2>4. /\ DOMAIN wire'[c].answer = Parts
        /\ \/ wire'[c].answer["account"] = wire[c].answer["account"]
           \/ wire'[c].answer["account"] = account
    BY <1>2, <2>3 DEF Parts, Now, Polls
  <2>5. \A d \in Call : Polls(wire'[d]) => Polls(wire[d]) /\ wire'[d].heard = wire[d].heard
    BY <2>3 DEF Polls
  <2>6. \A d \in Call : Polls(wire'[d]) =>
           /\ DOMAIN wire'[d].answer = Parts
           /\ ReadUpTo(wire'[d].answer["account"], account)
    <3>1. ReadUpTo(wire'[c].answer["account"], account)
      BY <1>2, <2>3, <2>4 DEF ReadUpTo, Polls
    <3>2. QED
      BY <1>2, <2>3, <2>4, <3>1
  <2>7. ~crowded => \A d \in Call : Polls(wire'[d]) =>
               \/ wire'[d].answer["account"] = None
               \/ mine = None
               \/ wire'[d].answer["account"] >= mine
    BY <1>2, <1>3, <2>3, <2>4 DEF ReadUpTo, Polls
  <2>8. QED
    BY <1>1, <1>2, <1>3, <2>1, <2>5, <2>6, <2>7 DEF PollInv
<1>11. ASSUME NEW c \in Call, NEW p \in Parts, FailPart(c, p) PROVE PollInv'
  <2>1. UNCHANGED <<mine, account, crowded>> /\ Drop(c, "all", p)
    BY <1>11 DEF FailPart, dashboardVars
  <2>2. /\ wire[c].op = "all" /\ wire'[c].heard = wire[c].heard
        /\ wire'[c].answer = wire[c].answer
        /\ \A d \in Call \ {c} : wire'[d] = wire[d]
    BY <1>1, <2>1, DropEffect
  <2>3. QED
    BY <1>1, <1>2, <2>1, <2>2, PollsKept DEF Polls
<1>12. ASSUME NEW c \in Call, BookFailed(c) PROVE PollInv'
  <2>1. UNCHANGED <<mine, account, crowded>>
    BY <1>12 DEF BookFailed
  <2>2. /\ wire'[c].op \in {"idle", "book", "prebook"}
        /\ \A d \in Call \ {c} : wire'[d] = wire[d]
    BY <1>1, <1>12, RejectedEffect DEF BookFailed
  <2>3. QED
    BY <1>1, <1>2, <2>1, <2>2, PollsKept DEF Polls
<1>13. ASSUME NEW c \in Call, ServeBook(c) \/ ServePreBook(c) PROVE PollInv'
  <2>1. /\ UNCHANGED <<mine, crowded>>
        /\ account' = account \/ account' = account + 1
        /\ wire[c].op \in {"book", "prebook"}
        /\ \E state \in {"answered", "refused"} : Reply(c, state, None)
    BY <1>13 DEF ServeBook, ServePreBook, Sent, dashboardVars, dashboardView
  <2>2. /\ wire'[c].op \in {"idle", "book", "prebook"}
        /\ \A d \in Call \ {c} : wire'[d] = wire[d]
    BY <1>1, <2>1, ReplyEffect
  <2>3. QED
    BY <1>1, <1>2, <2>1, <2>2, PollsKept DEF Polls
<1>14. ASSUME NEW op \in {"book", "prebook"}, Send(op, dialog), UNCHANGED <<mine, account, crowded>>
       PROVE  PollInv'
  <2>1. /\ Fresh \in Call /\ wire'[Fresh] = Request(op, dialog)
        /\ \A d \in Call \ {Fresh} : wire'[d] = wire[d]
    BY <1>1, <1>14, SendEffect
  <2>2. wire'[Fresh].op = op
    BY <2>1 DEF Request
  <2>3. QED
    BY <1>1, <1>2, <1>14, <2>1, <2>2, PollsKept DEF Polls
<1>15. ASSUME handleBook PROVE PollInv'
    BY <1>14, <1>15 DEF handleBook
<1>16. ASSUME NEW startTime, NEW endTime, handleSubmit(startTime, endTime) PROVE PollInv'
    BY <1>14, <1>16 DEF handleSubmit
<1>17. ASSUME NEW s \in Slot, onBook(s) PROVE PollInv'
  <2>1. UNCHANGED <<wire, mine, account, crowded>>
    BY <1>17 DEF onBook
  <2>2. QED
    BY <1>1, <1>2, <2>1, PollsKept
<1>18. ASSUME LotChanges PROVE PollInv'
  <2>1. UNCHANGED <<wire, mine, crowded>> /\ (account' = account \/ account' = account + 1)
    BY <1>18 DEF LotChanges, dashboardView
  <2>2. QED
    BY <1>1, <1>2, <2>1, PollsKept
<1>19. ASSUME onClose \/ setPlate PROVE PollInv'
  <2>1. UNCHANGED <<wire, mine, account, crowded>>
    BY <1>19 DEF onClose, setPlate
  <2>2. QED
    BY <1>1, <1>2, <2>1, PollsKept
<1>20. ASSUME NEW mode, setBookingMode(mode) PROVE PollInv'
  <2>1. UNCHANGED <<wire, mine, account, crowded>>
    BY <1>20 DEF setBookingMode
  <2>2. QED
    BY <1>1, <1>2, <2>1, PollsKept
<1>21. QED
    BY <1>5, <1>6, <1>7, <1>8, <1>9, <1>10, <1>11, <1>12, <1>13, <1>15, <1>16, <1>17,
       <1>18, <1>19, <1>20
    DEF DashboardNext, DashboardAnswer, DashboardServe

LEMMA PollInvNext ==
    ASSUME DialogInv, PollInv, [Next]_vars
    PROVE  PollInv'
<1>1. CASE DashboardNext /\ Others("dashboard")
    BY <1>1, PollInvStep
<1>2. CASE ~(DashboardNext /\ Others("dashboard"))
  <2>1. UNCHANGED <<dashboardVars, page>>
    BY <1>2 DEF Next, Others, vars
  <2>2. page # "dashboard" \/ UNCHANGED wire
    BY <1>2 DEF Next, Others, vars, clientVars
  <2>3. QED
    BY <2>1, <2>2 DEF PollInv, dashboardVars, ReadUpTo
<1>3. QED
    BY <1>1, <1>2

Forward == mine # None /\ mine' # None /\ ~crowded' => mine' >= mine

LEMMA ForwardStep ==
    ASSUME DialogInv, PollInv, [Next]_vars
    PROVE  [Forward]_<<mine, crowded>>
<1>1. CASE mine' = mine
    BY <1>1 DEF Forward, PollInv, ReadUpTo
<1>2. CASE mine' # mine
  <2>1. page = "dashboard" /\ DashboardNext
    BY <1>2 DEF Next, Others, vars, dashboardVars
  <2>2. LeaveDashboard \/ \E c \in Call : fetchAll(c)
    BY <1>2, <2>1
    DEF DashboardNext, DashboardAnswer, DashboardServe, OpenDashboard, usePolling, onClose,
        setBookingMode, onBook, setPlate, handleBook, handleSubmit, LotChanges, Booked,
        BookFailed, ServeBook, ServePreBook, ServePart, FailPart, dashboardVars, dashboardView
  <2>3. ASSUME LeaveDashboard PROVE Forward
    BY <2>3 DEF LeaveDashboard, Forward
  <2>4. ASSUME NEW c \in Call, fetchAll(c) PROVE Forward
    <3>1. /\ Polls(wire[c]) /\ crowded' = crowded
          /\ mine' = IF wire[c].answer["account"] = None THEN mine ELSE wire[c].answer["account"]
      BY <2>4 DEF fetchAll, Settled, Brought, Polls
    <3>2. QED
      BY <1>2, <2>1, <3>1 DEF PollInv, Forward
  <2>5. QED
    BY <2>2, <2>3, <2>4
<1>3. QED
    BY <1>1, <1>2

(* The balance and the session shown on the dashboard never go back to     *)
(* older ones, as long as no two polls were under way at once (Dashboard.  *)
(* jsx fetchAll, usePolling.js).                                           *)
THEOREM AccountForwardCorrect == Spec => AccountOnlyForward
<1>1. Init => DialogInv /\ PollInv
    BY DialogInvInit, PollInvInit
<1>2. DialogInv /\ PollInv /\ [Next]_vars => (DialogInv /\ PollInv)' /\ [Forward]_<<mine, crowded>>
    BY DialogInvNext, PollInvNext, ForwardStep
<1>3. AccountOnlyForward <=> [][Forward]_<<mine, crowded>>
    BY DEF AccountOnlyForward, Forward
<1>4. QED
    BY <1>1, <1>2, <1>3, PTL DEF Spec

-----------------------------------------------------------------------------
(* Types *)

SlotTable == [Slot -> SlotStatus]

(* The slots shown, and those on their way, are the whole table. *)
GridInv ==
    /\ slot \in SlotTable /\ slots \in SlotTable \cup {None}
    /\ page = "dashboard" =>
         \A c \in Call : Polls(wire[c]) => wire[c].answer["slots"] \in SlotTable \cup {None}

LEMMA GridInvInit ==
    ASSUME Init
    PROVE  GridInv
<1>1. \A c \in Call : wire[c].op = "idle"
    BY WireInit, IdleIsMessage
<1>2. slot \in [Slot -> {"available", "reserved"}] /\ slots = None
    BY DEF Init, DashboardInit
<1>3. slot \in SlotTable
    BY <1>2, DashboardAssumption DEF SlotTable
<1>4. QED
    BY <1>1, <1>2, <1>3 DEF GridInv, Polls

LEMMA GridKept ==
    ASSUME GridInv, page = "dashboard", page' = page,
           slot' \in SlotTable, slots' \in SlotTable \cup {None},
           \A c \in Call : Polls(wire'[c]) =>
              \/ Polls(wire[c]) /\ wire'[c].answer = wire[c].answer
              \/ wire'[c].answer["slots"] \in SlotTable \cup {None}
    PROVE  GridInv'
BY DEF GridInv

LEMMA GridPolled ==
    ASSUME GridInv, page = "dashboard", page' = page, UNCHANGED <<slot, slots>>,
           NEW c \in Call, wire'[c] = Requests("all", Parts),
           \A d \in Call \ {c} : wire'[d] = wire[d]
    PROVE  GridInv'
<1>1. wire'[c].answer["slots"] = None
    BY DEF Requests, Parts
<1>2. slot' \in SlotTable /\ slots' \in SlotTable \cup {None}
    BY DEF GridInv
<1>3. QED
    BY <1>1, <1>2, GridKept

LEMMA GridInvStep ==
    ASSUME DialogInv, PollInv, GridInv, DashboardNext, Others("dashboard")
    PROVE  GridInv'
<1>1. page = "dashboard" /\ page' = page /\ WireOK
    BY DEF DialogInv, ClientInv, Others
<1>2. /\ slot \in SlotTable /\ slots \in SlotTable \cup {None}
      /\ \A c \in Call : Polls(wire[c]) =>
            /\ DOMAIN wire[c].answer = Parts
            /\ wire[c].answer["slots"] \in SlotTable \cup {None}
    BY <1>1 DEF GridInv, PollInv
<1>3. ASSUME OpenDashboard \/ usePolling PROVE GridInv'
  <2>1. UNCHANGED <<slot, slots>> /\ Room /\ SendAll(Fresh, "all", Parts)
    BY <1>3 DEF OpenDashboard, usePolling, Poll, dashboardVars
  <2>2. QED
    BY <1>1, <2>1, SendAllFreshEffect, GridPolled
<1>4. ASSUME LeaveDashboard PROVE GridInv'
  <2>1. Unmount /\ slots' = None /\ slot' = slot
    BY <1>4 DEF LeaveDashboard
  <2>2. \A c \in Call : ~Polls(wire'[c])
    BY <1>1, <2>1, UnmountEffect DEF Polls, Writes
  <2>3. QED
    BY <1>1, <1>2, <2>1, <2>2, GridKept
<1>5. ASSUME NEW c \in Call, fetchAll(c) PROVE GridInv'
  <2>1. /\ Polls(wire[c]) /\ slot' = slot /\ Take(c)
        /\ slots' = IF wire[c].answer["slots"] = None THEN slots ELSE wire[c].answer["slots"]
    BY <1>5 DEF fetchAll, Settled, Brought, Polls
  <2>2. wire'[c].op = "idle" /\ \A d \in Call \ {c} : wire'[d] = wire[d]
    BY <1>1, <2>1, TakeEffect
  <2>3. slots' \in SlotTable \cup {None}
    BY <1>2, <2>1
  <2>4. QED
    BY <1>1, <1>2, <2>1, <2>2, <2>3, GridKept DEF Polls
<1>6. ASSUME NEW c \in Call, Booked(c) PROVE GridInv'
  <2>1. UNCHANGED <<slot, slots>>
    BY <1>6 DEF Booked
  <2>2. CASE wire[c].op = "book"
    <3>1. SendAll(c, "all", Parts)
      BY <1>6, <2>2 DEF Booked, Poll
    <3>2. QED
      BY <1>1, <2>1, <3>1, SendAllEffect, GridPolled
  <2>3. CASE wire[c].op # "book"
    <3>1. Take(c)
      BY <1>6, <2>3 DEF Booked
    <3>2. wire'[c].op = "idle" /\ \A d \in Call \ {c} : wire'[d] = wire[d]
      BY <1>1, <3>1, TakeEffect
    <3>3. QED
      BY <1>1, <1>2, <2>1, <3>2, GridKept DEF Polls
  <2>4. QED
    BY <2>2, <2>3
<1>7. ASSUME NEW c \in Call, NEW p \in Parts, ServePart(c, p) PROVE GridInv'
  <2>1. UNCHANGED <<slot, slots>>
    BY <1>7 DEF ServePart, dashboardVars
  <2>2. Fulfil(c, "all", p, Now(p))
    BY <1>7 DEF ServePart
  <2>3. /\ wire[c].op = "all" /\ DOMAIN wire'[c].answer = DOMAIN wire[c].answer
        /\ \A q \in DOMAIN wire[c].answer :
              wire'[c].answer[q] = IF q = p THEN Now(p) ELSE wire[c].answer[q]
        /\ \A d \in Call \ {c} : wire'[d] = wire[d]
    BY <1>1, <2>2, FulfilEffect
  <2>4. wire'[c].answer["slots"] \in SlotTable \cup {None}
    BY <1>2, <2>3 DEF Parts, Now, Polls
  <2>5. QED
    BY <1>1, <1>2, <2>1, <2>3, <2>4, GridKept
<1>8. ASSUME NEW c \in Call, NEW p \in Parts, FailPart(c, p) PROVE GridInv'
  <2>1. UNCHANGED <<slot, slots>> /\ Drop(c, "all", p)
    BY <1>8 DEF FailPart, dashboardVars
  <2>2. /\ wire[c].op = "all" /\ wire'[c].answer = wire[c].answer
        /\ \A d \in Call \ {c} : wire'[d] = wire[d]
    BY <1>1, <2>1, DropEffect
  <2>3. QED
    BY <1>1, <1>2, <2>1, <2>2, GridKept DEF Polls
<1>9. ASSUME NEW c \in Call, BookFailed(c) PROVE GridInv'
  <2>1. UNCHANGED <<slot, slots>>
    BY <1>9 DEF BookFailed
  <2>2. /\ wire'[c].op \in {"idle", "book", "prebook"}
        /\ \A d \in Call \ {c} : wire'[d] = wire[d]
    BY <1>1, <1>9, RejectedEffect DEF BookFailed
  <2>3. QED
    BY <1>1, <1>2, <2>1, <2>2, GridKept DEF Polls
<1>10. ASSUME NEW c \in Call, ServeBook(c) \/ ServePreBook(c) PROVE GridInv'
  <2>1. /\ slots' = slots
        /\ slot' = slot \/ slot' = [slot EXCEPT ![wire[c].arg.slot] = "reserved"]
        /\ wire[c].op \in {"book", "prebook"}
        /\ \E state \in {"answered", "refused"} : Reply(c, state, None)
    BY <1>10 DEF ServeBook, ServePreBook, Sent, dashboardVars, dashboardView
  <2>2. /\ wire'[c].op \in {"idle", "book", "prebook"}
        /\ \A d \in Call \ {c} : wire'[d] = wire[d]
    BY <1>1, <2>1, ReplyEffect
  <2>3. slot' \in SlotTable
    BY <1>2, <2>1, DashboardAssumption DEF SlotTable
  <2>4. QED
    BY <1>1, <1>2, <2>1, <2>2, <2>3, GridKept DEF Polls
<1>11. ASSUME NEW op \in {"book", "prebook"}, Send(op, dialog), UNCHANGED <<slot, slots>>
       PROVE  GridInv'
  <2>1. /\ Fresh \in Call /\ wire'[Fresh].op = op
        /\ \A d \in Call \ {Fresh} : wire'[d] = wire[d]
    BY <1>1, <1>11, SendEffect
  <2>2. QED
    BY <1>1, <1>2, <1>11, <2>1, GridKept DEF Polls
<1>12. ASSUME handleBook PROVE GridInv'
    BY <1>11, <1>12 DEF handleBook
<1>13. ASSUME NEW startTime, NEW endTime, handleSubmit(startTime, endTime) PROVE GridInv'
    BY <1>11, <1>13 DEF handleSubmit
<1>14. ASSUME NEW s, onBook(s) PROVE GridInv'
  <2>1. UNCHANGED <<wire, slot, slots>>
    BY <1>14 DEF onBook
  <2>2. QED
    BY <1>1, <1>2, <2>1, GridKept
<1>15. ASSUME LotChanges PROVE GridInv'
  <2>1. /\ UNCHANGED <<wire, slots>>
        /\ \/ slot' = slot
           \/ \E s \in Slot, new \in SlotStatus : slot' = [slot EXCEPT ![s] = new]
    BY <1>15 DEF LotChanges, dashboardView
  <2>2. slot' \in SlotTable
    BY <1>2, <2>1 DEF SlotTable
  <2>3. QED
    BY <1>1, <1>2, <2>1, <2>2, GridKept
<1>16. ASSUME NEW mode, onClose \/ setPlate \/ setBookingMode(mode) PROVE GridInv'
  <2>1. UNCHANGED <<wire, slot, slots>>
    BY <1>16 DEF onClose, setPlate, setBookingMode
  <2>2. QED
    BY <1>1, <1>2, <2>1, GridKept
<1>17. QED
    BY <1>3, <1>4, <1>5, <1>6, <1>7, <1>8, <1>9, <1>10, <1>12, <1>13, <1>14, <1>15, <1>16
    DEF DashboardNext, DashboardAnswer, DashboardServe

LEMMA GridInvNext ==
    ASSUME DialogInv, PollInv, GridInv, [Next]_vars
    PROVE  GridInv'
<1>1. CASE DashboardNext /\ Others("dashboard")
    BY <1>1, GridInvStep
<1>2. CASE ~(DashboardNext /\ Others("dashboard"))
  <2>1. UNCHANGED <<dashboardVars, page>>
    BY <1>2 DEF Next, Others, vars
  <2>2. page # "dashboard" \/ UNCHANGED wire
    BY <1>2 DEF Next, Others, vars, clientVars
  <2>3. QED
    BY <2>1, <2>2 DEF GridInv, dashboardVars, SlotTable
<1>3. QED
    BY <1>1, <1>2

LEMMA DashboardTyped ==
    ASSUME DialogInv, PollInv, GridInv
    PROVE  DashboardTypeOK
<1>1. account \in Nat /\ mine \in Nat \cup {None} /\ crowded \in BOOLEAN
    BY DEF PollInv, ReadUpTo
<1>2. dialog \in Dialog /\ dialogs \in Nat /\ bookingMode \in {"instant", "prebook"}
      /\ abandoned \in BOOLEAN
    BY DEF DialogInv
<1>3. slot \in SlotTable /\ slots \in SlotTable \cup {None}
    BY DEF GridInv
<1>4. QED
    BY <1>1, <1>2, <1>3 DEF DashboardTypeOK, Dialog, SlotTable

LEMMA ClientTyped ==
    ASSUME ClientInv
    PROVE  ClientTypeOK
BY DEF ClientInv, WireOK, IsMessage, ClientTypeOK

(* What every page of the user's web app relies on, whichever is open *)
PagesInv ==
    /\ page \in Page
    /\ ClientInv /\ BookingsInv
    /\ WalletInv /\ TopUpInv
    /\ ProfileInv
    /\ DialogInv /\ PollInv /\ GridInv

LEMMA PagesInvInit == Init => PagesInv
<1>1. Init => page \in Page
    BY DEF Init
<1>2. QED
    BY <1>1, WireInit, BookingsInvInit, WalletInvInit, TopUpInvInit, ProfileInvInit,
       DialogInvInit, PollInvInit, GridInvInit DEF PagesInv

LEMMA PagesInvNext == PagesInv /\ [Next]_vars => PagesInv'
<1>1. PagesInv /\ [Next]_vars => page' = page
    BY DEF Next, Others, vars
<1>2. QED
    BY <1>1, ClientNext, BookingsInvNext, WalletInvNext, TopUpInvNext, ProfileInvNext,
       DialogInvNext, PollInvNext, GridInvNext DEF PagesInv

LEMMA PagesAlways == Spec => []PagesInv
<1>1. Init => PagesInv
    BY PagesInvInit
<1>2. PagesInv /\ [Next]_vars => PagesInv'
    BY PagesInvNext
<1>3. QED
    BY <1>1, <1>2, PTL DEF Spec

(* Every state of the pages and of the requests they have under way is of  *)
(* the declared type (the states of the components in frontend/src/pages). *)
THEOREM TypeCorrect == Spec => []TypeOK
<1>1. PagesInv => TypeOK
  <2>1. PagesInv => page \in Page /\ ClientTypeOK /\ DashboardTypeOK
    BY ClientTyped, DashboardTyped DEF PagesInv
  <2>2. PagesInv => WalletTypeOK
    BY TopUpShown DEF PagesInv
  <2>3. PagesInv => BookingsTypeOK /\ ProfileTypeOK
    BY DEF PagesInv, BookingsInv, ProfileInv
  <2>4. QED
    BY <2>1, <2>2, <2>3 DEF TypeOK
<1>2. QED
    BY <1>1, PagesAlways, PTL

(* Once no answer is outstanding a page shows what the user did on it: the *)
(* pre-bookings reported cancelled, the top-ups and the vehicles added and *)
(* removed (MyBookings.jsx handleCancel, Wallet.jsx handleTopUp,           *)
(* Profile.jsx handleAddVehicle and handleDeleteVehicle), except where the *)
(* parts say: after the overlaps they name, and for vehicles changed in    *)
(* another tab or on another device since the page read its list.          *)
THEOREM OwnChangesCorrect == Spec => []OwnChangesShown
<1>1. PagesInv => OwnChangesShown
  <2>1. PagesInv => CancelledStaysShown
    BY DEF PagesInv, BookingsInv, BookingRowsTrue
  <2>2. PagesInv => OwnTopUpShown
    BY TopUpShown DEF PagesInv
  <2>3. PagesInv => VehiclesShownAreHeld
    BY ShownAreHeld DEF PagesInv
  <2>4. QED
    BY <2>1, <2>2, <2>3 DEF OwnChangesShown
<1>2. QED
    BY <1>1, PagesAlways, PTL

-----------------------------------------------------------------------------
(* No page waits for nothing *)

(* What no step but the one that answers it takes from a page that waits. *)
StillHeard(c) ==
    wire[c].heard => /\ wire'[c].heard
                     /\ wire'[c].op = wire[c].op /\ wire'[c].arg = wire[c].arg

HeardKept   == \A c \in Call : StillHeard(c)
HeardBut(c) == \A d \in Call \ {c} : StillHeard(d)

Pending(op, arg) == \E c \in Call : wire[c].op = op /\ wire[c].heard /\ wire[c].arg = arg

LEMMA StillPending ==
    ASSUME HeardKept, NEW op
    PROVE  /\ Awaits(op) => Awaits(op)'
           /\ \A arg : Pending(op, arg) => Pending(op, arg)'
BY DEF HeardKept, StillHeard, Awaits, Pending

LEMMA OthersPending ==
    ASSUME NEW c \in Call, HeardBut(c), NEW op, wire[c].op # op
    PROVE  /\ Awaits(op) => Awaits(op)'
           /\ \A arg : Pending(op, arg) => Pending(op, arg)'
BY DEF HeardBut, StillHeard, Awaits, Pending

LEMMA SendHeard ==
    ASSUME ClientInv, NEW op, NEW arg, op # "idle", Send(op, arg)
    PROVE  HeardKept /\ Awaits(op)' /\ Pending(op, arg)'
<1>1. /\ Fresh \in Call /\ wire[Fresh].op = "idle"
      /\ wire'[Fresh].op = op /\ wire'[Fresh].arg = arg /\ wire'[Fresh].heard
      /\ \A d \in Call \ {Fresh} : wire'[d] = wire[d]
    BY SendEffect DEF ClientInv
<1>2. ~wire[Fresh].heard
    BY <1>1 DEF ClientInv, WireOK, IsMessage, Writes
<1>3. QED
    BY <1>1, <1>2 DEF HeardKept, StillHeard, Awaits, Pending

LEMMA ReplyHeard ==
    ASSUME ClientInv, NEW c \in Call, wire[c].op # "idle",
           NEW state \in {"answered", "refused"}, NEW answer, Reply(c, state, answer)
    PROVE  HeardKept
<1>1. /\ \/ wire'[c].op = "idle" /\ ~wire'[c].heard
         \/ wire'[c].op = wire[c].op /\ wire'[c].arg = wire[c].arg
      /\ wire[c].heard => wire'[c].op = wire[c].op
      /\ wire'[c].heard = wire[c].heard
      /\ \A d \in Call \ {c} : wire'[d] = wire[d]
    BY ReplyEffect DEF ClientInv
<1>2. QED
    BY <1>1 DEF HeardKept, StillHeard

LEMMA TakeHeard ==
    ASSUME ClientInv, NEW c \in Call, NEW op, Take(c) \/ Rejected(c, op)
    PROVE  HeardBut(c)
BY TakeEffect, RejectedEffect DEF ClientInv, HeardBut, StillHeard

LEMMA SendAllHeard ==
    ASSUME ClientInv, NEW c \in Call, NEW op, op # "idle", NEW parts, SendAll(c, op, parts)
    PROVE  HeardBut(c)
BY SendAllEffect DEF ClientInv, HeardBut, StillHeard

(* A page that spins has the request it spins for under way, and hears its *)
(* answer.                                                                 *)
WaitInv ==
    /\ page = "my-bookings" =>
          /\ mounted /\ bookingsLoading => Awaits("bookings")
          /\ cancelling # None => Pending("cancel", cancelling)
    /\ page = "wallet" /\ topping => Awaits("topup")
    /\ page = "profile" /\ addingVehicle => Awaits("addVehicle")

LEMMA BookingsWait ==
    ASSUME ClientInv, WaitInv, BookingsNext, Others("my-bookings")
    PROVE  WaitInv'
<1>1. /\ page = "my-bookings" /\ page' = "my-bookings"
      /\ mounted /\ bookingsLoading => Awaits("bookings")
      /\ cancelling # None => Pending("cancel", cancelling)
    BY DEF WaitInv, Others
<1> DEFINE Waiting == /\ mounted' /\ bookingsLoading' => Awaits("bookings")'
                      /\ cancelling' # None => Pending("cancel", cancelling)'
<1>2. SUFFICES Waiting
    BY <1>1 DEF WaitInv
<1>3. ASSUME HeardKept, UNCHANGED <<mounted, bookingsLoading, cancelling>> PROVE Waiting
    BY <1>1, <1>3, StillPending DEF Pending
<1>4. ASSUME OpenBookings PROVE Waiting
    BY <1>1, <1>4, SendHeard, StillPending DEF OpenBookings, bookingVars, Pending
<1>5. ASSUME LeaveBookings PROVE Waiting
    BY <1>5 DEF LeaveBookings, Unmount
<1>6. ASSUME Refresh PROVE Waiting
    BY <1>1, <1>6, SendHeard, StillPending DEF Refresh, Pending
<1>7. ASSUME NEW b \in Booking, handleCancel(b) PROVE Waiting
    BY <1>1, <1>7, SendHeard, StillPending DEF handleCancel, Pending
<1>8. ASSUME NEW b \in Booking, BookedElsewhere(b) PROVE Waiting
    BY <1>3, <1>8 DEF BookedElsewhere, bookingView, HeardKept, StillHeard
<1>9. ASSUME NEW c \in Call, Loaded(c) PROVE Waiting
  <2>1. wire[c].op = "bookings" /\ (Take(c) \/ Rejected(c, "bookings"))
        /\ bookingsLoading' = FALSE /\ cancelling' = cancelling
    BY <1>9 DEF Loaded, Answered, Rejected
  <2>2. QED
    BY <1>1, <2>1, TakeHeard, OthersPending DEF Pending
<1>10. ASSUME NEW c \in Call, Cancelled(c) \/ CancelFailed(c) PROVE Waiting
  <2>1. wire[c].op = "cancel" /\ (Take(c) \/ Rejected(c, "cancel"))
        /\ cancelling' = None /\ UNCHANGED <<mounted, bookingsLoading>>
    BY <1>10 DEF Cancelled, CancelFailed, Answered, Rejected
  <2>2. QED
    BY <1>1, <2>1, TakeHeard, OthersPending
<1>11. ASSUME NEW c \in Call, ServeBookings(c) \/ ServeCancel(c) PROVE Waiting
  <2>1. HeardKept
    BY <1>11, ReplyHeard DEF ServeBookings, ServeCancel, Sent
  <2>2. QED
    BY <1>3, <1>11, <2>1 DEF ServeBookings, ServeCancel, bookingVars, bookingView
<1>12. QED
    BY <1>4, <1>5, <1>6, <1>7, <1>8, <1>9, <1>10, <1>11
    DEF BookingsNext, BookingsAnswer, BookingsServe

LEMMA WalletWait ==
    ASSUME ClientInv, WaitInv, WalletNext, Others("wallet")
    PROVE  WaitInv'
<1>1. page = "wallet" /\ page' = "wallet" /\ (topping => Awaits("topup"))
    BY DEF WaitInv, Others
<1> DEFINE Waiting == topping' => Awaits("topup")'
<1>2. SUFFICES Waiting
    BY <1>1 DEF WaitInv
<1>3. ASSUME HeardKept, topping' = topping PROVE Waiting
    BY <1>1, <1>3, StillPending
<1>4. ASSUME OpenWallet PROVE Waiting
  <2>1. Fresh \in Call /\ wire[Fresh].op = "idle"
        /\ SendAll(Fresh, "wallet", Reads) /\ topping' = topping
    BY <1>4, FreshIsFree DEF OpenWallet, walletVars, ClientInv
  <2>2. QED
    BY <1>1, <2>1, SendAllHeard, OthersPending
<1>5. ASSUME LeaveWallet PROVE Waiting
    BY <1>5 DEF LeaveWallet
<1>6. ASSUME NEW amount \in Amount, handleTopUp(amount) PROVE Waiting
    BY <1>6, SendHeard DEF handleTopUp
<1>7. ASSUME BookedByOthers PROVE Waiting
    BY <1>3, <1>7 DEF BookedByOthers, walletView, HeardKept, StillHeard
<1>8. ASSUME NEW c \in Call, fetchData(c) PROVE Waiting
    BY <1>1, <1>8, TakeHeard, OthersPending DEF fetchData, Settled
<1>9. ASSUME NEW c \in Call, ToppedUp(c) \/ TopUpFailed(c) PROVE Waiting
    BY <1>9 DEF ToppedUp, TopUpFailed
<1>10. ASSUME NEW c \in Call, ServeTopUp(c) PROVE Waiting
  <2>1. HeardKept
    BY <1>10, ReplyHeard DEF ServeTopUp, Sent
  <2>2. QED
    BY <1>3, <1>10, <2>1 DEF ServeTopUp, walletView
<1>11. ASSUME NEW c \in Call, NEW r \in Reads, ServeRead(c, r) \/ FailRead(c, r) PROVE Waiting
  <2>1. topping' = topping /\ (Fulfil(c, "wallet", r, ledger) \/ Drop(c, "wallet", r))
    BY <1>11 DEF ServeRead, FailRead, walletVars
  <2>2. wire[c].op = "wallet" /\ HeardBut(c)
    BY <2>1, FulfilEffect, DropEffect DEF ClientInv, HeardBut, StillHeard
  <2>3. QED
    BY <1>1, <2>1, <2>2, OthersPending
<1>12. QED
    BY <1>4, <1>5, <1>6, <1>7, <1>8, <1>9, <1>10, <1>11
    DEF WalletNext, WalletAnswer, WalletServe

LEMMA ProfileWait ==
    ASSUME ClientInv, WaitInv, ProfileNext, Others("profile")
    PROVE  WaitInv'
<1>1. page = "profile" /\ page' = "profile" /\ (addingVehicle => Awaits("addVehicle"))
    BY DEF WaitInv, Others
<1> DEFINE Waiting == addingVehicle' => Awaits("addVehicle")'
<1>2. SUFFICES Waiting
    BY <1>1 DEF WaitInv
<1>3. ASSUME HeardKept, addingVehicle' = addingVehicle PROVE Waiting
    BY <1>1, <1>3, StillPending
<1>4. ASSUME OpenProfile PROVE Waiting
    BY <1>3, <1>4, SendHeard DEF OpenProfile
<1>5. ASSUME LeaveProfile PROVE Waiting
    BY <1>5 DEF LeaveProfile
<1>6. ASSUME NEW p \in Plate, handleAddVehicle(p) PROVE Waiting
    BY <1>6, SendHeard DEF handleAddVehicle
<1>7. ASSUME NEW id \in RemoveOffered, handleDeleteVehicle(id) PROVE Waiting
    BY <1>3, <1>7, SendHeard DEF handleDeleteVehicle
<1>8. ASSUME NEW c \in Call, VehicleAdded(c) \/ AddFailed(c) PROVE Waiting
    BY <1>8 DEF VehicleAdded, AddFailed
<1>9. ASSUME NEW c \in Call, VehiclesLoaded(c) \/ VehicleRemoved(c) \/ RemoveFailed(c)
      PROVE Waiting
  <2>1. /\ wire[c].op \in {"vehicles", "deleteVehicle"}
        /\ Take(c) \/ Rejected(c, "vehicles") \/ Rejected(c, "deleteVehicle")
        /\ addingVehicle' = addingVehicle
    BY <1>9 DEF VehiclesLoaded, VehicleRemoved, RemoveFailed, Answered, Rejected
  <2>2. HeardBut(c)
    BY <2>1, TakeHeard
  <2>3. QED
    BY <1>1, <2>1, <2>2, OthersPending
<1>10. ASSUME NEW c \in Call, ProfileServe(c) PROVE Waiting
  <2>1. HeardKept
    BY <1>10, ReplyHeard DEF ProfileServe, ServeVehicles, ServeAdd, ServeDelete, Sent
  <2>2. addingVehicle' = addingVehicle
    BY <1>10 DEF ProfileServe, ServeVehicles, ServeAdd, ServeDelete, profileVars, profileView
  <2>3. QED
    BY <1>3, <2>1, <2>2
<1>11. ASSUME GarageChangesElsewhere PROVE Waiting
    BY <1>3, <1>11 DEF GarageChangesElsewhere, profileView, HeardKept, StillHeard
<1>12. QED
    BY <1>4, <1>5, <1>6, <1>7, <1>8, <1>9, <1>10, <1>11 DEF ProfileNext, ProfileAnswer

LEMMA WaitInvNext ==
    ASSUME ClientInv, WaitInv, [Next]_vars
    PROVE  WaitInv'
<1>1. ASSUME DashboardNext /\ Others("dashboard") PROVE WaitInv'
    BY <1>1 DEF WaitInv, Others
<1>2. ASSUME CameraNext /\ Others("camera") PROVE WaitInv'
    BY <1>2 DEF WaitInv, Others
<1>3. ASSUME UNCHANGED vars PROVE WaitInv'
    BY <1>3 DEF WaitInv, Pending, Awaits, vars, clientVars, bookingVars, walletVars, profileVars
<1>4. QED
    BY <1>1, <1>2, <1>3, BookingsWait, WalletWait, ProfileWait DEF Next

(* What a page spins for. *)
SpinsFor(p) ==
    CASE p = "my-bookings" -> {"bookings", "cancel"}
      [] p = "wallet"      -> {"topup"}
      [] p = "profile"     -> {"addVehicle"}
      [] p = "dashboard"   -> {"book", "prebook"}

(* A page that spins, or a button that is disabled while it waits, has its *)
(* own request under way and hears its answer: there is always something   *)
(* left that ends it, the answer or the 15 s of api/client.js.  Whatever   *)
(* was refused, lost or answered late before took no spinner's end away.   *)
THEOREM SpinnersHaveRequests ==
    Spec => [](Busy => \E c \in Call : wire[c].op \in SpinsFor(page) /\ wire[c].heard)
<1>1. Init => ClientInv /\ WaitInv
    BY WireInit DEF Init, BookingsInit, WalletInit, ProfileInit, ClientInit, WaitInv
<1>2. ClientInv /\ WaitInv /\ [Next]_vars => ClientInv' /\ WaitInv'
    BY ClientNext, WaitInvNext
<1>3. WaitInv /\ BusyDialogHasRequest =>
          (Busy => \E c \in Call : wire[c].op \in SpinsFor(page) /\ wire[c].heard)
    BY DEF WaitInv, BusyDialogHasRequest, Busy, Awaits, Pending, SpinsFor
<1>4. QED
    BY <1>1, <1>2, <1>3, BusyDialogCorrect, PTL DEF Spec
=============================================================================

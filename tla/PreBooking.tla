----------------------------- MODULE PreBooking ------------------------------
(***************************************************************************)
(* Reservations of a slot for a window of a day: prebook.py and            *)
(* prebooking_service.py.  The handlers are plain functions on the thread  *)
(* pool: the validation, the conflict query and the INSERT of one request  *)
(* interleave with the statements of the others.                           *)
(*                                                                         *)
(* prebookings: rows 1..count of bookings, numbered as they are committed  *)
(* and never deleted.  pc[r] is where request r stands, "created" and      *)
(* "conflict" its last answer; window[r] and target[r] are its arguments,  *)
(* NULL once it is answered.  History variables: seen[r], the number of    *)
(* rows when r made its conflict query; seenBefore[i], that number for the *)
(* request that inserted row i.                                            *)
(***************************************************************************)
EXTENDS Integers, FiniteSets

CONSTANTS
    User, Slot, NULL,
    Time,           \* the HH:MM texts that clients send, as <<HH, MM>>
    Request,        \* requests that may be under way at the same time
    MaxDay,         \* bound on the days that pass
    MaxBookings     \* bound on the rows of the table

ASSUME NullAssumption == NULL \notin User
ASSUME TimeAssumption == Time \subseteq (0..23) \X (0..59)
ASSUME BoundsAssumption == MaxDay \in Nat /\ MaxBookings \in Nat

VARIABLES today, bookings, count, pc, window, target, seen, seenBefore

table == <<bookings, count, seenBefore>>
vars == <<today, table, pc, window, target, seen>>

BookingId == 1..MaxBookings
Rows == 1..count

(* "HH:MM" < "HH:MM", compared as texts *)
Before(s, t) == s[1] < t[1] \/ (s[1] = t[1] /\ s[2] < t[2])

Labels == {"idle", "check_conflict", "create_booking", "cancel_booking", "created", "conflict"}

Window == [user : User, slot : Slot, date : Nat, start : Time, end : Time]
Row == [window : Window, status : {"active", "cancelled"}]

(* _validate: a day that is not over, a window that ends after it starts *)
Valid(w) == today <= w.date /\ Before(w.start, w.end)

(* Mutants, used by no action: what the properties are there to catch. *)
MutantConflicting(row, w) ==
    /\ row.window.slot = w.slot /\ row.window.date = w.date
    /\ Before(row.window.start, w.end) /\ Before(w.start, row.window.end)

MutantStartInside(row, w) ==
    /\ row.window.slot = w.slot /\ row.window.date = w.date
    /\ row.status = "active"
    /\ ~Before(w.start, row.window.start) /\ Before(w.start, row.window.end)

(* the filter of check_conflict *)
Conflicting(row, w) ==
    /\ row.window.slot = w.slot /\ row.window.date = w.date
    /\ row.status = "active"
    /\ Before(row.window.start, w.end) /\ Before(w.start, row.window.end)

Init ==
    /\ today = 0
    /\ bookings = [i \in BookingId |-> NULL]
    /\ count = 0
    /\ seenBefore = [i \in BookingId |-> 0]
    /\ pc = [r \in Request |-> "idle"]
    /\ window = [r \in Request |-> NULL]
    /\ target = [r \in Request |-> NULL]
    /\ seen = [r \in Request |-> 0]

-----------------------------------------------------------------------------
Creating(r) == pc[r] \in {"check_conflict", "create_booking"}
Free(r) == pc[r] \in {"idle", "created", "conflict"}
Goto(r, label) == pc' = [pc EXCEPT ![r] = label]

Answer(r, label) ==
    /\ Goto(r, label)
    /\ window' = [window EXCEPT ![r] = NULL]
    /\ target' = [target EXCEPT ![r] = NULL]
    /\ seen' = [seen EXCEPT ![r] = 0]

(* create_pre_booking, validated; a 4xx answer writes nothing. *)
StartBooking(r, w) ==
    /\ Free(r)
    /\ count + Cardinality({q \in Request : Creating(q)}) < MaxBookings
    /\ Valid(w)
    /\ Goto(r, "check_conflict")
    /\ window' = [window EXCEPT ![r] = w]
    /\ UNCHANGED <<today, table, target, seen>>

CheckConflict(r) ==
    /\ pc[r] = "check_conflict"
    /\ IF \E i \in Rows : Conflicting(bookings[i], window[r])
       THEN Answer(r, "conflict")
       ELSE /\ Goto(r, "create_booking")
            /\ seen' = [seen EXCEPT ![r] = count]
            /\ UNCHANGED <<window, target>>
    /\ UNCHANGED <<today, table>>

CreateBooking(r) ==
    /\ pc[r] = "create_booking"
    /\ count < MaxBookings     \* never in the way: StartBooking left room
    /\ count' = count + 1
    /\ bookings' = [bookings EXCEPT ![count + 1] = [window |-> window[r], status |-> "active"]]
    /\ seenBefore' = [seenBefore EXCEPT ![count + 1] = seen[r]]
    /\ Answer(r, "created")
    /\ UNCHANGED today

(* cancel_booking by the user u, admin_cancel_booking by an admin (NULL): the
   active row is read here and written at the commit. *)
StartCancel(r, u, i) ==
    /\ Free(r)
    /\ i \in Rows /\ bookings[i].status = "active"
    /\ u # NULL => bookings[i].window.user = u
    /\ Goto(r, "cancel_booking")
    /\ target' = [target EXCEPT ![r] = i]
    /\ UNCHANGED <<today, table, window, seen>>

CancelBooking(r) ==
    /\ pc[r] = "cancel_booking"
    /\ bookings' = [bookings EXCEPT ![target[r]].status = "cancelled"]
    /\ Answer(r, "idle")
    /\ UNCHANGED <<today, count, seenBefore>>

(* The server is restarted: what was not committed is lost. *)
Restart ==
    /\ pc' = [r \in Request |-> "idle"]
    /\ window' = [r \in Request |-> NULL]
    /\ target' = [r \in Request |-> NULL]
    /\ seen' = [r \in Request |-> 0]
    /\ UNCHANGED <<today, table>>

Midnight ==
    /\ today < MaxDay
    /\ today' = today + 1
    /\ UNCHANGED <<table, pc, window, target, seen>>

Next ==
    \/ \E r \in Request :
          \/ \E u \in User, p \in Slot, d \in 0..MaxDay, s, e \in Time :
                StartBooking(r, [user |-> u, slot |-> p, date |-> d, start |-> s, end |-> e])
          \/ CheckConflict(r) \/ CreateBooking(r) \/ CancelBooking(r)
          \/ \E u \in User \cup {NULL}, i \in BookingId : StartCancel(r, u, i)
    \/ Restart
    \/ Midnight

Spec == Init /\ [][Next]_vars

-----------------------------------------------------------------------------
(* Every row has its columns and a window that ends after it starts; a request
   under way has the arguments its statements read. *)
TypeOK ==
    /\ today \in Nat
    /\ count \in 0..MaxBookings
    /\ bookings \in [BookingId -> Row \cup {NULL}]
    /\ \A i \in Rows : bookings[i] \in Row
                       /\ Before(bookings[i].window.start, bookings[i].window.end)
    /\ seenBefore \in [BookingId -> Nat]
    /\ pc \in [Request -> Labels]
    /\ window \in [Request -> Window \cup {NULL}]
    /\ target \in [Request -> BookingId \cup {NULL}]
    /\ seen \in [Request -> Nat]
    /\ \A r \in Request :
          /\ Creating(r) => window[r] \in Window /\ Before(window[r].start, window[r].end)
          /\ pc[r] = "cancel_booking" => target[r] \in Rows

(* What a window means: the minutes of its day at which its slot is held, the
   end not among them. *)
Minute(t) == 60 * t[1] + t[2]
Minutes(w) == Minute(w.start)..(Minute(w.end) - 1)

Collide(v, w) ==
    /\ v.slot = w.slot /\ v.date = w.date
    /\ Minutes(v) \cap Minutes(w) # {}

(* "overlap-aware conflict detection prevents double bookings": no slot is
   held twice at any minute. *)
NoDoubleBooking ==
    \A i, j \in Rows :
        /\ i # j
        /\ bookings[i].status = "active" /\ bookings[j].status = "active"
        => ~Collide(bookings[i].window, bookings[j].window)

(* What create_pre_booking does give, whatever overlaps: a slot is held twice
   only if the earlier booking was committed after the conflict query of the
   later one. *)
DoubleOnlyInFlight ==
    \A i, j \in Rows :
        /\ i < j
        /\ bookings[i].status = "active" /\ bookings[j].status = "active"
        /\ Collide(bookings[i].window, bookings[j].window)
        => seenBefore[j] < i

(* "Slot already booked for selected time" is answered only if a booking that
   is active at that moment holds the slot at a minute of the window: neither
   cancelled nor adjacent bookings refuse anyone. *)
RefusedOnlyIfHeld ==
    [][\A r \in Request : pc[r] = "check_conflict" /\ pc'[r] = "conflict" =>
          \E i \in Rows : /\ bookings[i].status = "active"
                          /\ Collide(bookings[i].window, window[r])]_vars
==============================================================================

-------------------------- MODULE PreBookingProofs ---------------------------
(***************************************************************************)
(* What pre-booking keeps true for any number of users, slots, times and   *)
(* requests under way.                                                     *)
(***************************************************************************)
EXTENDS PreBooking, TLAPS

(* The order of the texts is the order of the minutes, because MM < 60. *)
LEMMA TextOrder ==
    ASSUME NEW s \in Time, NEW t \in Time
    PROVE  /\ Minute(s) \in Nat /\ Minute(t) \in Nat
           /\ Before(s, t) <=> Minute(s) < Minute(t)
<1>1. s[1] \in 0..23 /\ s[2] \in 0..59 /\ t[1] \in 0..23 /\ t[2] \in 0..59
    BY TimeAssumption
<1> DEFINE a == s[1]
           b == s[2]
           c == t[1]
           d == t[2]
<1>2. a \in 0..23 /\ b \in 0..59 /\ c \in 0..23 /\ d \in 0..59
    BY <1>1
<1>3. Minute(s) = 60 * a + b /\ Minute(t) = 60 * c + d
    BY DEF Minute
<1>4. Before(s, t) <=> a < c \/ (a = c /\ b < d)
    BY DEF Before
<1> HIDE DEF a, b, c, d
<1>5. (a < c \/ (a = c /\ b < d)) <=> 60 * a + b < 60 * c + d
    BY <1>2
<1>6. 60 * a + b \in Nat /\ 60 * c + d \in Nat
    BY <1>2
<1>7. QED
    BY <1>3, <1>4, <1>5, <1>6

(* The overlap formula of check_conflict says that the windows share a minute:
   the later one of the two starts. *)
LEMMA FilterIsCollision ==
    ASSUME NEW row \in Row, NEW w \in Window,
           Before(row.window.start, row.window.end), Before(w.start, w.end)
    PROVE  Conflicting(row, w) <=> row.status = "active" /\ Collide(row.window, w)
<1> DEFINE a == Minute(row.window.start)
           b == Minute(row.window.end)
           c == Minute(w.start)
           d == Minute(w.end)
<1>1. /\ row.window.start \in Time /\ row.window.end \in Time
      /\ w.start \in Time /\ w.end \in Time
    BY DEF Row, Window
<1>2. /\ a \in Nat /\ b \in Nat /\ c \in Nat /\ d \in Nat
      /\ a < b /\ c < d
      /\ Before(row.window.start, w.end) <=> a < d
      /\ Before(w.start, row.window.end) <=> c < b
    BY <1>1, TextOrder
<1>3. Minutes(row.window) = a..(b - 1) /\ Minutes(w) = c..(d - 1)
    BY DEF Minutes
<1> HIDE DEF a, b, c, d
<1>4. (a..(b - 1)) \cap (c..(d - 1)) # {} <=> a < d /\ c < b
  <2>1. ASSUME NEW m \in (a..(b - 1)) \cap (c..(d - 1)) PROVE a < d /\ c < b
    BY <1>2
  <2>2. ASSUME a < d, c < b PROVE (a..(b - 1)) \cap (c..(d - 1)) # {}
    <3>1. CASE a <= c
      <4>1. c \in a..(b - 1) /\ c \in c..(d - 1)
        BY <1>2, <2>2, <3>1
      <4>2. QED
        BY <4>1
    <3>2. CASE c < a
      <4>1. a \in a..(b - 1) /\ a \in c..(d - 1)
        BY <1>2, <2>2, <3>2
      <4>2. QED
        BY <4>1
    <3>3. QED
      BY <1>2, <3>1, <3>2
  <2>3. QED
    BY <2>1, <2>2
<1>5. QED
    BY <1>2, <1>3, <1>4 DEF Conflicting, Collide

LEMMA RowValues ==
    /\ \A w \in Window : LET row == [window |-> w, status |-> "active"]
                         IN  row \in Row /\ row.window = w /\ row.status = "active"
    /\ \A row \in Row : LET gone == [row EXCEPT !.status = "cancelled"]
                        IN  gone \in Row /\ gone.window = row.window /\ gone.status = "cancelled"
BY DEF Row

(* NULL is neither a row nor a window: the rows of the table are real ones. *)
LEMMA Control ==
    ASSUME TypeOK, NEW r \in Request, NEW label, Goto(r, label)
    PROVE  pc'[r] = label /\ \A q \in Request \ {r} : pc'[q] = pc[q]
BY DEF TypeOK, Goto

(* An answered request keeps nothing, and the others all they had. *)
LEMMA Answered ==
    ASSUME TypeOK, NEW r \in Request,
           NEW label \in {"idle", "created", "conflict"}, Answer(r, label)
    PROVE  /\ pc' \in [Request -> Labels]
           /\ window' \in [Request -> Window \cup {NULL}]
           /\ target' \in [Request -> BookingId \cup {NULL}]
           /\ seen' \in [Request -> Nat]
           /\ pc'[r] = label
           /\ \A q \in Request \ {r} : /\ pc'[q] = pc[q] /\ window'[q] = window[q]
                                       /\ target'[q] = target[q] /\ seen'[q] = seen[q]
BY DEF TypeOK, Answer, Goto, Labels

LEMMA TypeStep ==
    ASSUME TypeOK, [Next]_vars
    PROVE  TypeOK'
<1> USE DEF TypeOK, Rows, Creating
<1>1. ASSUME NEW r \in Request, NEW w \in Window, StartBooking(r, w)
      PROVE  TypeOK'
    BY <1>1 DEF StartBooking, Valid, Goto, Labels, table
<1>2. ASSUME NEW r \in Request, CheckConflict(r)
      PROVE  TypeOK'
  <2>1. CASE Answer(r, "conflict")
    BY <1>2, <2>1, Answered DEF CheckConflict, table
  <2>2. CASE /\ Goto(r, "create_booking")
             /\ seen' = [seen EXCEPT ![r] = count]
             /\ UNCHANGED <<window, target>>
    BY <1>2, <2>2 DEF CheckConflict, table, Goto, Labels
  <2>3. QED
    BY <1>2, <2>1, <2>2 DEF CheckConflict
<1>3. ASSUME NEW r \in Request, CreateBooking(r)
      PROVE  TypeOK'
  <2> DEFINE row == [window |-> window[r], status |-> "active"]
  <2>1. count + 1 \in BookingId
    BY <1>3, BoundsAssumption DEF CreateBooking, BookingId
  <2>2. window[r] \in Window /\ Before(window[r].start, window[r].end)
    BY <1>3 DEF CreateBooking
  <2>3. row \in Row /\ row.window = window[r]
    BY <2>2, RowValues
  <2>4. /\ bookings' = [bookings EXCEPT ![count + 1] = row]
        /\ count' = count + 1
        /\ seenBefore' = [seenBefore EXCEPT ![count + 1] = seen[r]]
        /\ Answer(r, "created") /\ today' = today
    BY <1>3 DEF CreateBooking
  <2> HIDE DEF row
  <2>5. /\ count' \in 0..MaxBookings
        /\ bookings' \in [BookingId -> Row \cup {NULL}]
        /\ seenBefore' \in [BookingId -> Nat]
    BY <2>1, <2>3, <2>4, BoundsAssumption DEF BookingId
  <2>6. ASSUME NEW i \in 1..(count + 1)
        PROVE  bookings'[i] \in Row /\ Before(bookings'[i].window.start, bookings'[i].window.end)
    <3>1. CASE i = count + 1
      BY <2>1, <2>2, <2>3, <2>4, <3>1
    <3>2. CASE i \in Rows /\ bookings'[i] = bookings[i]
      BY <3>2
    <3>3. QED
      BY <2>1, <2>4, <2>6, <3>1, <3>2 DEF BookingId
  <2>7. ASSUME NEW q \in Request, pc'[q] = "cancel_booking"
        PROVE  target'[q] \in 1..(count + 1)
    BY <2>4, <2>7, Answered
  <2>8. ASSUME NEW q \in Request, pc'[q] \in {"check_conflict", "create_booking"}
        PROVE  window'[q] \in Window /\ Before(window'[q].start, window'[q].end)
    BY <2>4, <2>8, Answered
  <2>9. QED
    BY <2>4, <2>5, <2>6, <2>7, <2>8, Answered
<1>4. ASSUME NEW r \in Request, NEW u \in User \cup {NULL}, NEW i \in BookingId,
             StartCancel(r, u, i)
      PROVE  TypeOK'
    BY <1>4 DEF StartCancel, Goto, Labels, table
<1>5. ASSUME NEW r \in Request, CancelBooking(r)
      PROVE  TypeOK'
  <2> DEFINE t == target[r]
             gone == [bookings[t] EXCEPT !.status = "cancelled"]
  <2>1. t \in Rows /\ bookings[t] \in Row
    BY <1>5 DEF CancelBooking
  <2>2. gone \in Row /\ gone.window = bookings[t].window
    BY <2>1, RowValues
  <2>3. /\ bookings' = [bookings EXCEPT ![t] = gone]
        /\ Answer(r, "idle") /\ UNCHANGED <<today, count, seenBefore>>
    BY <1>5 DEF CancelBooking
  <2> HIDE DEF gone, t
  <2>4. \A i \in Rows : bookings'[i] \in Row /\ bookings'[i].window = bookings[i].window
    BY <2>1, <2>2, <2>3 DEF BookingId
  <2>5. bookings' \in [BookingId -> Row \cup {NULL}]
    BY <2>2, <2>3
  <2>6. \A q \in Request : pc'[q] = "cancel_booking" => target'[q] \in Rows
    BY <2>3, Answered
  <2>7. \A q \in Request : pc'[q] \in {"check_conflict", "create_booking"} =>
            window'[q] \in Window /\ Before(window'[q].start, window'[q].end)
    BY <2>3, Answered
  <2>8. QED
    BY <2>3, <2>4, <2>5, <2>6, <2>7, Answered
<1>6. CASE Restart
    BY <1>6 DEF Restart, table, Labels
<1>7. CASE Midnight \/ UNCHANGED vars
    BY <1>7 DEF Midnight, vars, table
<1>8. ASSUME NEW u \in User, NEW p \in Slot, NEW d \in 0..MaxDay, NEW s \in Time, NEW e \in Time
      PROVE  [user |-> u, slot |-> p, date |-> d, start |-> s, end |-> e] \in Window
    BY BoundsAssumption DEF Window
<1>9. QED
    BY <1>1, <1>2, <1>3, <1>4, <1>5, <1>6, <1>7, <1>8 DEF Next

(* The table and the requests' arguments are well typed in every state, and
   every row holds a window that ends after it starts. *)
THEOREM TypeCorrect == Spec => []TypeOK
<1>1. Init => TypeOK
    BY BoundsAssumption DEF Init, TypeOK, Rows, Creating, Labels
<1>2. TypeOK /\ [Next]_vars => TypeOK'
    BY TypeStep
<1>3. QED
    BY <1>1, <1>2, PTL DEF Spec

-----------------------------------------------------------------------------
(* A refused request met an active booking that holds a minute of its window. *)
THEOREM RefusalCorrect == Spec => RefusedOnlyIfHeld
<1> DEFINE Met == \A r \in Request : pc[r] = "check_conflict" /\ pc'[r] = "conflict" =>
                    \E i \in Rows : /\ bookings[i].status = "active"
                                    /\ Collide(bookings[i].window, window[r])
<1>1. TypeOK /\ [Next]_vars => Met
  <2> SUFFICES ASSUME TypeOK, [Next]_vars, NEW r \in Request,
                      pc[r] = "check_conflict", pc'[r] = "conflict"
               PROVE  \E i \in Rows : /\ bookings[i].status = "active"
                                      /\ Collide(bookings[i].window, window[r])
      OBVIOUS
  <2>1. CheckConflict(r) /\ Answer(r, "conflict")
    <3>1. ASSUME NEW q \in Request, NEW label, label # "conflict",
                 Goto(q, label)
          PROVE  FALSE
      BY <3>1, Control
    <3>2. ASSUME NEW q \in Request, CheckConflict(q), q # r
          PROVE  FALSE
      BY <3>2, Control DEF CheckConflict, Answer
    <3>3. CheckConflict(r)
      BY <3>1, <3>2, ZenonT(60) DEF Next, StartBooking, CreateBooking, CancelBooking, StartCancel,
                        Answer, Restart, Midnight, vars
    <3>4. QED
      BY <3>1, <3>3 DEF CheckConflict
  <2>2. PICK i \in Rows : Conflicting(bookings[i], window[r])
    BY <2>1, Control DEF CheckConflict, Answer, Goto
  <2>3. /\ bookings[i] \in Row /\ Before(bookings[i].window.start, bookings[i].window.end)
        /\ window[r] \in Window /\ Before(window[r].start, window[r].end)
    BY DEF TypeOK, Creating
  <2>4. QED
    BY <2>2, <2>3, FilterIsCollision
<1>2. TypeOK /\ [Next]_vars => [Met]_vars
    BY <1>1
<1>3. QED
    BY <1>2, TypeCorrect, PTL DEF Spec, RefusedOnlyIfHeld

-----------------------------------------------------------------------------
(* What the conflict query of a request has excluded stays excluded: rows are
   only cancelled, never reactivated or moved. *)
Excluded(r) ==
    pc[r] = "create_booking" =>
        /\ seen[r] <= count
        /\ \A i \in Rows : i <= seen[r] /\ bookings[i].status = "active"
                           => ~Collide(bookings[i].window, window[r])

QueryInv == (\A r \in Request : Excluded(r)) /\ DoubleOnlyInFlight

(* A row keeps its window, and its status unless it is cancelled. *)
RowKept(i) ==
    /\ bookings'[i].window = bookings[i].window
    /\ bookings'[i].status = "active" => bookings[i].status = "active"

LEMMA QueryKept ==
    ASSUME TypeOK, QueryInv, count' = count, seenBefore' = seenBefore,
           \A i \in Rows : RowKept(i),
           \A r \in Request :
               \/ pc'[r] # "create_booking"
               \/ pc'[r] = pc[r] /\ window'[r] = window[r] /\ seen'[r] = seen[r]
               \/ Excluded(r)'
    PROVE  QueryInv'
<1>1. \A r \in Request : Excluded(r)'
    BY DEF QueryInv, Excluded, RowKept, Rows
<1>2. DoubleOnlyInFlight'
    BY DEF QueryInv, DoubleOnlyInFlight, RowKept, Rows
<1>3. QED
    BY <1>1, <1>2 DEF QueryInv

LEMMA QueryStep ==
    ASSUME TypeOK, QueryInv, [Next]_vars
    PROVE  QueryInv'
<1>1. ASSUME \A i \in Rows : bookings'[i] = bookings[i], count' = count,
             seenBefore' = seenBefore, NEW r \in Request,
             pc'[r] # "create_booking",
             \A q \in Request \ {r} : pc'[q] = pc[q] /\ window'[q] = window[q] /\ seen'[q] = seen[q]
      PROVE  QueryInv'
  <2>1. \A i \in Rows : RowKept(i)
    BY <1>1 DEF RowKept
  <2>2. QED
    BY <1>1, <2>1, QueryKept
<1>2. ASSUME NEW r \in Request, NEW w, StartBooking(r, w)
      PROVE  QueryInv'
    BY <1>1, <1>2, Control DEF StartBooking, table
<1>3. ASSUME NEW r \in Request, NEW u, NEW i, StartCancel(r, u, i)
      PROVE  QueryInv'
    BY <1>1, <1>3, Control DEF StartCancel, table
<1>4. ASSUME NEW r \in Request, CheckConflict(r)
      PROVE  QueryInv'
  <2>1. CASE Answer(r, "conflict")
    BY <1>1, <1>4, <2>1, Answered DEF CheckConflict, table
  <2>2. CASE /\ Goto(r, "create_booking")
             /\ seen' = [seen EXCEPT ![r] = count]
             /\ UNCHANGED <<window, target>>
    <3>1. pc[r] = "check_conflict" /\ \A i \in Rows : ~Conflicting(bookings[i], window[r])
      BY <1>4, <2>2, Control DEF CheckConflict, Answer
    <3>2. UNCHANGED <<bookings, count, seenBefore>>
      BY <1>4 DEF CheckConflict, table
    <3>3. window[r] \in Window /\ Before(window[r].start, window[r].end)
      BY <3>1 DEF TypeOK, Creating
    <3>4. \A i \in Rows : bookings[i].status = "active" => ~Collide(bookings[i].window, window[r])
      BY <3>1, <3>3, FilterIsCollision DEF TypeOK
    <3>5. Excluded(r)'
      BY <2>2, <3>2, <3>4 DEF Excluded, Rows, TypeOK
    <3>6. \A q \in Request \ {r} : pc'[q] = pc[q] /\ window'[q] = window[q] /\ seen'[q] = seen[q]
      BY <2>2, Control DEF TypeOK
    <3>7. QED
      BY <3>2, <3>5, <3>6, QueryKept DEF RowKept
  <2>3. QED
    BY <1>4, <2>1, <2>2 DEF CheckConflict
<1>5. ASSUME NEW r \in Request, CreateBooking(r)
      PROVE  QueryInv'
  <2> DEFINE n == count + 1
  <2>1. /\ pc[r] = "create_booking" /\ count' = n /\ n \in BookingId
        /\ bookings' = [bookings EXCEPT ![n] = [window |-> window[r], status |-> "active"]]
        /\ seenBefore' = [seenBefore EXCEPT ![n] = seen[r]]
        /\ Answer(r, "created")
    BY <1>5, BoundsAssumption DEF CreateBooking, TypeOK, BookingId
  <2>2. bookings'[n].window = window[r] /\ seenBefore'[n] = seen[r]
    BY <2>1 DEF TypeOK
  <2>3. \A i \in Rows : i < n /\ bookings'[i] = bookings[i] /\ seenBefore'[i] = seenBefore[i]
    BY <2>1 DEF TypeOK, Rows, BookingId
  <2>4. \A i \in Rows' : i \in Rows \/ i = n
    BY <2>1 DEF TypeOK, Rows
  <2>5. n \in Nat /\ seen \in [Request -> Nat]
    BY DEF TypeOK
  <2>9. count' = n /\ n > count /\ \A q \in Request : seen[q] <= count => seen[q] < n
    BY <2>1, <2>5 DEF TypeOK
  <2> HIDE DEF n
  <2>6. ASSUME NEW q \in Request PROVE Excluded(q)'
    <3>1. CASE q = r
      BY <2>1, <3>1, Answered DEF Excluded
    <3>2. CASE q # r /\ pc[q] = "create_booking"
      <4>1. pc'[q] = pc[q] /\ window'[q] = window[q] /\ seen'[q] = seen[q]
        BY <2>1, <3>2, Answered
      <4>2. Excluded(q) /\ seen[q] < n
        BY <2>6, <2>9, <3>2 DEF QueryInv, Excluded
      <4>3. QED
        BY <2>3, <2>4, <2>5, <2>9, <3>2, <4>1, <4>2 DEF Excluded, TypeOK
    <3>3. CASE q # r /\ pc[q] # "create_booking"
      BY <2>1, <3>3, Answered DEF Excluded
    <3>4. QED
      BY <3>1, <3>2, <3>3
  <2>7. DoubleOnlyInFlight'
    <3> SUFFICES ASSUME NEW i \in Rows', NEW j \in Rows', i < j,
                        bookings'[i].status = "active", bookings'[j].status = "active",
                        Collide(bookings'[i].window, bookings'[j].window)
                 PROVE  seenBefore'[j] < i
        BY DEF DoubleOnlyInFlight, Collide, Minutes, Minute
    <3>1. CASE j \in Rows
      <4>1. i \in Rows
        BY <2>3, <2>4, <3>1 DEF Rows
      <4>2. QED
        BY <2>3, <3>1, <4>1 DEF QueryInv, DoubleOnlyInFlight
    <3>2. CASE j = n
      <4>1. i \in Rows
        BY <2>4, <3>2 DEF Rows
      <4>2. ~(i <= seen[r])
        BY <2>1, <2>2, <2>3, <3>2, <4>1 DEF QueryInv, Excluded
      <4>3. QED
        BY <2>2, <2>5, <3>2, <4>1, <4>2 DEF Rows
    <3>3. QED
      BY <2>4, <3>1, <3>2
  <2>8. QED
    BY <2>6, <2>7 DEF QueryInv
<1>6. ASSUME NEW r \in Request, CancelBooking(r)
      PROVE  QueryInv'
  <2> DEFINE t == target[r]
             gone == [bookings[t] EXCEPT !.status = "cancelled"]
  <2>1. t \in Rows /\ bookings[t] \in Row
    BY <1>6 DEF CancelBooking, TypeOK
  <2>2. gone.window = bookings[t].window /\ gone.status = "cancelled"
    BY <2>1, RowValues
  <2>3. /\ bookings' = [bookings EXCEPT ![t] = gone]
        /\ Answer(r, "idle") /\ UNCHANGED <<count, seenBefore>>
    BY <1>6 DEF CancelBooking
  <2> HIDE DEF gone, t
  <2>4. \A i \in Rows : RowKept(i)
    BY <2>1, <2>2, <2>3 DEF RowKept, TypeOK, Rows, BookingId
  <2>5. QED
    BY <2>3, <2>4, Answered, QueryKept
<1>7. CASE Restart
  <2>1. UNCHANGED <<bookings, count, seenBefore>> /\ \A r \in Request : pc'[r] = "idle"
    BY <1>7 DEF Restart, table
  <2>2. \A i \in Rows : RowKept(i)
    BY <2>1 DEF RowKept
  <2>3. QED
    BY <2>1, <2>2, QueryKept
<1>8. CASE Midnight \/ UNCHANGED vars
  <2>1. UNCHANGED <<bookings, count, seenBefore, pc, window, seen>>
    BY <1>8 DEF Midnight, vars, table
  <2>2. \A i \in Rows : RowKept(i)
    BY <2>1 DEF RowKept
  <2>3. QED
    BY <2>1, <2>2, QueryKept
<1>9. QED
    BY <1>2, <1>3, <1>4, <1>5, <1>6, <1>7, <1>8 DEF Next

(* Two active bookings of one minute were checked while neither could see the
   other: the later one's conflict query came before the earlier one's commit. *)
THEOREM InFlightCorrect == Spec => []DoubleOnlyInFlight
<1>1. Init => QueryInv
    BY DEF Init, QueryInv, Excluded, DoubleOnlyInFlight, Rows
<1>2. TypeOK /\ QueryInv /\ [Next]_vars => QueryInv'
    BY QueryStep
<1>3. QueryInv => DoubleOnlyInFlight
    BY DEF QueryInv
<1>4. QED
    BY <1>1, <1>2, <1>3, TypeCorrect, PTL DEF Spec

-----------------------------------------------------------------------------
(* With one request at a time the conflict query sees every row there is. *)
Fresh ==
    /\ \A r \in Request : pc[r] = "create_booking" => seen[r] = count
    /\ \A j \in Rows : seenBefore[j] = j - 1

LEMMA FreshStep ==
    ASSUME \A q, r \in Request : q = r, TypeOK, Fresh, [Next]_vars
    PROVE  Fresh'
<1>1. ASSUME NEW r \in Request, count' = count, seenBefore' = seenBefore,
             pc'[r] = "create_booking" => seen'[r] = count
      PROVE  Fresh'
    BY <1>1 DEF Fresh, Rows
<1>2. ASSUME NEW r \in Request, NEW label \in Labels \ {"create_booking"}, Goto(r, label),
             count' = count, seenBefore' = seenBefore
      PROVE  Fresh'
    BY <1>1, <1>2, Control
<1>3. ASSUME NEW r \in Request, NEW w, StartBooking(r, w)
      PROVE  Fresh'
    BY <1>2, <1>3 DEF StartBooking, table, Labels
<1>4. ASSUME NEW r \in Request, NEW u, NEW i, StartCancel(r, u, i)
      PROVE  Fresh'
    BY <1>2, <1>4 DEF StartCancel, table, Labels
<1>5. ASSUME NEW r \in Request, CancelBooking(r)
      PROVE  Fresh'
    BY <1>2, <1>5 DEF CancelBooking, Answer, Labels
<1>6. ASSUME NEW r \in Request, CheckConflict(r)
      PROVE  Fresh'
  <2>1. CASE Answer(r, "conflict")
    BY <1>2, <1>6, <2>1 DEF CheckConflict, Answer, table, Labels
  <2>2. CASE seen' = [seen EXCEPT ![r] = count]
    BY <1>1, <1>6, <2>2 DEF CheckConflict, table, TypeOK
  <2>3. QED
    BY <1>6, <2>1, <2>2 DEF CheckConflict
<1>7. ASSUME NEW r \in Request, CreateBooking(r)
      PROVE  Fresh'
  <2>1. /\ pc[r] = "create_booking" /\ count' = count + 1 /\ count + 1 \in BookingId
        /\ seenBefore' = [seenBefore EXCEPT ![count + 1] = seen[r]]
        /\ Answer(r, "created")
    BY <1>7, BoundsAssumption DEF CreateBooking, TypeOK, BookingId
  <2>2. \A q \in Request : pc'[q] # "create_booking"
    BY <2>1, Answered
  <2>3. seen[r] = count /\ count \in Nat /\ \A j \in Rows : seenBefore[j] = j - 1
    BY <2>1 DEF Fresh, TypeOK
  <2>4. \A j \in 1..(count + 1) : seenBefore'[j] = j - 1
    BY <2>1, <2>3 DEF Rows, TypeOK, BookingId
  <2>5. QED
    BY <2>1, <2>2, <2>4 DEF Fresh, Rows
<1>8. CASE Restart
    BY <1>8 DEF Restart, table, Fresh, Rows
<1>9. CASE Midnight \/ UNCHANGED vars
    BY <1>9 DEF Midnight, vars, table, Fresh, Rows
<1>10. QED
    BY <1>3, <1>4, <1>5, <1>6, <1>7, <1>8, <1>9 DEF Next

(* The conflict rule itself is right: if requests come one at a time no slot is
   ever held twice at any minute. *)
THEOREM OneAtATime ==
    ASSUME \A q, r \in Request : q = r
    PROVE  Spec => []NoDoubleBooking
<1>1. Init => Fresh
    BY DEF Init, Fresh, Rows
<1>2. TypeOK /\ Fresh /\ [Next]_vars => Fresh'
    BY FreshStep
<1>3. TypeOK /\ Fresh /\ DoubleOnlyInFlight => NoDoubleBooking
  <2> SUFFICES ASSUME TypeOK, Fresh, DoubleOnlyInFlight, NEW i \in Rows, NEW j \in Rows,
                      i < j, bookings[i].status = "active", bookings[j].status = "active",
                      \/ Collide(bookings[i].window, bookings[j].window)
                      \/ Collide(bookings[j].window, bookings[i].window)
               PROVE  FALSE
    <3>1. \A i, j \in Rows : i # j => i < j \/ j < i
      BY DEF Rows
    <3>2. QED
      BY <3>1 DEF NoDoubleBooking
  <2>1. Collide(bookings[i].window, bookings[j].window)
    BY DEF Collide
  <2>2. seenBefore[j] < i /\ seenBefore[j] = j - 1
    BY <2>1 DEF DoubleOnlyInFlight, Fresh
  <2>3. QED
    BY <2>2 DEF Rows
<1>4. QED
    BY <1>1, <1>2, <1>3, TypeCorrect, InFlightCorrect, PTL DEF Spec
==============================================================================

----------------------------- MODULE MyBookings -----------------------------
(***************************************************************************)
(* The page "My Pre-Bookings" (pages/MyBookings.jsx): the user's           *)
(* pre-bookings, a Refresh button and a Cancel button in every active row. *)
(* A row is cancelled on the page when the server has answered; the page   *)
(* loads its rows when it is opened and on Refresh, never by itself.       *)
(***************************************************************************)
EXTENDS Client

CONSTANT Booking

VARIABLES
    status,            \* the server's rows, status[b] "absent" before b is made
    bookings,          \* the rows the page holds
    bookingsLoading,
    cancelling,        \* the row whose button spins: one for all rows
    told,              \* history: the rows the page reported "Booking cancelled"
    refreshedBusy      \* history: Refresh pressed with an answer outstanding

bookingVars == <<status, bookings, bookingsLoading, cancelling, told, refreshedBusy>>
bookingView == <<bookings, bookingsLoading, cancelling, told, refreshedBusy>>

BookingStatus == {"absent", "active", "cancelled"}
NoBookings == [b \in Booking |-> "absent"]

BookingsInit ==
    /\ status \in [Booking -> {"absent", "active"}]
    /\ bookings = NoBookings
    /\ bookingsLoading = TRUE
    /\ cancelling = None
    /\ told = {}
    /\ refreshedBusy = FALSE

BookingsScreen ==
    IF bookingsLoading THEN "spinner"
    ELSE IF bookings = NoBookings THEN "No pre-bookings yet" ELSE "table"

CancelOffered(b) ==
    BookingsScreen = "table" /\ bookings[b] = "active" /\ cancelling # b

\* The page is opened: load runs.
OpenBookings ==
    /\ ~mounted /\ mounted' = TRUE
    /\ Spend
    /\ Send("bookings", None)
    /\ UNCHANGED bookingVars

\* The fields start again from their first values when it is next opened.
LeaveBookings ==
    /\ Unmount
    /\ bookings' = NoBookings
    /\ bookingsLoading' = TRUE
    /\ cancelling' = None
    /\ told' = {}
    /\ refreshedBusy' = FALSE
    /\ UNCHANGED status

Refresh ==
    /\ mounted
    /\ Spend
    /\ Send("bookings", None)
    /\ bookingsLoading' = TRUE
    /\ refreshedBusy' = (refreshedBusy \/ ~Quiet)
    /\ UNCHANGED <<mounted, status, bookings, cancelling, told>>

\* The answer of the load and its rejection; finally sets loading false.
Loaded(c) ==
    /\ \/ Answered(c, "bookings") /\ Take(c) /\ bookings' = wire[c].answer
       \/ Rejected(c, "bookings") /\ UNCHANGED bookings
    /\ bookingsLoading' = FALSE
    /\ UNCHANGED <<moves, mounted, status, cancelling, told, refreshedBusy>>

\* Mutant of handleCancel: shows the row cancelled before the answer.
MutantHandleCancel(b) ==
    /\ mounted /\ CancelOffered(b)
    /\ Spend
    /\ Send("cancel", b)
    /\ bookings' = [bookings EXCEPT ![b] = "cancelled"]
    /\ cancelling' = b
    /\ UNCHANGED <<mounted, status, bookingsLoading, told, refreshedBusy>>

handleCancel(b) ==
    /\ mounted
    /\ CancelOffered(b)
    /\ Spend
    /\ Send("cancel", b)
    /\ cancelling' = b
    /\ UNCHANGED <<mounted, status, bookings, bookingsLoading, told, refreshedBusy>>

\* Mutant of Cancelled: reports the cancellation and leaves the row.
MutantCancelled(c) ==
    /\ Answered(c, "cancel")
    /\ Take(c)
    /\ cancelling' = None
    /\ told' = told \cup {wire[c].arg}
    /\ UNCHANGED <<moves, mounted, status, bookings, bookingsLoading, refreshedBusy>>

Cancelled(c) ==
    /\ Answered(c, "cancel")
    /\ Take(c)
    /\ bookings' = [b \in Booking |->
         IF b = wire[c].arg /\ bookings[b] # "absent" THEN "cancelled" ELSE bookings[b]]
    /\ cancelling' = None
    /\ told' = told \cup {wire[c].arg}
    /\ UNCHANGED <<moves, mounted, status, bookingsLoading, refreshedBusy>>

\* Mutant of CancelFailed: leaves the spinner.
MutantCancelFailed(c) ==
    /\ Rejected(c, "cancel")
    /\ UNCHANGED <<moves, mounted, bookingVars>>

CancelFailed(c) ==
    /\ Rejected(c, "cancel")
    /\ cancelling' = None
    /\ UNCHANGED <<moves, mounted, status, bookings, bookingsLoading, told, refreshedBusy>>

\* The server: GET /prebook/my and DELETE /prebook/{id}.
ServeBookings(c) ==
    /\ Sent(c, "bookings")
    /\ Reply(c, "answered", status)
    /\ UNCHANGED <<moves, mounted, bookingVars>>

ServeCancel(c) ==
    /\ Sent(c, "cancel")
    /\ IF status[wire[c].arg] = "active"
       THEN /\ status' = [status EXCEPT ![wire[c].arg] = "cancelled"]
            /\ Reply(c, "answered", None)
       ELSE /\ Reply(c, "refused", None)
            /\ UNCHANGED status
    /\ UNCHANGED <<moves, mounted, bookingView>>

\* A pre-booking is made on the dashboard, or cancelled in the admin panel.
BookedElsewhere(b) ==
    /\ \/ status[b] = "absent" /\ status' = [status EXCEPT ![b] = "active"]
       \/ status[b] = "active" /\ status' = [status EXCEPT ![b] = "cancelled"]
    /\ Spend
    /\ UNCHANGED <<wire, mounted, bookingView>>

BookingsAnswer(c) == Loaded(c) \/ Cancelled(c) \/ CancelFailed(c)
BookingsServe(c) == ServeBookings(c) \/ ServeCancel(c)

BookingsNext ==
    \/ OpenBookings
    \/ Refresh
    \/ LeaveBookings
    \/ \E b \in Booking : handleCancel(b) \/ BookedElsewhere(b)
    \/ \E c \in Call : BookingsAnswer(c) \/ BookingsServe(c)

BookingsTypeOK ==
    /\ status \in [Booking -> BookingStatus]
    /\ bookings \in [Booking -> BookingStatus]
    /\ bookingsLoading \in BOOLEAN
    /\ cancelling \in Booking \cup {None}
    /\ told \subseteq Booking
    /\ refreshedBusy \in BOOLEAN

(***************************************************************************)
(* No row is shown cancelled that is still active: a car would be waited   *)
(* for in a slot its owner believes to have given back.  A cancel that was *)
(* refused, lost or overtaken by a load leaves the row as it was.          *)
(***************************************************************************)
ShownCancelledIsCancelled ==
    \A b \in Booking : bookings[b] = "cancelled" => status[b] = "cancelled"

(***************************************************************************)
(* A row the page reported cancelled is not shown active again, unless     *)
(* Refresh was pressed while an answer was outstanding: only then can rows *)
(* read before the cancellation arrive after it.                           *)
(***************************************************************************)
CancelledStaysShown ==
    refreshedBusy \/ \A b \in told : bookings[b] # "active"
=============================================================================

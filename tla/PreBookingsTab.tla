--------------------------- MODULE PreBookingsTab ---------------------------
(***************************************************************************)
(* The tab "Pre-Bookings" of the admin panel works as the user's own page  *)
(* "My Pre-Bookings" does (MyBookings), over the pre-bookings of all       *)
(* users, and with filters that only hide rows.                            *)
(***************************************************************************)
EXTENDS Client

CONSTANT Booking

VARIABLES
    preBooking,       \* the server's rows
    pbRows, pbLoading, pbCancelling, pbTold, pbRefreshedBusy,
    pbFilter          \* the status chosen; slot and date hide rows likewise

pbList == <<preBooking, pbRows, pbLoading, pbCancelling, pbTold, pbRefreshedBusy>>
pbVars == <<pbList, pbFilter>>

Page == INSTANCE MyBookings WITH
            status <- preBooking, bookings <- pbRows, bookingsLoading <- pbLoading,
            cancelling <- pbCancelling, told <- pbTold, refreshedBusy <- pbRefreshedBusy

PreBookingsInit == Page!BookingsInit /\ pbFilter = "all"

\* The rows that pass the filter.
visiblePreBookings ==
    {b \in Booking : pbRows[b] # "absent" /\ pbFilter \in {"all", pbRows[b]}}

PreBookingsScreen ==
    IF pbLoading THEN "spinner"
    ELSE IF visiblePreBookings = {} THEN "No pre-bookings found" ELSE "table"

OpenPreBookings == Page!OpenBookings /\ UNCHANGED pbFilter

LeavePreBookings == Page!LeaveBookings /\ pbFilter' = "all"

setFilter(f) ==
    /\ mounted /\ f # pbFilter
    /\ pbFilter' = f
    /\ UNCHANGED <<clientVars, pbList>>

loadPreBookings == Page!Refresh /\ UNCHANGED pbFilter

cancelPreBooking(b) ==
    /\ PreBookingsScreen = "table" /\ b \in visiblePreBookings
    /\ Page!handleCancel(b)
    /\ UNCHANGED pbFilter

\* The answers, and the endpoints list_prebookings and
\* admin_cancel_prebooking, which cancels an active row of any user.
PreBookingsAnswer(c) == Page!BookingsAnswer(c) /\ UNCHANGED pbFilter
\* Mutant of PreBookingsServe: answers without committing.
MutantPreBookingsServe(c) ==
    \/ Page!ServeBookings(c) /\ UNCHANGED pbFilter
    \/ /\ Sent(c, "cancel")
       /\ Reply(c, "answered", None)
       /\ UNCHANGED <<moves, mounted, pbVars>>

PreBookingsServe(c)  == Page!BookingsServe(c) /\ UNCHANGED pbFilter

PreBookingsNext ==
    \/ OpenPreBookings
    \/ LeavePreBookings
    \/ \E f \in {"all", "active", "cancelled"} : setFilter(f)
    \/ loadPreBookings
    \/ \E b \in Booking : cancelPreBooking(b) \/ (Page!BookedElsewhere(b) /\ UNCHANGED pbFilter)
    \/ \E c \in Call : PreBookingsAnswer(c) \/ PreBookingsServe(c)

PreBookingsTypeOK ==
    Page!BookingsTypeOK /\ pbFilter \in {"all", "active", "cancelled"}

(***************************************************************************)
(* The guarantees of the user's page hold for the administrator, too,      *)
(* however the rows are hidden: none is shown cancelled that is active,    *)
(* and one reported cancelled is not shown active again unless Refresh was *)
(* pressed with an answer outstanding.                                     *)
(***************************************************************************)
PreBookingRowsTrue ==
    /\ Page!ShownCancelledIsCancelled
    /\ Page!CancelledStaysShown
=============================================================================

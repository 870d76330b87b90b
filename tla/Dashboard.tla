------------------------------ MODULE Dashboard ------------------------------
(***************************************************************************)
(* The user's dashboard (pages/Dashboard.jsx) with its grid of slots and   *)
(* the dialogs to book a slot at once or for later.  usePolling reads the  *)
(* slots and the user's account (balance and active session) every 5 s;    *)
(* an answer may take 15 s, so several polls can be under way.             *)
(*                                                                         *)
(* The dialogs are windows over the page: while one is open no slot can be *)
(* clicked, but Cancel and the cross stay enabled while it is "Booking".   *)
(***************************************************************************)
EXTENDS Client

CONSTANTS
    Slot,
    Layout,       \* the slots PARKING_LAYOUT draws
    SlotStatus    \* contains "available" and "reserved"

ASSUME DashboardAssumption ==
    Layout \subseteq Slot /\ {"available", "reserved"} \subseteq SlotStatus

VARIABLES
    slot,           \* the server: the status of every slot
    account,        \* the server: version of the user's balance and session
    slots,          \* the page's slots, None before the first answer
    mine,           \* the page: version of the balance and session shown
    bookingMode,    \* "instant" or "prebook"
    dialog,         \* the dialog open, or NoDialog
    dialogs,        \* dialogs opened since the page was: each has a number
    crowded,        \* history: a poll was sent with another one under way
    abandoned       \* history: a dialog was closed while it was booking

dashboardVars == <<slot, account, slots, mine, bookingMode, dialog, dialogs, crowded, abandoned>>
dashboardView == <<slots, mine, bookingMode, dialog, dialogs, crowded, abandoned>>

Parts == {"slots", "account"}
NoDialog == [kind |-> "none", slot |-> None, no |-> 0, busy |-> FALSE, plate |-> FALSE]

DashboardInit ==
    /\ slot \in [Slot -> {"available", "reserved"}]
    /\ account = 0
    /\ slots = None
    /\ mine = None
    /\ bookingMode = "instant"
    /\ dialog = NoDialog
    /\ dialogs = 0
    /\ crowded = FALSE
    /\ abandoned = FALSE

\* The grid draws the slots of the layout, once they are loaded.
Grid == IF slots = None THEN {} ELSE Layout

\* Mutant of Clickable: a slot can be clicked beside an open dialog.
MutantClickable(s) ==
    s \in Grid /\ slots[s] = "available"

\* A slot is clickable when it is drawn as available and no dialog covers it.
Clickable(s) == s \in Grid /\ slots[s] = "available" /\ dialog = NoDialog

Poll(c) == SendAll(c, "all", Parts)

\* usePolling calls fetchAll when the page is opened and every 5 s.
OpenDashboard ==
    /\ ~mounted /\ mounted' = TRUE
    /\ Spend
    /\ Room /\ Poll(Fresh)
    /\ UNCHANGED dashboardVars

\* The fields start again from their first values when it is next opened.
LeaveDashboard ==
    /\ Unmount
    /\ slots' = None
    /\ mine' = None
    /\ bookingMode' = "instant"
    /\ dialog' = NoDialog
    /\ crowded' = FALSE
    /\ dialogs' = 0
    /\ abandoned' = FALSE
    /\ UNCHANGED <<slot, account>>

\* Mutant of usePolling: stops once something is shown.
MutantUsePolling ==
    /\ mounted /\ mine = None
    /\ Room /\ Poll(Fresh)
    /\ crowded' = (crowded \/ Awaits("all"))
    /\ UNCHANGED <<moves, mounted, slot, account, slots, mine, bookingMode, dialog,
                   dialogs, abandoned>>

usePolling ==
    /\ mounted
    /\ Room /\ Poll(Fresh)
    /\ crowded' = (crowded \/ Awaits("all"))
    /\ UNCHANGED <<moves, mounted, slot, account, slots, mine, bookingMode, dialog,
                   dialogs, abandoned>>

Now(p) == IF p = "slots" THEN slot ELSE account

ServePart(c, p) ==
    /\ Fulfil(c, "all", p, Now(p))
    /\ UNCHANGED <<moves, mounted, dashboardVars>>

FailPart(c, p) ==
    /\ Drop(c, "all", p)
    /\ Spend
    /\ UNCHANGED <<mounted, dashboardVars>>

\* allSettled: every part that was fulfilled is shown, the others stay.
fetchAll(c) ==
    /\ Settled(c, "all")
    /\ Take(c)
    /\ slots' = Brought(c, "slots", slots)
    /\ mine' = Brought(c, "account", mine)
    /\ UNCHANGED <<moves, mounted, slot, account, bookingMode, dialog, dialogs,
                   crowded, abandoned>>

setBookingMode(mode) ==
    /\ mounted /\ dialog = NoDialog
    /\ bookingMode' = mode
    /\ UNCHANGED <<wire, moves, mounted, slot, account, slots, mine, dialog, dialogs,
                   crowded, abandoned>>

\* onBook: the dialog of the mode chosen opens over the page.
onBook(s) ==
    /\ mounted
    /\ Clickable(s)
    /\ Spend
    /\ dialogs' = dialogs + 1
    /\ dialog' = [kind |-> bookingMode, slot |-> s, no |-> dialogs + 1,
                  busy |-> FALSE, plate |-> FALSE]
    /\ UNCHANGED <<wire, mounted, slot, account, slots, mine, bookingMode, crowded, abandoned>>

\* The plate in the booking dialog: typed by the user, or the first vehicle
\* of the list the dialog loads (which overwrites what was typed).
setPlate ==
    /\ mounted
    /\ dialog.kind = "instant" /\ ~dialog.plate
    /\ dialog' = [dialog EXCEPT !.plate = TRUE]
    /\ UNCHANGED <<wire, moves, mounted, slot, account, slots, mine, bookingMode, dialogs,
                   crowded, abandoned>>

onClose ==
    /\ mounted /\ dialog # NoDialog
    /\ dialog' = NoDialog
    /\ abandoned' = (abandoned \/ dialog.busy)
    /\ UNCHANGED <<wire, moves, mounted, slot, account, slots, mine, bookingMode, dialogs, crowded>>

\* Confirm: nothing is sent without a plate.
handleBook ==
    /\ mounted
    /\ dialog.kind = "instant" /\ ~dialog.busy /\ dialog.plate
    /\ Spend
    /\ Send("book", dialog)
    /\ dialog' = [dialog EXCEPT !.busy = TRUE]
    /\ UNCHANGED <<mounted, slot, account, slots, mine, bookingMode, dialogs, crowded, abandoned>>

\* Confirm Pre-Book: nothing is sent unless the start is before the end.
handleSubmit(startTime, endTime) ==
    /\ mounted
    /\ dialog.kind = "prebook" /\ ~dialog.busy
    /\ startTime < endTime
    /\ Spend
    /\ Send("prebook", dialog)
    /\ dialog' = [dialog EXCEPT !.busy = TRUE]
    /\ UNCHANGED <<mounted, slot, account, slots, mine, bookingMode, dialogs, crowded, abandoned>>

\* onSuccess closes the dialog of that kind which is open now, whichever
\* dialog the answer belongs to; an instant booking also polls.
Booked(c) ==
    /\ Answered(c, "book") \/ Answered(c, "prebook")
    /\ dialog' = IF dialog.kind = wire[c].arg.kind THEN NoDialog ELSE dialog
    /\ IF wire[c].op = "book"
       THEN Poll(c) /\ crowded' = (crowded \/ Awaits("all"))
       ELSE Take(c) /\ UNCHANGED crowded
    /\ UNCHANGED <<moves, mounted, slot, account, slots, mine, bookingMode, dialogs, abandoned>>

\* Mutant of BookFailed: leaves the button disabled.
MutantBookFailed(c) ==
    /\ Rejected(c, "book") \/ Rejected(c, "prebook")
    /\ UNCHANGED <<moves, mounted, dashboardVars>>

\* The toast names the failure; only the dialog that asked is enabled again.
BookFailed(c) ==
    /\ Rejected(c, "book") \/ Rejected(c, "prebook")
    /\ dialog' = IF dialog.no = wire[c].arg.no THEN [dialog EXCEPT !.busy = FALSE] ELSE dialog
    /\ UNCHANGED <<moves, mounted, slot, account, slots, mine, bookingMode, dialogs,
                   crowded, abandoned>>

\* POST /parking/book-slot reserves an available slot; it also refuses plates
\* that are not the user's and vehicles already parked.
ServeBook(c) ==
    /\ Sent(c, "book")
    /\ LET s == wire[c].arg.slot
       IN  \/ /\ slot[s] = "available"
              /\ slot' = [slot EXCEPT ![s] = "reserved"]
              /\ account' = account + 1
              /\ Reply(c, "answered", None)
           \/ Reply(c, "refused", None) /\ UNCHANGED <<slot, account>>
    /\ UNCHANGED <<moves, mounted, dashboardView>>

\* POST /prebook writes a row of another table (PreBooking), or refuses.
ServePreBook(c) ==
    /\ Sent(c, "prebook")
    /\ Reply(c, "answered", None) \/ Reply(c, "refused", None)
    /\ UNCHANGED <<moves, mounted, dashboardVars>>

\* The gates, other users and administrators change a slot; the exit gate
\* charges the account.
LotChanges ==
    /\ Spend
    /\ \/ /\ \E s \in Slot, new \in SlotStatus : new # slot[s] /\ slot' = [slot EXCEPT ![s] = new]
          /\ UNCHANGED account
       \/ account' = account + 1 /\ UNCHANGED slot
    /\ UNCHANGED <<wire, mounted, dashboardView>>

DashboardAnswer(c) == fetchAll(c) \/ Booked(c) \/ BookFailed(c)
DashboardServe(c) == \/ ServeBook(c) \/ ServePreBook(c)
                     \/ \E p \in Parts : ServePart(c, p)

DashboardNext ==
    \/ OpenDashboard
    \/ LeaveDashboard
    \/ usePolling
    \/ onClose
    \/ \E mode \in {"instant", "prebook"} : setBookingMode(mode)
    \/ \E s \in Slot : onBook(s)
    \/ setPlate
    \/ handleBook
    \/ \E startTime, endTime \in 1 .. 2 : handleSubmit(startTime, endTime)
    \/ LotChanges
    \/ \E c \in Call : \/ DashboardAnswer(c) \/ DashboardServe(c)
                       \/ \E p \in Parts : FailPart(c, p)

DashboardTypeOK ==
    /\ slot \in [Slot -> SlotStatus]
    /\ account \in Nat
    /\ slots \in [Slot -> SlotStatus] \cup {None}
    /\ mine \in Nat \cup {None}
    /\ bookingMode \in {"instant", "prebook"}
    /\ dialog \in [kind : {"none", "instant", "prebook"}, slot : Slot \cup {None}, no : Nat,
                   busy : BOOLEAN, plate : BOOLEAN]
    /\ dialogs \in Nat
    /\ {crowded, abandoned} \subseteq BOOLEAN

(***************************************************************************)
(* A dialog is closed by the answer to its own booking, never by that of   *)
(* another one, unless a dialog was closed while it was booking: then the  *)
(* late success takes away the dialog that was opened after it.            *)
(***************************************************************************)
ClosedByItsOwnAnswer ==
    [][abandoned \/ \A c \in Call :
         (Answered(c, "book") \/ Answered(c, "prebook")) /\ wire'[c] # wire[c]
            /\ dialog # NoDialog /\ dialog' = NoDialog /\ mounted'
               => wire[c].arg.no = dialog.no]_dialog

(***************************************************************************)
(* A dialog that says "Booking" has its request under way, so that its     *)
(* button is enabled again or it closes: it never waits for nothing.       *)
(***************************************************************************)
BusyDialogHasRequest ==
    mounted /\ dialog.busy =>
        \E c \in Call : /\ wire[c].op \in {"book", "prebook"} /\ wire[c].heard
                        /\ wire[c].arg.no = dialog.no

(***************************************************************************)
(* The account shown never goes back to an older one, unless two polls     *)
(* were under way at once and were answered in the other order.            *)
(***************************************************************************)
AccountOnlyForward ==
    [][mine # None /\ mine' # None /\ ~crowded' => mine' >= mine]_<<mine, crowded>>

\* The page shows the server's tables as they are.
CaughtUp == mounted => slots = slot /\ mine = account
=============================================================================

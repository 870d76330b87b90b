----------------------------- MODULE AdminPanel -----------------------------
(***************************************************************************)
(* The admin panel (admin-app/src), each tab with the part of the server   *)
(* it talks to.  A tab keeps nothing when another one is shown, so the     *)
(* tabs do not share state in the browser: a behaviour picks the tab that  *)
(* is shown and left again any number of times, and what is done elsewhere *)
(* appears as changes of the server's tables.  "home" is the panel with    *)
(* what it polls and the tabs Overview and Slots, which show that.         *)
(***************************************************************************)
EXTENDS AdminHome, UsersTab, SessionsTab, TransactionsTab, CapturesTab,
        TestingTab, PreBookingsTab

VARIABLE tab

Tabs == {"home", "users", "sessions", "transactions", "camera", "testing",
         "prebookings"}

vars == <<tab, clientVars, homeVars, usersVars, sessionsVars, txnsVars, capturesVars,
          testingVars, pbVars>>

Init ==
    /\ tab \in Tabs
    /\ ClientInit
    /\ HomeInit
    /\ UsersInit
    /\ SessionsInit
    /\ TransactionsInit
    /\ CapturesInit
    /\ TestingInit
    /\ PreBookingsInit
    /\ tab # "home" => \A s \in Slot : slot[s] = "available"
    /\ tab # "users" => \A u \in User : account[u].active
    /\ tab # "sessions" => session = NoSessions
    /\ tab # "transactions" => \A f \in Filter : matching[f] = 0
    /\ tab # "prebookings" => preBooking = Page!NoBookings

Others(t) ==
    /\ tab = t
    /\ UNCHANGED tab
    /\ t # "home"         => UNCHANGED homeVars
    /\ t # "users"        => UNCHANGED usersVars
    /\ t # "sessions"     => UNCHANGED sessionsVars
    /\ t # "transactions" => UNCHANGED txnsVars
    /\ t # "camera"       => UNCHANGED capturesVars
    /\ t # "testing"      => UNCHANGED testingVars
    /\ t # "prebookings"  => UNCHANGED pbVars

Next ==
    \/ HomeNext         /\ Others("home")
    \/ UsersNext        /\ Others("users")
    \/ SessionsNext     /\ Others("sessions")
    \/ TransactionsNext /\ Others("transactions")
    \/ CapturesNext     /\ Others("camera")
    \/ TestingNext      /\ Others("testing")
    \/ PreBookingsNext  /\ Others("prebookings")

\* A promise settles: axios gives up after 15 s.
Answer(c) ==
    \/ Others("home") /\ HomeAnswer(c)
    \/ Others("users") /\ UsersAnswer(c)
    \/ Others("sessions") /\ SessionsAnswer(c)
    \/ Others("transactions") /\ TransactionsAnswer(c)
    \/ Others("camera") /\ CapturesAnswer(c)
    \/ Others("testing") /\ Simulated(c)
    \/ Others("prebookings") /\ PreBookingsAnswer(c)

Fairness == \A c \in Call : WF_vars(Answer(c))

Spec == Init /\ [][Next]_vars /\ Fairness

TypeOK ==
    /\ tab \in Tabs
    /\ ClientTypeOK
    /\ HomeTypeOK
    /\ UsersTypeOK
    /\ SessionsTypeOK
    /\ TransactionsTypeOK
    /\ CapturesTypeOK
    /\ TestingTypeOK
    /\ PreBookingsTypeOK

\* A tab or one of its buttons spins.
Busy ==
    /\ mounted
    /\ \/ tab = "home" /\ (gateLoading # {} \/ overriding \/ occupiedLoading)
       \/ tab = "users" /\ detail # NoDetail /\ crediting
       \/ tab = "sessions" /\ (sessionsLoading \/ closing # None)
       \/ tab = "transactions" /\ txnLoading
       \/ tab = "camera" /\ capturesLoading
       \/ tab = "testing" /\ running # {}
       \/ tab = "prebookings" /\ (pbLoading \/ pbCancelling # None)

(***************************************************************************)
(* No tab spins for ever, and no button stays disabled: every request is   *)
(* answered or given up, and the finally branches end the waiting.         *)
(***************************************************************************)
PanelSpinnersStop == Busy ~> ~Busy

(***************************************************************************)
(* When no answer is outstanding, what a tab shows belongs to the filter,  *)
(* the page and the picture chosen now and not to the ones chosen before;  *)
(* the overlaps under which the code fails in this are named in the parts. *)
(***************************************************************************)
RowsAsChosen == RowsFollowFilter /\ RowsOfPageShown /\ ResultOfPicture

(***************************************************************************)
(* The page of transactions shown exists and can be left by a page bar     *)
(* that offers every neighbour and no page that does not exist.            *)
(***************************************************************************)
PagesUsable == PageShownExists /\ BarUsable

(***************************************************************************)
(* The rows tell what the server holds: accounts as they are, nothing      *)
(* reported closed or cancelled that is not, no picture lost between two.  *)
(***************************************************************************)
RowsTrue ==
    /\ AccountsShownAreHeld
    /\ ReportedClosedIsCompleted
    /\ PreBookingRowsTrue
    /\ CapturesWithoutGap
=============================================================================

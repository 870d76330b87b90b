------------------------------- MODULE UserApp -------------------------------
(***************************************************************************)
(* The pages of the user's web app (frontend/src), each with the part of   *)
(* the server it talks to.  The routes show one page at a time and a page  *)
(* keeps nothing when it is left, so the pages do not share state in the   *)
(* browser: a behaviour picks the page that is visited and left again any  *)
(* number of times, and what is done on the other pages, in other tabs or  *)
(* by other people appears as changes of the server's tables.              *)
(***************************************************************************)
EXTENDS MyBookings, Wallet, Profile, Dashboard, CameraFeed

VARIABLE page

Page == {"my-bookings", "wallet", "profile", "dashboard", "camera"}

vars == <<page, clientVars, bookingVars, walletVars, profileVars, dashboardVars, cameraVars>>

Init ==
    /\ page \in Page
    /\ ClientInit
    /\ BookingsInit
    /\ WalletInit
    /\ ProfileInit
    /\ DashboardInit
    /\ CameraInit
    /\ page # "my-bookings" => status = NoBookings
    /\ page # "profile" => garage = <<>>
    /\ page # "dashboard" => \A s \in Slot : slot[s] = "available"
    /\ page # "camera" => cameraUp

Others(p) ==
    /\ page = p
    /\ UNCHANGED page
    /\ p # "my-bookings" => UNCHANGED bookingVars
    /\ p # "wallet"      => UNCHANGED walletVars
    /\ p # "profile"     => UNCHANGED profileVars
    /\ p # "dashboard"   => UNCHANGED dashboardVars
    /\ p # "camera"      => UNCHANGED cameraVars

Next ==
    \/ BookingsNext  /\ Others("my-bookings")
    \/ WalletNext    /\ Others("wallet")
    \/ ProfileNext   /\ Others("profile")
    \/ DashboardNext /\ Others("dashboard")
    \/ CameraNext    /\ Others("camera") /\ UNCHANGED clientVars

\* A promise settles (axios gives up after 15 s), requests that arrive are
\* served, and the timers of an open page fire.
Answer(c) ==
    \/ BookingsAnswer(c)  /\ Others("my-bookings")
    \/ WalletAnswer(c)    /\ Others("wallet")
    \/ ProfileAnswer(c)   /\ Others("profile")
    \/ DashboardAnswer(c) /\ Others("dashboard")

Serve(c) ==
    \/ WalletServe(c)    /\ Others("wallet")
    \/ DashboardServe(c) /\ Others("dashboard")

Fairness ==
    /\ \A c \in Call : WF_vars(Answer(c)) /\ WF_vars(Serve(c))
    /\ WF_vars(usePolling /\ Others("dashboard"))
    /\ WF_vars(refresh /\ Others("camera") /\ UNCHANGED clientVars)
    /\ WF_vars((onLoad \/ onError) /\ Others("camera") /\ UNCHANGED clientVars)

Spec == Init /\ [][Next]_vars /\ Fairness

TypeOK ==
    /\ page \in Page
    /\ ClientTypeOK
    /\ BookingsTypeOK
    /\ WalletTypeOK
    /\ ProfileTypeOK
    /\ DashboardTypeOK

\* A page or one of its buttons spins.
Busy ==
    /\ mounted
    /\ \/ page = "my-bookings" /\ (bookingsLoading \/ cancelling # None)
       \/ page = "wallet" /\ topping
       \/ page = "profile" /\ addingVehicle
       \/ page = "dashboard" /\ dialog.busy

(***************************************************************************)
(* No spinner turns for ever: whatever is lost or refused, the finally     *)
(* branches end it, and the page can be used again.                        *)
(***************************************************************************)
SpinnersStop == Busy ~> ~Busy

(***************************************************************************)
(* Once the lot no longer changes, an open dashboard comes to show the     *)
(* slots and the account as they are and stays there, whatever polls were  *)
(* lost or overtaken before: the next polls repair it.                     *)
(***************************************************************************)
PageCatchesUp == <>[](page = "dashboard" => CaughtUp)

(***************************************************************************)
(* What the user did on a page is on it once no answer is outstanding: the *)
(* bookings reported cancelled, the top-ups, the vehicles added and        *)
(* deleted.  The overlaps under which the code loses them, and what is not *)
(* seen of changes made elsewhere, are named in the parts.                 *)
(***************************************************************************)
OwnChangesShown == CancelledStaysShown /\ OwnTopUpShown /\ VehiclesShownAreHeld

(***************************************************************************)
(* Every page comes right again without a reload: spinners end, the        *)
(* dashboard catches up with the lot, the camera that is back is seen.     *)
(***************************************************************************)
PagesRecover == SpinnersStop /\ PageCatchesUp /\ CameraRecovers
=============================================================================

----------------------------- MODULE CameraFeed -----------------------------
(***************************************************************************)
(* One camera picture of the dashboard (components/CameraFeed.jsx).  Every *)
(* 5 s the address of the picture changes, which makes the browser fetch   *)
(* it again.  After an error the picture is not on the page any more: only *)
(* the effect that resets the error brings it back.                        *)
(***************************************************************************)
EXTENDS Naturals

CONSTANT MaxOutages   \* bound: how often the camera goes off

VARIABLES
    cameraUp,     \* the camera answers
    picture,      \* the <img>: "fetching", "shown" or "failed"
    error,        \* useState
    outages

cameraVars == <<cameraUp, picture, error, outages>>

CameraInit ==
    /\ cameraUp \in BOOLEAN
    /\ picture = "fetching"
    /\ error = FALSE
    /\ outages = 0

CameraScreen == IF error THEN "Camera offline" ELSE "Live"

\* Mutant of refresh: leaves the error.
MutantRefresh ==
    /\ picture' = "fetching"
    /\ UNCHANGED <<cameraUp, error, outages>>

\* refresh: from the timer, the button in the corner or "Retry"; the effect
\* on refreshKey resets the error and sets a new address.
refresh ==
    /\ error' = FALSE
    /\ picture' = "fetching"
    /\ UNCHANGED <<cameraUp, outages>>

\* The <img> is on the page only while there is no error.
onLoad ==
    /\ CameraScreen = "Live" /\ picture = "fetching" /\ cameraUp
    /\ picture' = "shown"
    /\ error' = FALSE
    /\ UNCHANGED <<cameraUp, outages>>

onError ==
    /\ CameraScreen = "Live" /\ picture = "fetching" /\ ~cameraUp
    /\ picture' = "failed"
    /\ error' = TRUE
    /\ UNCHANGED <<cameraUp, outages>>

\* The camera is switched off or loses its network, and comes back.
CameraChanges ==
    /\ \/ cameraUp /\ outages < MaxOutages /\ cameraUp' = FALSE /\ outages' = outages + 1
       \/ ~cameraUp /\ cameraUp' = TRUE /\ UNCHANGED outages
    /\ UNCHANGED <<picture, error>>

CameraNext == refresh \/ onLoad \/ onError \/ CameraChanges

(***************************************************************************)
(* A camera that is back is seen again without anybody pressing Retry.     *)
(***************************************************************************)
CameraRecovers == <>[]cameraUp => <>[](CameraScreen = "Live")
=============================================================================

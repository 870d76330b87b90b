----------------------------- MODULE MCBilling -------------------------------
(***************************************************************************)
(* A stay that lasts one more Step of seconds in every step, from Lead     *)
(* seconds before the entry up to Latest seconds after it.                 *)
(***************************************************************************)
EXTENDS Billing, FiniteSets

CONSTANTS Lead, Latest, Step

ASSUME StayAssumption == Lead \in Nat /\ Latest \in Nat /\ Step \in Nat

VARIABLE exitTime

EntryTime == 0
StayFee == ParkingCost(EntryTime, exitTime)

StayInit == exitTime = -Lead

StayLonger ==
    /\ exitTime + Step <= Latest
    /\ exitTime' = exitTime + Step

StaySpec == StayInit /\ [][StayLonger]_exitTime

(* The tariff the web pages and the README quote, counted hour by hour: an
   hour is charged when the stay goes past its beginning, the first always. *)
HoursBegun ==
    Cardinality({h \in 0..(Latest \div SecondsPerHour) :
                    h = 0 \/ exitTime > h * SecondsPerHour})

(* Billing agrees with the tariff "60 for the first hour, 30 for each
   additional hour" on every stay, the ones that end on the hour included. *)
MatchesTariff ==
    StayFee = FIRST_HOUR_RATE + ADDITIONAL_HOUR_RATE * (HoursBegun - 1)
==============================================================================

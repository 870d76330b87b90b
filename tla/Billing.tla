------------------------------- MODULE Billing -------------------------------
(***************************************************************************)
(* The parking fee: backend/app/services/billing.py.  Durations are whole  *)
(* seconds and may be negative: the exit time is taken when the exit image *)
(* arrives, before the OCR, and a session may be opened meanwhile.  Money  *)
(* is in rupees; every fee is a whole number of them.                      *)
(***************************************************************************)
EXTENDS Integers

FIRST_HOUR_RATE == 60
ADDITIONAL_HOUR_RATE == 30

SecondsPerHour == 3600

(* Mutants: hours completed instead of hours started; no minimum of one hour. *)
CompletedHours(seconds) == seconds \div SecondsPerHour
UncheckedHours(hours) == hours

(* math.ceil(duration_minutes / 60) *)
StartedHours(seconds) == -((-seconds) \div SecondsPerHour)

AtLeastOne(hours) == IF hours < 1 THEN 1 ELSE hours

(* calculate_parking_cost: the first hour, then every further hour started *)
ParkingCost(entryTime, exitTime) ==
    LET hours == AtLeastOne(StartedHours(exitTime - entryTime))
    IN  FIRST_HOUR_RATE + (hours - 1) * ADDITIONAL_HOUR_RATE
==============================================================================

SPECIFICATION Spec
CONSTANTS
  c1 = c1
  c2 = c2
  b1 = b1
  b2 = b2
  s1 = s1
  p1 = p1
  p2 = p2
  None = None
  Call = {c1, c2}
  Booking = {b1, b2}
  Amount = {0, 100}
  ValidAmount = {100}
  Plate = {p1, p2}
  TakenPlate = {}
  VehicleId = {1, 2, 3}
  Slot = {s1}
  Layout = {s1}
  SlotStatus = {"available", "reserved"}
  MaxMoves = 4
  MaxOutages = 2
INVARIANTS
  TypeOK
  ShownCancelledIsCancelled
  NothingInvented
  OwnChangesShown
  BusyDialogHasRequest
PROPERTIES
  ClosedByItsOwnAnswer
  AccountOnlyForward
  PagesRecover
CHECK_DEADLOCK FALSE

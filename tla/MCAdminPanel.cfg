SPECIFICATION Spec
CONSTANTS
  c1 = c1
  c2 = c2
  s1 = s1
  u1 = u1
  u2 = u2
  n1 = n1
  n2 = n2
  z1 = z1
  z2 = z2
  b1 = b1
  b2 = b2
  p1 = p1
  p2 = p2
  None = None
  Call = {c1, c2}
  Slot = {s1}
  SlotStatus = {"available", "occupied"}
  Gate = {"entry"}
  User = {u1}
  Name = {n1, n2}
  Session = {z1, z2}
  Filter = {"all", "failed"}
  AllTxns = "all"
  PageLimit = 1
  MaxTxns = 9
  Side = {"entry", "exit"}
  Card = {"entry", "exit"}
  Picture = {p1, p2}
  CaptureLimit = 2
  MaxCaptures = 3
  Booking = {b1, b2}
  MaxMoves = 4
INVARIANTS
  TypeOK
  GateFollowsLastClick
  RowsAsChosen
  PagesUsable
  RowsTrue
  OwnCreditShown
PROPERTIES
  NoSilentReactivation
  PanelSpinnersStop
CHECK_DEADLOCK FALSE

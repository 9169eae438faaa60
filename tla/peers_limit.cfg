SPECIFICATION PeersSpec
CONSTANTS
  Callers = {c1, c2}
  Hosts = {s}
  Guests = {c1, c2}
  Slots <- RoomForTwo
  Limit <- AdmitOne
  MaxRequests = 1
  Budgets <- Quiet
INVARIANTS
  AdmitsUpToTheLimit
CHECK_DEADLOCK FALSE

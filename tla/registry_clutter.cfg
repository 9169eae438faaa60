SPECIFICATION Spec
CONSTANTS
  Procs = {p1, p2, p3}
  Zones = {10}
  Clients = {c1}
  Args = {NoArg, 10}
  MaxKills = 0
  MaxQuits = 1
  MaxFails = 1
  NoProc = NoProc
  NoTicket = NoTicket
  NoArg = NoArg
  DefaultPort = 1
  CharPort = 3
  FirstZonePort = 4
  MaxPort = 5
INVARIANTS
  RegisteredMeansUp
CHECK_DEADLOCK FALSE

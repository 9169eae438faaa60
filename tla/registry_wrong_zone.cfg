SPECIFICATION Spec
CONSTANTS
  Procs = {p1, p2, p3}
  Zones = {10, 11}
  Clients = {c1}
  Args = {NoArg, 10, 11}
  MaxKills = 0
  MaxQuits = 0
  MaxFails = 0
  NoProc = NoProc
  NoTicket = NoTicket
  NoArg = NoArg
  DefaultPort = 1
  CharPort = 3
  FirstZonePort = 4
  MaxPort = 5
INVARIANTS
  TransferReachesZone
CHECK_DEADLOCK FALSE

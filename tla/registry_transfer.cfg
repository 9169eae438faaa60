SPECIFICATION SceneSpec
CONSTANTS
  Procs = {p1, p2, p3}
  Zones = {10}
  Clients = {c1}
  Args = {NoArg, 10}
  MaxKills = 0
  MaxQuits = 0
  MaxFails = 0
  NoProc = NoProc
  NoTicket = NoTicket
  NoArg = NoArg
  DefaultPort = 1
  CharPort = 3
  FirstZonePort = 4
  MaxPort = 5
  Accounts <- OneAccount
  Logins <- OneLogin
  Fold <- NoFolding
  NoLogin = NoLogin
PROPERTIES
  TransferIsServed
  ArrivesInZone
  ClientGetsOn
  GetsThrough
  ConnectedInTheEnd
CHECK_DEADLOCK FALSE

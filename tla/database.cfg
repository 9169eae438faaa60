SPECIFICATION DatabaseSpec
CONSTANTS
  Procs = {p1, p2, p3}
  Zones = {10, 11}
  Clients = {c1}
  Args = {NoArg, 0, 10, 11}
  MaxKills = 1
  MaxQuits = 1
  MaxFails = 1
  NoProc = NoProc
  NoTicket = NoTicket
  NoArg = NoArg
  DefaultPort = 1
  CharPort = 3
  FirstZonePort = 4
  MaxPort = 5
  Accounts <- SomeAccounts
  Logins <- SomeLogins
  Fold <- CaseFolded
  NoLogin = NoLogin
  Servers = {s1, s2}
  AccountIds = {a1, a2}
  Names = {n1, n2}
  None = None
  ListLimit = 2
  MaxRequests = 3
  MaxCrashes = 1
SYMMETRY Symmetry
INVARIANTS
  TypeOK
  EveryOwnerHasARow
  Ledger
  LateStarterGetsFreshPort
  NeverBackToCharServer
  VerdictIsRight
  SentToCharServer
  CreationTypeOK
  WardrobeAddsUp
  EveryItemHasAnOwner
  ConfirmedIsDressed
  NewFigIsListed
CHECK_DEADLOCK FALSE

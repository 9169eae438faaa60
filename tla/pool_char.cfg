SPECIFICATION ScenesSpec
CONSTANTS
  Addresses <- ThreeAddresses
  Names = {alice, bob}
  Nobody = Nobody
  Accounts = {alice}
  CharServer = TRUE
  Requests = {"list", "login", "game"}
  MaxConnects = 3
  MaxQueue = 3
  c1 = c1
  c2 = c2
  h1 = h1
  h2 = h2
  Callers <- TwoCallers
  Hosts <- TwoHosts
  Guests <- OneGuest
  Slots <- RoomForTwo
  Limit <- AdmitOne
  MaxRequests = 1
  Budgets <- Disturbances
INVARIANTS
  TypeOK
  LookupFindsAUser
  ShowsAccountsOfOwnPort
  OneAccountPerPort
  ApplicationKnows
  NobodyWaitsInVain
CHECK_DEADLOCK FALSE

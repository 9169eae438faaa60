SPECIFICATION CreationSpec
CONSTANTS
  Servers = {s1, s2}
  AccountIds = {a1, a2}
  Names = {n1}
  None = None
  ListLimit = 4
  MaxRequests = 2
  MaxCrashes = 0
INVARIANTS
  NamesAreUnique
CHECK_DEADLOCK FALSE

SPECIFICATION Spec
CONSTANTS
  Plans <- SafetyPlans
  MaxSends = 3
  Backlog = 4
  Channels = {0, 1}
  Whole = 1
  Piece = 1
  NumMod = 16
  OrdMod = 8
  SplitMod = 4
  HoleLimit = 100
  GiveUp = 0
  Timeout = 1
INVARIANTS
  DeliveredOnce
  NothingLost
  SequenceMovesForward
  PiecesOfOne
PROPERTIES
  OrderedAsSent
CHECK_DEADLOCK FALSE

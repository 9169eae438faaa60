SPECIFICATION Spec
CONSTANTS
  Plans <- LongPlans
  MaxSends = 3
  Backlog = 2
  Channels = {0, 1}
  Whole = 1
  Piece = 1
  NumMod = 16
  OrdMod = 8
  SplitMod = 2
  HoleLimit = 100
  GiveUp = 0
  Timeout = 1
INVARIANTS
  PiecesOfOne
CHECK_DEADLOCK FALSE

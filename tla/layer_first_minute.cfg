SPECIFICATION Spec
CONSTANTS
  Plans <- FirstPlans
  MaxSends = 2
  Backlog = 2
  Channels = {0, 1}
  Whole = 1
  Piece = 1
  NumMod = 16
  OrdMod = 8
  SplitMod = 4
  HoleLimit = 100
  GiveUp = 0
  Timeout = 1
INVARIANTS
  SequencedAsAsked
CHECK_DEADLOCK FALSE

SPECIFICATION PartsSpec
CONSTANTS
  Servers = {server}
  ListLimit = 1
  MaxRequests = 3
  MaxCrashes = 1
  AccountIds = {ann, bob}
  Names = {alpha, beta}
  None = None
  Chars = {1, 2}
  Header = 2
  Width = 2
  MaxName = 2
  MaxFigs = 2
  Items = {5}
  Word = 9
  Colors <- SomeColors
  Styles <- AllStyles
  BlockSize = 8
  WordBytes = 2
  MaxLength = 24
  MinSize = 3
  MaxNodes = 5
  MaxPackets = 5
  MaxShutdowns = 1
VIEW View
INVARIANTS
  ReadsWhatWasTyped
  FullNameRunsOn
  AnswersAreUnderstood
  ClothesTellLook
  NamesAreUnique
  NewFigIsShownDressed
PROPERTIES
  KeepsStandard
  KeepsRoster
  KeepsSequence
  KeepsMap
  KeepsOrder
  ReadsWhatWasWritten
CHECK_DEADLOCK FALSE

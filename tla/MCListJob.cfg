SPECIFICATION FairSpec
CONSTANTS
  Texts <- MCTexts
  Filters <- MCFilters
  MaxPage = 2
  NoText = NoText
  None = None
  MaxActs = 4
  MaxLost = 1
INVARIANTS
  OneRequest
  PageIsShown
  AskedSearchIsShown
PROPERTIES
  StuckOnlyIf
  StuckUntilLeft
  Settles
CHECK_DEADLOCK FALSE

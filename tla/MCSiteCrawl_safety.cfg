SPECIFICATION FairSpec
CONSTANTS
  Sites <- MCSites
  Pages <- MCPages
  Jobs <- MCJobs
  NoPage = NoPage
  First <- MCFirst
  Shown <- MovingPages
  MaxPage <- TwoPages
  Poison <- NoPoison
  MaxFaults = 2
INVARIANTS
  ItemsAreHandled
  NoSilentLeak
PROPERTIES
  CursorWaitsForJobs
  KeepsLedger
  RunEnds
CHECK_DEADLOCK FALSE

SPECIFICATION FairSpec
CONSTANTS
  Sites <- MCSites
  Pages <- MCPages
  Jobs <- MCJobs
  NoPage = NoPage
  First <- MCFirst
  Shown <- FixedPages
  MaxPage <- OnePage
  Poison <- PoisonAtB1
  MaxFaults = 2
INVARIANTS
  NothingBehindPoison
PROPERTIES
  AllBeforePoisonStored
CHECK_DEADLOCK FALSE

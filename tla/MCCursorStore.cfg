SPECIFICATION FairSpec
CONSTANTS
  Procs <- ThreeProcs
  Last = 3
  MaxFaults = 3
INVARIANTS
  CoveredBehindCursor
  TwinsPerProcess
PROPERTIES
  ImplementsCell
  EveryPageAgain
CHECK_DEADLOCK FALSE

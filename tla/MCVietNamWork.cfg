SPECIFICATION FairSpec
CONSTANTS
  Runs <- TwoRuns
  Sizes <- ChangingSite
  BadPages <- NoneOrPage1
  MaxFaults = 2
INVARIANTS
  StartDecidesPages
  NoSilentChromium
PROPERTIES
  EveryPageStored
  StuckAtBad
CHECK_DEADLOCK FALSE

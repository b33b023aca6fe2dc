SPECIFICATION Spec
CONSTANTS
  Adverts <- MCAdverts
  Savers <- MCSavers
  AdvertsOf <- MCAdvertsOf
  Fields <- MCFields
  MaxScrapes = 3
  MaxFaults = 2
INVARIANTS
  TwinsNeedTwoSavers
  AckedIsKept
  SharedOnlyBy
CHECK_DEADLOCK FALSE

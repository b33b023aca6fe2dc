SPECIFICATION Spec
CONSTANTS
  Adverts <- VlanceAdverts
  Savers <- VlanceSaver
  AdvertsOf <- VlanceAdvertsOf
  Fields <- MCFields
  MaxScrapes = 3
  MaxFaults = 0
INVARIANTS
  OneAdvertPerDocument
CHECK_DEADLOCK FALSE

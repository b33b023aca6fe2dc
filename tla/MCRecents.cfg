SPECIFICATION RecentsSpec
CONSTANTS
  s1 = s1
  s2 = s2
  s3 = s3
  s4 = s4
  t1 = t1
  t2 = t2
  Tabs <- MCTabs
  RecentSearches <- MCSearches
  MaxFailed = 1
SYMMETRY Symmetry
INVARIANTS
  ThreeDifferent
  OneListUntilStale

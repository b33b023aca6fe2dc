SPECIFICATION Spec
CONSTANTS
  Jobs <- MCJobs
  Lists <- MCLists
  Details <- MCDetails
  LinkHabits <- MCLinkHabits
  MaxList = 3
INVARIANTS
  StrandedOnlyBy
PROPERTIES
  WholeCardsVisited
  OverlaidOnlyBy

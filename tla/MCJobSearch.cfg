SPECIFICATION Spec
CONSTANTS
  Docs = {d1, d2, d3, d4}
  Limit = 2
  MaxDate = 3
  MaxExternal = 1
  MaxChanges = 2
  MaxFaults = 1
SYMMETRY Symmetric
INVARIANTS
  QuietPassShowsOnce
  SkippedOnlyIf
  PromisedPageHasJobs
  OwnJobsKept

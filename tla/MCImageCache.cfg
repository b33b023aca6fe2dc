SPECIFICATION FairSpec
CONSTANTS
  Callers <- MCCallers
  Processes <- MCProcesses
  ProcessOf <- MCProcessOf
  Size = 2
  MaxFaults = 2
INVARIANTS
  QuietIsWhole
  OnlyFailuresLeaveWriters
PROPERTIES
  QuietFileStays
  CallsReturn

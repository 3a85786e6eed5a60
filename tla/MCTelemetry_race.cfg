SPECIFICATION Spec
CONSTANTS
  LastDay = 2
  MaxRecords = 3
  WriteLimit = 2
  Overlap = TRUE
  PerCycle = 2
  MaxSkips = 1
  Faults = {}
  MaxFaults = 0
INVARIANTS OwedAhead

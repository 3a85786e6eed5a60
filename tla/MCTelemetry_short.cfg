SPECIFICATION Spec
CONSTANTS
  LastDay = 2
  MaxRecords = 3
  WriteLimit = 2
  Overlap = FALSE
  PerCycle = 2
  MaxSkips = 1
  Faults = {"short"}
  MaxFaults = 1
INVARIANTS AllOwedAhead

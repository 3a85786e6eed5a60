SPECIFICATION FairSpec
CONSTANTS
  LastDay = 3
  MaxRecords = 3
  WriteLimit = 2
  Overlap = FALSE
  PerCycle = 2
  MaxSkips = 1
  Faults = {"append", "exists", "read", "short", "store", "link", "power", "mount"}
  MaxFaults = 2
INVARIANTS TypeOK OwedAhead InOrderOnce
PROPERTIES HousekeepingSparesUnsent BacklogDrains

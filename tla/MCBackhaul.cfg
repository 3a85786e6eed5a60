SPECIFICATION FairSpec
CONSTANTS
    old = old  new = new  junk = junk
    Days = {old, new}  Today = new  Junk = junk
    Requests <- MCRequests
    LinkTimeout = 3  SessionTimeout = 2  MinBackoff = 1  MaxBackoff = 3
    JoinTime = 1  BlockTime = 2
    Allowance = 6  FailureLimit = 2  PreferredRetry = 8
    MaxDates = 2  MaxFields = 3  ChunkSize = 2  MaxSize = 4
    MaxRecords = 2  MaxRequests = 1  MaxChanges = 2  Bound = 33
INVARIANTS TypeOK OneBearer OutageBounded LiveOwed DaysWhole
PROPERTIES PreferredReturns TransferEnds
CHECK_DEADLOCK FALSE

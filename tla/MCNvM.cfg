SPECIFICATION FairSpec
CONSTANTS
  NBlocks = 3
  v1 = v1
  v2 = v2
  Values = {v1, v2}
  Immediate <- FirstBlock
  Default <- FactoryImages
  Absent = Absent
  Damaged = Damaged
  Fragile = {3}
  Lands = {3}
INVARIANTS TypeOK CleanMeansStored NoUnchangedCommit
PROPERTIES DeferredWritten

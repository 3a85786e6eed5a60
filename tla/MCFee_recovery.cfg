SPECIFICATION FairSpec
CONSTANTS
  NBlocks = 1
  Span <- UnitSpan
  StubSpan = 1
  MaxSpan = 1
  HeaderSize = 1
  SectorSize = 5
  CounterMod = 4
  SequenceMod = 4
  Values = {v1, v2}
  Absent = Absent
  Damaged = Damaged
  Stub = Stub
  Environments <- AllCalls
INVARIANTS TypeOK DamageReclaimedFirst AgeOrder
PROPERTIES Durable ServiceResumes

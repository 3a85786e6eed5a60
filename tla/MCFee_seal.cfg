SPECIFICATION Spec
CONSTANTS
  NBlocks = 2
  Span <- MixedSpan
  StubSpan = 1
  MaxSpan = 2
  HeaderSize = 1
  SectorSize = 11
  CounterMod = 16
  SequenceMod = 4
  Values = {v1, v2}
  Absent = Absent
  Damaged = Damaged
  Stub = Stub
  Environments <- LandedSeals
PROPERTIES AckSurvivesReset

SPECIFICATION Spec
CONSTANTS
  NBlocks = 2
  Span <- UnitSpan
  StubSpan = 1
  MaxSpan = 1
  HeaderSize = 1
  SectorSize = 6
  CounterMod = 6
  SequenceMod = 4
  Values = {v1, v2}
  Absent = Absent
  Damaged = Damaged
  Stub = Stub
  Environments <- ReadFaults
INVARIANTS FormatOnlyBlank

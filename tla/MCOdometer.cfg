SPECIFICATION OdoSpec
CONSTANTS
  NBlocks = 2
  Immediate <- FirstBlock
  Values <- AllImages
  Default <- FactoryImages
  Absent = Absent
  Damaged = Damaged
  Fragile = {2}
  Lands = {1}
  Odo = 1
  Cal = 2
  Factors = {1}
  Scale = 8
  Speeds = {0, 2, 3}
  MaxRpm = 2
  MaxAccel = 1
  MaxGap = 2
  Threshold = 2
  CountMod = 2
  MaxTotal = 5
  MaxLag = 1
  Diagnosed = TRUE
VIEW NoReplyView
INVARIANTS OdoTypeOK NothingFabricated LossBounded
PROPERTIES ReadingNeverDecreases

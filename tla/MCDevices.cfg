SPECIFICATION Spec
CONSTANTS
    FramesPerCycle = 3
    Arrivals = 1
    QueueDepth = 3
    InitRetries = 2
    MaxAge = 4
    Traffic <- MCTraffic
    SignalTimeout = 2
    StaleLimit = 1
    Readers = {acquisition}
    PackCount = 2
    Retries = 1
    FailureLimit = 3
    MaxLate = 3
    Fittings <- MCFittings
    MissingLimit = 2
    Places <- MCPlaces
    PartSize <- MCPartSize
    BufferSize = 7
    Sentences = 2
    MaxSpeed = 2
    MinInterval = 1
    FixTimeout = 2
    NoFixLimit = 2
    MaxFixAge = 2
    Patience = 2
    EventList <- MCEventList
    Threshold <- MCThreshold
    Warning = {"NO_BACKHAUL"}
    HealingCycles = 3
    LowMv = 11000
    ImplausibleMv = 16000
    ReferenceMv = 3300
    MaxCount = 4095
    DividerMilli = 5700
    OffsetMv = 0
    Replays = 1
    Counts <- MCCounts
    MaxDenied = 1
    Monitored = {"NO_BACKHAUL"}
INVARIANTS TypeOK MotorSound PacksSound PositionSound FaultsSound

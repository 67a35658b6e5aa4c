CONSTANTS
    Parts = {"history"}
    None = None
    PacketLimit = 8
    ByteLimit = 8
    DurationLimit = 30
    Capacity = 2
    KeyInterval = 6
    TargetSegment = 6
    MaxSegment = 12
    Retained = 30
    MaxSegments = 3
    MinSavable = 3
    Requests = {30}
    Durations = {3}
    MaxInFlight = 0
    Ticks = {0, 6, 11, 16}
    MaxEpochs = 1
    MaxSaves = 2
    MaxFaults = 0
SPECIFICATION MCSpec
INVARIANT ClipsContiguous
CHECK_DEADLOCK FALSE

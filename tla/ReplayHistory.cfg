CONSTANTS
    Parts = {"history", "long", "flow", "mp4", "matroska"}
    None = None
    PacketLimit = 3
    ByteLimit = 4
    DurationLimit = 3
    Capacity = 2
    KeyInterval = 2
    TargetSegment = 2
    MaxSegment = 4
    Retained = 3
    MaxSegments = 2
    MinSavable = 1
    Requests = {2}
    Durations = {1}
    MaxInFlight = 1
    Ticks = {0, 1, 2, 3}
    MaxEpochs = 2
    MaxSaves = 1
    MaxFaults = 1
SPECIFICATION MCSpec
INVARIANTS
    RingExact
    ClipsContiguous
    HistorySound
    FilesFaithful
CHECK_DEADLOCK FALSE

CONSTANTS
    Parts = {"lease", "restart", "export", "frames", "devices", "kms"}
    Producers = {pa, pb}
    NoProducer = none
    MaxWire = 2
    MaxDevices = 1
    Slots = 1
    QueueCapacity = 1
    RouteCapacity = 3
    Confirmations = 1
    CandidateCapacity = 1
    MaxInFlight = 1
    MaxCompleted = 2
    MaxFaults = 1
    SaveFails = TRUE
SPECIFICATION MCSpec
SYMMETRY Symmetric
INVARIANTS
    LeasesKept
    RestartKept
    
    KmsSound
PROPERTY ImplementsLease
CHECK_DEADLOCK FALSE

CONSTANTS
    Parts = {"runtime", "session", "steam"}
    MaxNames = 2
    MaxSaves = 3
    MaxEpochs = 3
SPECIFICATION MCFairSpec
INVARIANTS
    SavingOwned
    ClipsAnnounced
    
PROPERTY SaveEnds
CHECK_DEADLOCK FALSE

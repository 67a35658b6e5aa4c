CONSTANTS
    Parts = {"runtime"}
    MaxNames = 2
    MaxSaves = 2
    MaxEpochs = 2
SPECIFICATION MCSpec
INVARIANT SaveKeepsRecorder
CHECK_DEADLOCK FALSE

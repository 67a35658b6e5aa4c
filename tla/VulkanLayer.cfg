CONSTANTS
    Parts = {"layer", "routes", "pair", "gl", "retire", "nvml"}
    Threads = {t1, t2}
    Instances = {i1}
    Devices = {d1, d2}
    Requested = TRUE
SPECIFICATION MCSpec
INVARIANTS
    TableTrue
    DevicesKept
    
    
    
    NvidiaSound
PROPERTY NeverBack
CHECK_DEADLOCK FALSE

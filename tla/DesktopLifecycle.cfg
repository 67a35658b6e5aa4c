CONSTANTS
    Parts = {"lifecycle", "tray", "updates", "playback", "export", "microphone", "steam", "games"}
    MaxGames = 2
    MaxRequests = 3
    MaxFaults = 1
    Faults = {"tray", "lost", "cleanup", "input", "prefs"}
    Prefs = {TRUE, FALSE}
    None = None
    t1 = t1
    t2 = t2
    c1 = c1
    c2 = c2
    a1 = a1
    a2 = a2
    w1 = w1
    w2 = w2
    g1 = g1
    g2 = g2
SPECIFICATION MCFairSpec

    
    
PROPERTIES
    LateResultsLose
    OwnerLeaves
CHECK_DEADLOCK FALSE

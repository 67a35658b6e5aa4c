CONSTANTS
    Parts = {"control", "renderer", "telemetry", "torn", "gl", "pictures"}
    Conn = {1, 2, 3}
    Target = {"save", "format", "out"}
    AnimSteps = 2
    Faults = {"slow", "grab", "save"}
SPECIFICATION MCFairSpec

    
    
PROPERTIES
    MenuGoesAway
    GrabReleased
    ShowsCurrentPlan
CHECK_DEADLOCK FALSE

CONSTANTS
    Parts = {"clips", "exports", "catalog", "format", "replay", "menu", "window", "search"}
    g1 = g1
    g2 = g2
    a = a
    r = r
    e = e
    p = p
    q = q
    s = s
    steam = steam
    none = none
    t1 = t1
    t2 = t2
    Generated = {g1, g2}
    Named = {a}
    Recorder = {r}
    Trimmer = {}
    Exporter = {e}
    Limit = 2
    MaxClip = 2
    MaxInode = 3
    MaxFaults = 1
    MaxRequests = 2
    MaxWrites = 3
    Thumbnails = FALSE
    Reuse = "never"
SPECIFICATION MCSpec

    
    
PROPERTY SettingsWhole
CHECK_DEADLOCK FALSE

CONSTANTS
    Parts = {"admission"}
    s1 = s1
    s2 = s2
    b1 = b1
    b2 = b2
    b3 = b3
    None = None
    speakers = speakers
    headset = headset
    Submitters = {s1}
    Capacity = 1
    MaxQueuedBytes = 2
    Sizes = {1}
    StoreBuffered = TRUE
SPECIFICATION MCSpec
INVARIANT NothingStranded
CHECK_DEADLOCK FALSE

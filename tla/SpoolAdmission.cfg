CONSTANTS
    Parts = {"admission", "buffered", "device", "encoder", "cache", "sound", "voice"}
    s1 = s1
    s2 = s2
    b1 = b1
    b2 = b2
    b3 = b3
    None = None
    speakers = speakers
    headset = headset
    Submitters = {s1, s2, s3}
    Capacity = 2
    MaxQueuedBytes = 2
    Sizes = {1}
    StoreBuffered = FALSE
SPECIFICATION MCFairSpec
INVARIANTS
    PacketAccounting
    NothingStranded
    BufferedAccounting
    EncoderSound
    OneRecorderEach
PROPERTIES
    ShutdownCompletes
    DeviceUnwinds
    SoundFollows
CHECK_DEADLOCK FALSE

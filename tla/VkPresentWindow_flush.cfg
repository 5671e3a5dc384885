SPECIFICATION FairSpec
CONSTANTS
    Frames = {"f1", "f2"}
    NoFrame = "none"
    ChunkSize = 3
    GrowStep = 1
    FlushCount = 0
    ShouldFlush = TRUE
    MaxCalls = 3
INVARIANTS
    FreeTicksAreDone
CHECK_DEADLOCK FALSE

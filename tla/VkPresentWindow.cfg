SPECIFICATION FairSpec
CONSTANTS
    Frames = {"f1", "f2"}
    NoFrame = "none"
    ChunkSize = 3
    GrowStep = 1
    FlushCount = 1
    ShouldFlush = FALSE
    MaxCalls = 3
INVARIANTS
    FreeTicksAreDone
    RecordsIntoFreeBuffer
    RenderFrameIsUnused
    CopiedAfterRendered
PROPERTIES
    CallsReturn
CHECK_DEADLOCK FALSE

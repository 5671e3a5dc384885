SPECIFICATION FairSpec
CONSTANTS
    NumCores = 2
    EventTypes = {"e1", "e2"}
    Period <- FirstPeriodic
    Delays = {0, 2}
    CallbackDelays = {1}
    MAX_SLICE_LENGTH = 3
    min_delay = 1
    Overshoot = 1
INVARIANTS
    TypeOK
    EventsAreTimely
    CoresInStep
    SlicesNotEmpty
PROPERTIES
    TicksNeverGoBack
    EveryEventFires

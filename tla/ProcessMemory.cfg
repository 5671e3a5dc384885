SPECIFICATION Spec
CONSTANTS
    MaxAddress = 10
    HeapBegin = 1
    HeapEnd = 4
    SharedEnd = 5
    LinearArea = 5
    RegionSizes <- MCRegionSizes
    Sizes = {1, 2}
    CommitPerms <- MCPerms
    MapPerms <- MCReadWrite
    Perms <- MCPerms
    Blocks = {1}
    BlockRegion = "BASE"
INVARIANTS
    FreeSpaceMerged
    PageTableAgrees
    FreeMemoryUnused
    Accounting
    LinearAddressesFree
PROPERTIES
    PagesAsAsked
CHECK_DEADLOCK FALSE

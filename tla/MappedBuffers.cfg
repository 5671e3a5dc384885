SPECIFICATION Spec
CONSTANTS
    MaxAddress = 12
    Buffers = {1, 2, 3}
    NumPages <- MCNumPages
INVARIANTS
    GuardPagesReserved

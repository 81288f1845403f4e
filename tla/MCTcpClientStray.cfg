\* A socket that is full when Send is called.
SPECIFICATION Spec
CONSTANTS
    Room = 2
    Sizes = {1, 2, 3}
    MaxSends = 3
    SizeT = 256
    Inbound = FALSE
INVARIANTS
    NothingStray
CHECK_DEADLOCK FALSE

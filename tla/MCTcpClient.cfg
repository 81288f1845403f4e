\* Empty buffers, and buffers shorter than, as long as and longer than the socket's room.
SPECIFICATION FairSpec
CONSTANTS
    Room = 2
    Sizes = {0, 1, 2, 3}
    MaxSends = 3
    SizeT = 256
    Inbound = TRUE
INVARIANTS
    StreamInOrder
    QueueIsDriven
PROPERTIES
    CompleteMeansFlushed
    QueueDrains
    ConnectCompletes
    InputIsRead
CHECK_DEADLOCK FALSE

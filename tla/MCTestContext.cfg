\* Two bytes in front, three at first, an extrabuf of two; integers of two bytes
\* with four values each, -8 to 7.
SPECIFICATION ContextFairSpec
CONSTANTS
    kCheapPrepend = 2
    kInitialSize = 3
    ExtraBuf = 2
    Lens = {0, 1, 2, 4}
    MaxStamp = 8
    IntBytes = 2
    Base = 4
    Messages <- MCMessages
INVARIANTS
    FramesInOrder
PROPERTIES
    ImplementsQueue
    FrameArrives
CHECK_DEADLOCK FALSE

\* Careful and careless users and one that starts the server twice; descriptors are
\* reused and run out.
SPECIFICATION FairSpec
CONSTANTS
    c1 = c1
    c2 = c2
    Conns = {c1, c2}
    Fds = {4, 5, 6}
    None = None
    Listener = Listener
    Users = {"careful", "careless", "operator"}
    MaxIdle = 2
    MaxQueue = 2
    MaxStarts = 2
INVARIANTS
    CarefulNeverFaults
    OpenIsRegistered
    DestroyedOnce
    ClosesItsOwn
    ArmedWhileOpen
    ListenerHears
PROPERTIES
    PeerCloseEnds
    PendingIsAccepted
CHECK_DEADLOCK FALSE

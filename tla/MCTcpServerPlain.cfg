\* A connection that only the server holds.
SPECIFICATION Spec
CONSTANTS
    c1 = c1
    c2 = c2
    Conns = {c1}
    Fds = {4, 5}
    None = None
    Listener = Listener
    Users = {"careless"}
    MaxIdle = 2
    MaxQueue = 0
    MaxStarts = 1
INVARIANTS
    NeverTerminates
CHECK_DEADLOCK FALSE

\* Three callers of Run(); the thread may start before the members are built.
SPECIFICATION FairSpec
CONSTANTS
    main = main
    c1 = c1
    c2 = c2
    Callers = {main, c1, c2}
    Owner = main
INVARIANTS
    RunGivesLoop
    QuitOnLiveLoop
PROPERTIES
    RunReturns
    DestroyEnds
CHECK_DEADLOCK FALSE
